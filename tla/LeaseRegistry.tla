--------------------------- MODULE LeaseRegistry ---------------------------
(***************************************************************************)
(* What a registry of leases promises.  A lease is granted once, under a   *)
(* key no live lease holds; it ends once and never comes back; closing the *)
(* registry ends all leases at once and for good.                          *)
(***************************************************************************)
CONSTANTS Leases, KeyOf

VARIABLES
  live,           \* the leases in force
  ended,          \* the leases that were in force
  shut            \* no lease is granted any more

registryVars == <<live, ended, shut>>

RegistryInit == live = {} /\ ended = {} /\ shut = FALSE

Grant(c) ==
  /\ ~shut
  /\ c \notin live \cup ended
  /\ \A d \in live : KeyOf[d] # KeyOf[c]
  /\ live' = live \cup {c}
  /\ UNCHANGED <<ended, shut>>

End(c) ==
  /\ c \in live
  /\ live' = live \ {c}
  /\ ended' = ended \cup {c}
  /\ UNCHANGED shut

ShutDown ==
  /\ live' = {}
  /\ ended' = ended \cup live
  /\ shut' = TRUE

RegistryNext == ShutDown \/ \E c \in Leases : Grant(c) \/ End(c)

RegistrySpec == RegistryInit /\ [][RegistryNext]_registryVars
=============================================================================
