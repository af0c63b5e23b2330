--------------------------- MODULE MCSerialQueue ---------------------------
(***************************************************************************)
(* An instance of SerialQueue for TLC: four messages, gaps of one tick and *)
(* of two, so that an edit can shorten or lengthen the gap under a timer   *)
(* already armed, and a due timer can be late.                             *)
(***************************************************************************)
EXTENDS SerialQueue, TLC
=============================================================================
