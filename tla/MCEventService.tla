--------------------------- MODULE MCEventService ---------------------------
(* EventService for TLC: two emitters and a queue of one slot, so that the *)
(* queue is full, a synchronous emit delivers directly and two Fatals race *)
(* SIGTERM within a few steps.                                             *)
EXTENDS EventService

CONSTANTS e1, e2
MCEmitters == {e1, e2}
=============================================================================
