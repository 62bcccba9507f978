------------------------- MODULE MCConnectionWorker -------------------------
(* Instance of ConnectionWorker with deadlines of a few clock ticks. *)
EXTENDS ConnectionWorker
=============================================================================
