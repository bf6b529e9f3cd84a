----------------------- MODULE MCQueueClientValidator -----------------------
(* Three checks: both functions, and the enqueue check run twice.          *)
EXTENDS QueueClientValidator

MCChecks == <<"enqueue", "gettop", "enqueue">>

=============================================================================
