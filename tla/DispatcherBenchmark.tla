------------------------ MODULE DispatcherBenchmark ------------------------
(***************************************************************************)
(* BM_Dispatch of src/roma/sandbox/dispatcher/dispatcher_benchmark.cc.     *)
(* Each iteration of the benchmark loop builds a BlockingCounter           *)
(* is_loading(number_of_calls) on its stack, submits number_of_calls load  *)
(* requests through Dispatcher::Invoke with a callback that                *)
(* ASSERT_TRUE(resp.ok())s and then decrements is_loading, asserts that    *)
(* each Invoke was accepted, and waits on is_loading.  A failed gtest      *)
(* ASSERT_TRUE returns from the function it is written in: from the        *)
(* callback lambda, or from BM_Dispatch itself.                            *)
(*                                                                         *)
(* The Dispatcher (not under src/) is modelled from the specification:     *)
(* Invoke rejects when max_pending_requests are pending and otherwise      *)
(* queues the request; the consumer thread of the single worker completes  *)
(* queued requests in order, with a successful response or an error (a     *)
(* worker crash), and runs the callback.  A queued request is tagged with  *)
(* the iteration whose is_loading its callback decrements.                 *)
(***************************************************************************)
EXTENDS Naturals, Sequences

CONSTANTS
    NumberOfCalls,  \* state.range(0)
    MaxPending,     \* max_pending_requests of the Dispatcher
    MaxIters        \* iterations of the benchmark loop that are explored

ASSUME DBAssumption ==
    /\ NumberOfCalls \in Nat \ {0}
    /\ MaxPending \in Nat
    /\ MaxIters \in Nat \ {0}

VARIABLES
    iter,     \* the current iteration of `for (auto _ : state)`
    phase,    \* "loop", "submit", "wait" or "returned" (BM_Dispatch is gone)
    issued,   \* Invoke calls made in this iteration
    count,    \* the count of this iteration's is_loading
    queue,    \* the Dispatcher's pending requests, by iteration tag
    failed    \* gtest has recorded a fatal failure

vars == <<iter, phase, issued, count, queue, failed>>

TypeOK ==
    /\ iter \in 1..MaxIters + 1
    /\ phase \in {"loop", "submit", "wait", "returned"}
    /\ issued \in 0..NumberOfCalls
    /\ count \in 0..NumberOfCalls
    /\ queue \in Seq(1..MaxIters)
    /\ failed \in BOOLEAN

(* The callbacks still owed to iteration k.                                *)
Owed(k) == Len(SelectSeq(queue, LAMBDA x : x = k))

Init ==
    /\ iter = 1
    /\ phase = "loop"
    /\ issued = 0
    /\ count = 0
    /\ queue = <<>>
    /\ failed = FALSE

(* Variant of the loop head whose counter is one short.                   *)
LoopHeadShortCount ==
    /\ phase = "loop"
    /\ IF iter <= MaxIters
         THEN /\ phase' = "submit"
              /\ count' = NumberOfCalls - 1
              /\ issued' = 0
         ELSE /\ phase' = "returned"
              /\ UNCHANGED <<count, issued>>
    /\ UNCHANGED <<iter, queue, failed>>

(* The head of the benchmark loop: another iteration constructs            *)
(* is_loading(number_of_calls); after the last one BM_Dispatch returns     *)
(* and the cleanup stops the workers.                                      *)
LoopHead ==
    /\ phase = "loop"
    /\ IF iter <= MaxIters
         THEN /\ phase' = "submit"
              /\ count' = NumberOfCalls
              /\ issued' = 0
         ELSE /\ phase' = "returned"
              /\ UNCHANGED <<count, issued>>
    /\ UNCHANGED <<iter, queue, failed>>

(* Variant of the submit loop without its bound i < number_of_calls.      *)
InvokeUnbounded ==
    /\ phase = "submit"
    /\ \/ /\ Len(queue) < MaxPending
          /\ queue' = Append(queue, iter)
          /\ issued' = issued + 1
          /\ UNCHANGED <<phase, failed>>
       \/ /\ Len(queue) >= MaxPending
          /\ failed' = TRUE
          /\ phase' = "returned"
          /\ UNCHANGED <<queue, issued>>
    /\ UNCHANGED <<iter, count>>

(* ASSERT_TRUE(dispatcher.Invoke(load_request, callback).ok()): an         *)
(* accepted load is queued; a rejected one fails the assertion, which      *)
(* returns from BM_Dispatch and ends is_loading's scope.                   *)
Invoke ==
    /\ phase = "submit"
    /\ issued < NumberOfCalls
    /\ \/ /\ Len(queue) < MaxPending
          /\ queue' = Append(queue, iter)
          /\ issued' = issued + 1
          /\ UNCHANGED <<phase, failed>>
       \/ /\ Len(queue) >= MaxPending
          /\ failed' = TRUE
          /\ phase' = "returned"
          /\ UNCHANGED <<queue, issued>>
    /\ UNCHANGED <<iter, count>>

(* All loads were submitted: is_loading.Wait() is entered.                 *)
StartWait ==
    /\ phase = "submit"
    /\ issued = NumberOfCalls
    /\ phase' = "wait"
    /\ UNCHANGED <<iter, issued, count, queue, failed>>

(* Variant of Wait() that does not wait for the count to reach zero.      *)
WaitReturnsUnblocked ==
    /\ phase = "wait"
    /\ iter' = iter + 1
    /\ phase' = "loop"
    /\ UNCHANGED <<issued, count, queue, failed>>

(* is_loading.Wait() returns once the count is zero.                       *)
WaitReturns ==
    /\ phase = "wait"
    /\ count = 0
    /\ iter' = iter + 1
    /\ phase' = "loop"
    /\ UNCHANGED <<issued, count, queue, failed>>

(* The consumer thread completes the oldest queued load and runs its      *)
(* callback: ASSERT_TRUE(resp.ok()), then is_loading.DecrementCount().  A *)
(* failed response fails the assertion, which returns from the lambda      *)
(* before the decrement.  A successful callback whose is_loading has gone  *)
(* out of scope writes to dead stack memory: nothing modelled changes.     *)
Complete ==
    /\ queue # <<>>
    /\ queue' = Tail(queue)
    /\ LET live == Head(queue) = iter /\ phase \in {"submit", "wait"} IN
         \/ /\ live
            /\ count' = count - 1
            /\ UNCHANGED failed
         \/ /\ ~live
            /\ UNCHANGED <<count, failed>>
         \/ /\ failed' = TRUE
            /\ UNCHANGED count
    /\ UNCHANGED <<iter, phase, issued>>

(* BM_Dispatch has returned and no callback is owed.                       *)
Done ==
    /\ phase = "returned"
    /\ queue = <<>>
    /\ UNCHANGED vars

Next ==
    \/ LoopHead \/ Invoke \/ StartWait \/ WaitReturns \/ Complete \/ Done

(* The benchmark thread and the consumer thread both keep running.         *)
Spec == Init /\ [][Next]_vars /\ WF_vars(Next)

-----------------------------------------------------------------------------
(* Properties.                                                             *)

(* While an iteration's frame is live, is_loading still counts every load  *)
(* of the iteration that has not been submitted or whose callback has not  *)
(* run: so Wait() cannot return while one of its callbacks is owed.        *)
CounterCoversQueued ==
    phase \in {"submit", "wait"} =>
        count >= Owed(iter) + (NumberOfCalls - issued)

(* An iteration leaves is_loading.Wait(), and with it the scope of its     *)
(* BlockingCounter, only when none of its loads is still queued: no        *)
(* callback of a successful load can decrement a counter that is gone.     *)
IterationEndsDrained ==
    [][phase = "wait" /\ phase' = "loop" =>
         \A j \in 1..Len(queue) : queue[j] # iter]_vars

(* BM_Dispatch returns: every iteration's Wait() ends.                     *)
BenchmarkReturns ==
    <>(phase = "returned")

=============================================================================
