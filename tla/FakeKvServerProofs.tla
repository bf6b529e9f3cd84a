------------------------ MODULE FakeKvServerProofs ------------------------
(* Proofs about the fake key/value server: a blocking call that returns    *)
(* has seen its own callback's successful response, for every number of    *)
(* calls and iterations.                                                   *)
EXTENDS FakeKvServer, TLAPS

(* The benchmark thread is inside one of the NumberOfCalls calls of an     *)
(* iteration of the loop (the execute driver's preload is not one).        *)
InCall ==
    \/ pc \in {"call", "exec_wait", "exec_check"}
    \/ driver = "LoadCodeBenchmark" /\ pc \in {"load_wait", "load_check"}

(* The inductive invariant.  Inside a call the loop counters are in range; *)
(* a wait or check is for a call of the matching kind; once the callback   *)
(* has written (cb = "written", or the Notification fired) and the status  *)
(* is still ok, the response it wrote is there: the code is loaded, or     *)
(* the result holds the response.  A loaded code object stays loaded.      *)
(* Only the execute driver loads code before its loop.                     *)
FInv ==
    /\ TypeOK
    /\ InCall => left \in 1..NumberOfCalls /\ iter \in 1..MaxIters
    /\ pc = "preload" => driver = "ExecuteCodeBenchmark"
    /\ pc \in {"load_wait", "load_check"} => kind = "load"
    /\ pc \in {"exec_wait", "exec_check"} => kind = "exec"
    /\ kind = "load" /\ statusOk /\ (cb = "written" \/ notified) => loaded
    /\ kind = "exec" /\ statusOk /\ (cb = "written" \/ notified) =>
         result = "resp"
    /\ handlerSet => loaded
    /\ returned # "empty"

LEMMA FInvInit == Init => FInv
<1> SUFFICES ASSUME Init PROVE FInv
  OBVIOUS
<1>1. iter \in 1..MaxIters + 1 /\ left \in 0..NumberOfCalls
  BY FKVAssumption DEF Init
<1>2. TypeOK
  BY <1>1, Zenon DEF Init, TypeOK, Drivers, PCs
<1>3. ~InCall
  BY DEF Init, InCall
<1>4. QED
  BY <1>2, <1>3 DEF Init, FInv

(* The callback's writes keep the invariant: a status that stays ok after  *)
(* Respond(ok) means ok held, so the response was stored.                  *)
LEMMA CallbackStep ==
    ASSUME FInv, Callback PROVE FInv'
<1> USE DEF FInv, TypeOK, InCall
<1>1. CASE cb = "owed"
  <2>1. PICK ok \in Outcomes : Respond(ok)
    BY <1>1 DEF Callback
  <2>2. ok \in BOOLEAN
    BY <2>1 DEF Outcomes
  <2>3. QED
    BY <1>1, <2>1, <2>2 DEF Callback, Respond
<1>2. CASE cb = "written"
  BY <1>2 DEF Callback
<1>3. QED
  BY <1>1, <1>2 DEF Callback

(* The caller's loop after a call returned keeps the counters in range.    *)
LEMMA CallReturnedType ==
    ASSUME left \in 1..NumberOfCalls, iter \in 1..MaxIters, CallReturned
    PROVE  /\ left' \in 0..NumberOfCalls /\ iter' \in 1..MaxIters + 1
           /\ pc' = "call" => left' \in 1..NumberOfCalls /\ iter' \in 1..MaxIters
           /\ pc' \in {"call", "loop"}
BY FKVAssumption DEF CallReturned

LEMMA FInvStep == FInv /\ [Next]_vars => FInv'
<1> SUFFICES ASSUME FInv, [Next]_vars PROVE FInv'
  OBVIOUS
<1> USE FKVAssumption DEF FInv, TypeOK, InCall, PCs, Drivers
<1>1. CASE Construct
  BY <1>1 DEF Construct, Abort
<1>2. CASE SetCodeObject
  <2>1. CASE pc' = "aborted"
    BY <1>2, <2>1 DEF SetCodeObject, Abort
  <2>2. CASE pc' # "aborted" /\ pc = "preload"
    BY <1>2, <2>2 DEF SetCodeObject, Abort
  <2>4. CASE pc' # "aborted" /\ pc = "call"
    <3>1. driver = "LoadCodeBenchmark" /\ pc' = "load_wait" /\ kind' = "load"
          /\ cb' = "owed" /\ ~notified'
      BY <1>2, <2>4 DEF SetCodeObject, Abort
    <3>2. QED
      BY <1>2, <3>1 DEF SetCodeObject
  <2>3. QED
    BY <1>2, <2>1, <2>2, <2>4 DEF SetCodeObject
<1>3. CASE ExecuteCode
  <2>1. CASE pc' = "aborted"
    BY <1>3, <2>1 DEF ExecuteCode, Abort
  <2>2. CASE pc' # "aborted"
    BY <1>3, <2>2 DEF ExecuteCode, Abort
  <2>3. QED
    BY <2>1, <2>2
<1>4. CASE Callback
  BY <1>4, CallbackStep
<1>5. CASE WaitReturns
  BY <1>5 DEF WaitReturns
<1>6. CASE LoadCheck
  <2>1. CASE ~(notified /\ statusOk)
    BY <1>6, <2>1 DEF LoadCheck, Abort
  <2>2. CASE notified /\ statusOk /\ driver = "ExecuteCodeBenchmark"
    BY <1>6, <2>2 DEF LoadCheck
  <2>3. CASE notified /\ statusOk /\ driver = "LoadCodeBenchmark"
    <3>1. CallReturned /\ handlerSet' = TRUE
      BY <1>6, <2>3 DEF LoadCheck
    <3>2. loaded
      BY <1>6, <2>3 DEF LoadCheck
    <3>3. QED
      BY <1>6, <2>3, <3>1, <3>2, CallReturnedType DEF LoadCheck
  <2>4. QED
    BY <2>1, <2>2, <2>3
<1>7. CASE ExecCheck
  <2>1. CASE ~(notified /\ statusOk)
    BY <1>7, <2>1 DEF ExecCheck, Abort
  <2>2. CASE notified /\ statusOk
    <3>1. CallReturned /\ returned' = result
      BY <1>7, <2>2 DEF ExecCheck
    <3>2. result = "resp"
      BY <1>7, <2>2 DEF ExecCheck
    <3>3. QED
      BY <1>7, <2>2, <3>1, <3>2, CallReturnedType DEF ExecCheck
  <2>3. QED
    BY <2>1, <2>2
<1>8. CASE LoopHead
  BY <1>8 DEF LoopHead
<1>9. CASE Destroy
  BY <1>9 DEF Destroy, Abort
<1>10. CASE Terminated \/ UNCHANGED vars
  BY <1>10 DEF Terminated, vars
<1>11. QED
  BY <1>1, <1>2, <1>3, <1>4, <1>5, <1>6, <1>7, <1>8, <1>9, <1>10 DEF Next

(* ExecuteCode never returns the empty default of *result: the result it   *)
(* returns after CHECK(HasBeenNotified()) and CHECK(response_status->ok()) *)
(* is the response its own callback stored, because that callback writes  *)
(* before it notifies and a failed response clears the status.            *)
THEOREM OwnResultReturned == Spec => []ReturnsOwnResult
<1>1. FInv => ReturnsOwnResult
  BY DEF FInv, ReturnsOwnResult
<1>2. QED
  BY <1>1, FInvInit, FInvStep, PTL DEF Spec

(* handler_name_ is set only once the Roma service holds loaded code:      *)
(* SetCodeObject returns only after a notified, ok load, and loads are     *)
(* never undone.                                                           *)
THEOREM HandlerLoaded == Spec => []HandlerOnlyForLoadedCode
<1>1. FInv => HandlerOnlyForLoadedCode
  BY DEF FInv, HandlerOnlyForLoadedCode
<1>2. QED
  BY <1>1, FInvInit, FInvStep, PTL DEF Spec

(* Every reachable state of the fake key/value server model is well typed. *)
THEOREM TypeCorrect == Spec => []TypeOK
<1>1. FInv => TypeOK
  BY DEF FInv
<1>2. QED
  BY <1>1, FInvInit, FInvStep, PTL DEF Spec

=============================================================================
