---------------------------- MODULE FakeKvServer ----------------------------
(***************************************************************************)
(* The fake key/value server of src/roma/benchmark/fake_kv_server.cc and   *)
(* the benchmark drivers of kv_server_udf_benchmark.cc that use it.        *)
(* FakeKvServer turns Roma's asynchronous LoadCodeObj and Execute into     *)
(* blocking calls: each call makes a fresh response_status (and result),   *)
(* held by shared_ptr in the callback, CHECKs that the call was accepted,  *)
(* waits on a Notification with a timeout, and CHECKs that it was          *)
(* notified and that the response was ok; any failed CHECK aborts the      *)
(* process.  The callback writes the response (result on success,         *)
(* response_status on failure), then fires the Notification.              *)
(*                                                                         *)
(* LoadCodeBenchmark calls SetCodeObject number_of_loads times in each     *)
(* iteration; ExecuteCodeBenchmark (and BM_ExecuteHelloWorldCallback, the  *)
(* same driver with a function binding) calls it once, then ExecuteCode    *)
(* number_of_calls times in each iteration.  The server is destroyed at    *)
(* the end of the driver.  The Roma service is the environment: a call may *)
(* be refused, an accepted one is answered once, ok or with an error, and  *)
(* an execution succeeds only once code has been loaded.  The timed wait   *)
(* may expire whenever the Notification has not fired.  Values are         *)
(* abstracted: "resp" is the response the service produced for the call.   *)
(***************************************************************************)
EXTENDS Naturals

CONSTANTS
    NumberOfCalls,  \* state.range(0): loads or executions per iteration
    MaxIters        \* iterations of the benchmark loop that are explored

ASSUME FKVAssumption ==
    /\ NumberOfCalls \in Nat \ {0}
    /\ MaxIters \in Nat \ {0}

Drivers == {"LoadCodeBenchmark", "ExecuteCodeBenchmark"}

VARIABLES
    driver,      \* which benchmark driver runs
    pc,          \* where the benchmark thread is
    iter,        \* the current iteration of `for (auto _ : state)`
    left,        \* calls left in this iteration
    handlerSet,  \* handler_name_ != ""
    loaded,      \* the Roma service holds a successfully loaded code object
    kind,        \* the current call: "load" (SetCodeObject) or "exec" (ExecuteCode)
    cb,          \* the callback of the current call: "none", "owed", "written"
    notified,    \* the current call's Notification has fired
    statusOk,    \* *response_status of the current call is ok
    result,      \* *result of the current ExecuteCode: "empty" or "resp"
    returned     \* what the last ExecuteCode returned: "none", "empty", "resp"

vars == <<driver, pc, iter, left, handlerSet, loaded, kind, cb, notified,
          statusOk, result, returned>>

PCs == {"construct", "preload", "loop", "call", "load_wait", "load_check",
        "exec_wait", "exec_check", "destroy", "exited", "aborted"}

TypeOK ==
    /\ driver \in Drivers
    /\ pc \in PCs
    /\ iter \in 1..MaxIters + 1
    /\ left \in 0..NumberOfCalls
    /\ handlerSet \in BOOLEAN
    /\ loaded \in BOOLEAN
    /\ kind \in {"load", "exec"}
    /\ cb \in {"none", "owed", "written"}
    /\ notified \in BOOLEAN
    /\ statusOk \in BOOLEAN
    /\ result \in {"empty", "resp"}
    /\ returned \in {"none", "empty", "resp"}

Init ==
    /\ driver \in Drivers
    /\ pc = "construct"
    /\ iter = 1
    /\ left = 0
    /\ handlerSet = FALSE
    /\ loaded = FALSE
    /\ kind = "load"
    /\ cb = "none"
    /\ notified = FALSE
    /\ statusOk = TRUE
    /\ result = "empty"
    /\ returned = "none"

(* A failed CHECK: the process aborts.                                     *)
Abort ==
    /\ pc' = "aborted"

(* The constructor: CHECK(roma_service_->Init().ok()).  Then the execute   *)
(* driver loads its code once before the loop.                             *)
Construct ==
    /\ pc = "construct"
    /\ \/ Abort
       \/ pc' = IF driver = "ExecuteCodeBenchmark" THEN "preload" ELSE "loop"
    /\ UNCHANGED <<driver, iter, left, handlerSet, loaded, kind, cb, notified,
                   statusOk, result, returned>>

(* SetCodeObject up to the wait: fresh response_status and Notification,   *)
(* then CHECK(load_status.ok()) on what LoadCodeObj returned.              *)
SetCodeObject ==
    /\ \/ pc = "preload"
       \/ pc = "call" /\ driver = "LoadCodeBenchmark"
    /\ \/ Abort /\ UNCHANGED <<kind, cb, notified, statusOk>>
       \/ /\ pc' = "load_wait"
          /\ kind' = "load"
          /\ cb' = "owed"
          /\ notified' = FALSE
          /\ statusOk' = TRUE
    /\ UNCHANGED <<driver, iter, left, handlerSet, loaded, result, returned>>

(* ExecuteCode up to the wait: CHECK(handler_name_ != ""), fresh           *)
(* response_status, result and Notification, then CHECK(status.ok()) on    *)
(* what Execute returned.                                                  *)
ExecuteCode ==
    /\ pc = "call"
    /\ driver = "ExecuteCodeBenchmark"
    /\ \/ /\ ~handlerSet
          /\ Abort
          /\ UNCHANGED <<kind, cb, notified, statusOk, result>>
       \/ /\ handlerSet
          /\ \/ Abort /\ UNCHANGED <<kind, cb, notified, statusOk, result>>
             \/ /\ pc' = "exec_wait"
                /\ kind' = "exec"
                /\ cb' = "owed"
                /\ notified' = FALSE
                /\ statusOk' = TRUE
                /\ result' = "empty"
    /\ UNCHANGED <<driver, iter, left, handlerSet, loaded, returned>>

(* What the Roma service answers the current call: a load may fail; an    *)
(* execution fails while no code is loaded.                               *)
Outcomes == IF kind = "exec" /\ ~loaded THEN {FALSE} ELSE BOOLEAN

(* The callback's writes for outcome ok: on success *result gets the       *)
(* response (a load has none) and a load leaves the code loaded; on        *)
(* failure *response_status is updated with the error.                    *)
Respond(ok) ==
    /\ loaded' = IF kind = "load" THEN loaded \/ ok ELSE loaded
    /\ result' = IF kind = "exec" /\ ok THEN "resp" ELSE result
    /\ statusOk' = (statusOk /\ ok)

(* Variant of the callback that fires the Notification before it writes   *)
(* the response.                                                           *)
CallbackNotifyFirst ==
    /\ pc # "aborted"
    /\ \/ /\ cb = "owed"
          /\ cb' = "written"
          /\ notified' = TRUE
          /\ UNCHANGED <<loaded, statusOk, result>>
       \/ /\ cb = "written"
          /\ cb' = "none"
          /\ \E ok \in Outcomes : Respond(ok)
          /\ UNCHANGED notified
    /\ UNCHANGED <<driver, pc, iter, left, handlerSet, kind, returned>>

(* The callback, on a Roma thread: write the response, then                *)
(* notification->Notify().                                                 *)
Callback ==
    /\ pc # "aborted"
    /\ \/ /\ cb = "owed"
          /\ cb' = "written"
          /\ \E ok \in Outcomes : Respond(ok)
          /\ UNCHANGED notified
       \/ /\ cb = "written"
          /\ cb' = "none"
          /\ notified' = TRUE
          /\ UNCHANGED <<loaded, statusOk, result>>
    /\ UNCHANGED <<driver, pc, iter, left, handlerSet, kind, returned>>

(* The timed wait returns: at once if the Notification has fired, or when  *)
(* kCodeUpdateTimeout / kExecuteCodeTimeout expires.                       *)
WaitReturns ==
    /\ pc \in {"load_wait", "exec_wait"}
    /\ pc' = IF pc = "load_wait" THEN "load_check" ELSE "exec_check"
    /\ UNCHANGED <<driver, iter, left, handlerSet, loaded, kind, cb, notified,
                   statusOk, result, returned>>

(* The caller's loop moves on after a call returned: the next call of the *)
(* iteration, or the next iteration.                                       *)
CallReturned ==
    /\ left' = left - 1
    /\ IF left > 1
         THEN pc' = "call" /\ UNCHANGED iter
         ELSE pc' = "loop" /\ iter' = iter + 1

(* SetCodeObject after the wait: CHECK(HasBeenNotified()) and              *)
(* CHECK(response_status->ok()), then handler_name_ is set and the driver  *)
(* goes on.                                                                *)
LoadCheck ==
    /\ pc = "load_check"
    /\ \/ /\ ~(notified /\ statusOk)
          /\ Abort
          /\ UNCHANGED <<iter, left, handlerSet>>
       \/ /\ notified /\ statusOk
          /\ handlerSet' = TRUE
          /\ IF driver = "ExecuteCodeBenchmark"
               THEN pc' = "loop" /\ UNCHANGED <<iter, left>>
               ELSE CallReturned
    /\ UNCHANGED <<driver, loaded, kind, cb, notified, statusOk, result,
                   returned>>

(* Variant of ExecuteCode's tail without CHECK(response_status->ok()).     *)
ExecCheckNoStatus ==
    /\ pc = "exec_check"
    /\ \/ /\ ~notified
          /\ Abort
          /\ UNCHANGED <<iter, left, returned>>
       \/ /\ notified
          /\ returned' = result
          /\ CallReturned
    /\ UNCHANGED <<driver, handlerSet, loaded, kind, cb, notified, statusOk,
                   result>>

(* ExecuteCode after the wait: CHECK(HasBeenNotified()) and                *)
(* CHECK(response_status->ok()), then return *result.                      *)
ExecCheck ==
    /\ pc = "exec_check"
    /\ \/ /\ ~(notified /\ statusOk)
          /\ Abort
          /\ UNCHANGED <<iter, left, returned>>
       \/ /\ notified /\ statusOk
          /\ returned' = result
          /\ CallReturned
    /\ UNCHANGED <<driver, handlerSet, loaded, kind, cb, notified, statusOk,
                   result>>

(* Variant of the loop head that makes one call too many (i <= n).        *)
LoopHeadOneMore ==
    /\ pc = "loop"
    /\ IF iter <= MaxIters
         THEN pc' = "call" /\ left' = NumberOfCalls + 1
         ELSE pc' = "destroy" /\ UNCHANGED left
    /\ UNCHANGED <<driver, iter, handlerSet, loaded, kind, cb, notified, statusOk,
                   result, returned>>

(* The head of `for (auto _ : state)`: start an iteration of               *)
(* NumberOfCalls calls, or leave the loop and destroy the server.          *)
LoopHead ==
    /\ pc = "loop"
    /\ IF iter <= MaxIters
         THEN pc' = "call" /\ left' = NumberOfCalls
         ELSE pc' = "destroy" /\ UNCHANGED left
    /\ UNCHANGED <<driver, iter, handlerSet, loaded, kind, cb, notified, statusOk,
                   result, returned>>

(* The destructor: CHECK(roma_service_->Stop().ok()).                      *)
Destroy ==
    /\ pc = "destroy"
    /\ \/ Abort
       \/ pc' = "exited"
    /\ UNCHANGED <<driver, iter, left, handlerSet, loaded, kind, cb, notified,
                   statusOk, result, returned>>

(* The driver has returned, or the process has aborted.                    *)
Terminated ==
    /\ pc \in {"exited", "aborted"}
    /\ UNCHANGED vars

Next ==
    \/ Construct \/ SetCodeObject \/ ExecuteCode \/ Callback \/ WaitReturns
    \/ LoadCheck \/ ExecCheck \/ LoopHead \/ Destroy \/ Terminated

Spec == Init /\ [][Next]_vars

-----------------------------------------------------------------------------
(* Properties.                                                             *)

(* ExecuteCode never returns the empty default of *result in place of the  *)
(* response: it returns only after the callback stored a successful        *)
(* response for this very call.                                            *)
ReturnsOwnResult ==
    returned # "empty"

(* handler_name_ is set only when the Roma service holds loaded code: a    *)
(* SetCodeObject that returns has seen its load succeed, because the       *)
(* callback records a failure before it fires the Notification.            *)
HandlerOnlyForLoadedCode ==
    handlerSet => loaded

=============================================================================
