------------------------ MODULE QueueClientValidator ------------------------
(***************************************************************************)
(* The queue-service checks of src/public/cpio/validator/                  *)
(* queue_client_validator.cc.  RunEnqueueMessageValidator and              *)
(* RunGetTopMessageValidator each: (enqueue only) refuse an empty message  *)
(* body; fetch the instance client and the two async executors from        *)
(* GlobalCpio; create a queue client, Init() and Run() it; issue one       *)
(* asynchronous call whose callback writes the stack variable `result`,    *)
(* prints SUCCESS when it succeeded and fires the stack Notification       *)
(* `finished`; wait on `finished`; report a failed result; Stop() the      *)
(* client.  Every failure prints a FAILURE line and returns at once.       *)
(*                                                                         *)
(* The validator's driver runs the configured checks one after another on  *)
(* one thread; Checks is that list.  The queue client provider is outside  *)
(* this file: each of its calls may succeed or fail, and a call it accepts *)
(* is called back exactly once, a call it refuses never.  Printed lines    *)
(* are abstracted to the verdicts "success" and "failure" of each check.   *)
(***************************************************************************)
EXTENDS Naturals, Sequences

CONSTANTS
    Checks   \* the checks the driver runs, in order: "enqueue" or "gettop"

ASSUME QCVAssumption ==
    Checks \in Seq({"enqueue", "gettop"})

VARIABLES
    i,           \* the check being run (Len(Checks) + 1 when all are done)
    pc,          \* where the validator function of check i is
    client,      \* lifecycle of the queue client check i created
    owed,        \* the check whose callback the provider still owes, or 0
    finished,    \* the Notification `finished` of check i
    result,      \* the ExecutionResult `result` of check i
    callResult,  \* the result each check's callback carried ("none" if none)
    verdict      \* the verdicts each check printed

vars == <<i, pc, client, owed, finished, result, callResult, verdict>>

PCs == {"start", "body", "providers", "init", "run", "call", "wait", "stop", "done"}
Results == {"none", "ok", "failed"}
NoChecks == 1..Len(Checks)

TypeOK ==
    /\ i \in 1..Len(Checks) + 1
    /\ pc \in PCs
    /\ client \in {"none", "created", "initialized", "running", "stopped"}
    /\ owed \in 0..Len(Checks)
    /\ finished \in BOOLEAN
    /\ result \in Results
    /\ callResult \in [NoChecks -> Results]
    /\ verdict \in [NoChecks -> SUBSET {"success", "failure"}]

Init ==
    /\ i = 1
    /\ pc = "start"
    /\ client = "none"
    /\ owed = 0
    /\ finished = FALSE
    /\ result = "none"
    /\ callResult = [j \in NoChecks |-> "none"]
    /\ verdict = [j \in NoChecks |-> {}]

(* Print a FAILURE line for check i and return from its function.          *)
Fail ==
    /\ verdict' = [verdict EXCEPT ![i] = @ \cup {"failure"}]
    /\ pc' = "done"

(* The driver starts the next check: a fresh stack frame.                  *)
StartCheck ==
    /\ i <= Len(Checks)
    /\ pc = "start"
    /\ pc' = IF Checks[i] = "enqueue" THEN "body" ELSE "providers"
    /\ finished' = FALSE
    /\ result' = "none"
    /\ client' = "none"
    /\ UNCHANGED <<i, owed, callResult, verdict>>

(* RunEnqueueMessageValidator: an empty message_body is refused.           *)
CheckBody ==
    /\ pc = "body"
    /\ \/ Fail
       \/ pc' = "providers" /\ UNCHANGED verdict
    /\ UNCHANGED <<i, client, owed, finished, result, callResult>>

(* GetInstanceClientProvider, GetCpuAsyncExecutor, GetIoAsyncExecutor:     *)
(* the first that fails ends the check; then the queue client is created.  *)
GetProviders ==
    /\ pc = "providers"
    /\ \/ Fail /\ UNCHANGED client
       \/ /\ client' = "created"
          /\ pc' = "init"
          /\ UNCHANGED verdict
    /\ UNCHANGED <<i, owed, finished, result, callResult>>

(* queue_client->Init().                                                   *)
InitClient ==
    /\ pc = "init"
    /\ \/ Fail /\ UNCHANGED client
       \/ /\ client' = "initialized"
          /\ pc' = "run"
          /\ UNCHANGED verdict
    /\ UNCHANGED <<i, owed, finished, result, callResult>>

(* Variant of Run() handling that returns on failure without a report.    *)
RunClientSilent ==
    /\ pc = "run"
    /\ \/ pc' = "done" /\ UNCHANGED <<client, verdict>>
       \/ /\ client' = "running"
          /\ pc' = "call"
          /\ UNCHANGED verdict
    /\ UNCHANGED <<i, owed, finished, result, callResult>>

(* queue_client->Run().                                                    *)
RunClient ==
    /\ pc = "run"
    /\ \/ Fail /\ UNCHANGED client
       \/ /\ client' = "running"
          /\ pc' = "call"
          /\ UNCHANGED verdict
    /\ UNCHANGED <<i, owed, finished, result, callResult>>

(* EnqueueMessage / GetTopMessage: a refused call ends the check; an       *)
(* accepted one leaves a callback owed to this check.                      *)
IssueCall ==
    /\ pc = "call"
    /\ \/ Fail /\ UNCHANGED owed
       \/ /\ owed' = i
          /\ pc' = "wait"
          /\ UNCHANGED verdict
    /\ UNCHANGED <<i, client, finished, result, callResult>>

(* Variant of the callback that prints SUCCESS whatever the result.      *)
CallbackAlwaysSuccess ==
    /\ owed # 0
    /\ \E r \in {"ok", "failed"} :
         /\ result' = r
         /\ callResult' = [callResult EXCEPT ![owed] = r]
         /\ verdict' = [verdict EXCEPT ![owed] = @ \cup {"success"}]
    /\ finished' = TRUE
    /\ owed' = 0
    /\ UNCHANGED <<i, pc, client>>

(* Variant of the callback that fires `finished` only on success.         *)
CallbackNotifyOnSuccess ==
    /\ owed # 0
    /\ \E r \in {"ok", "failed"} :
         /\ result' = r
         /\ callResult' = [callResult EXCEPT ![owed] = r]
         /\ verdict' = IF r = "ok"
                         THEN [verdict EXCEPT ![owed] = @ \cup {"success"}]
                         ELSE verdict
         /\ finished' = (r = "ok")
    /\ owed' = 0
    /\ UNCHANGED <<i, pc, client>>

(* The callback, on a provider thread: result = context.result, print      *)
(* SUCCESS if it succeeded, finished.Notify().                             *)
Callback ==
    /\ owed # 0
    /\ \E r \in {"ok", "failed"} :
         /\ result' = r
         /\ callResult' = [callResult EXCEPT ![owed] = r]
         /\ verdict' = IF r = "ok"
                         THEN [verdict EXCEPT ![owed] = @ \cup {"success"}]
                         ELSE verdict
    /\ finished' = TRUE
    /\ owed' = 0
    /\ UNCHANGED <<i, pc, client>>

(* Variant that reads `result` without waiting for the notification.     *)
WaitResultNoWait ==
    /\ pc = "wait"
    /\ IF result = "ok" THEN pc' = "stop" /\ UNCHANGED verdict ELSE Fail
    /\ UNCHANGED <<i, client, owed, finished, result, callResult>>

(* finished.WaitForNotification(), then report a failed result.            *)
WaitResult ==
    /\ pc = "wait"
    /\ finished
    /\ IF result = "ok" THEN pc' = "stop" /\ UNCHANGED verdict ELSE Fail
    /\ UNCHANGED <<i, client, owed, finished, result, callResult>>

(* queue_client->Stop(); a failure is printed, and the function returns.   *)
StopClient ==
    /\ pc = "stop"
    /\ \/ /\ client' = "stopped"
          /\ pc' = "done"
          /\ UNCHANGED verdict
       \/ Fail /\ UNCHANGED client
    /\ UNCHANGED <<i, owed, finished, result, callResult>>

(* Variant of the driver step that does not reset pc for the next check. *)
ReturnNoReset ==
    /\ pc = "done"
    /\ i' = i + 1
    /\ UNCHANGED <<pc, client, owed, finished, result, callResult, verdict>>

(* The function has returned: its frame, with `result` and `finished`,     *)
(* is gone, and the driver moves to the next check.                        *)
Return ==
    /\ pc = "done"
    /\ i' = i + 1
    /\ pc' = "start"
    /\ UNCHANGED <<client, owed, finished, result, callResult, verdict>>

(* Every configured check has been run.                                    *)
AllRun ==
    /\ i = Len(Checks) + 1
    /\ UNCHANGED vars

Next ==
    \/ StartCheck \/ CheckBody \/ GetProviders \/ InitClient \/ RunClient
    \/ IssueCall \/ Callback \/ WaitResult \/ StopClient \/ Return \/ AllRun

(* The driver thread keeps running, and the provider calls back every     *)
(* call it accepted.                                                       *)
Spec == Init /\ [][Next]_vars /\ WF_vars(Next)

-----------------------------------------------------------------------------
(* Properties.                                                             *)

(* Every check that has returned printed a verdict, and it printed SUCCESS *)
(* only if the provider's callback carried a successful result: no return  *)
(* path of the validator functions is silent, and the result checked after *)
(* WaitForNotification is the one the callback wrote.                      *)
HonestVerdict ==
    \A j \in 1..i - 1 :
        /\ verdict[j] # {}
        /\ "success" \in verdict[j] => callResult[j] = "ok"

(* A callback the provider still owes belongs to the check that is        *)
(* blocked in WaitForNotification: it never writes `result` or fires      *)
(* `finished` in the stack frame of a function that has already returned.  *)
CallbackFrameLive ==
    owed # 0 => owed = i /\ pc = "wait"

(* Every configured check runs to its end: each callback fires            *)
(* `finished` on success and on failure, so no wait lasts forever.         *)
ChecksComplete ==
    <>(i = Len(Checks) + 1)

=============================================================================
