--------------------- MODULE QueueClientValidatorProofs ---------------------
(* Proofs about the queue-service validator: verdicts are honest and no    *)
(* callback outlives the stack frame it writes, for every list of checks.  *)
EXTENDS QueueClientValidator, TLAPS

(* The stack frame of check i, before and after its one asynchronous call. *)
(* Before the call nothing is printed and `finished` is clear; the owed    *)
(* callback is check i's, which is blocked in WaitForNotification and has  *)
(* printed nothing; once `finished` fired with a successful `result`,      *)
(* SUCCESS is printed; a check that returns has printed a verdict; SUCCESS *)
(* is only ever printed with a successful callback result; the checks not  *)
(* yet started have printed nothing.                                       *)
QInv ==
    /\ TypeOK
    /\ pc # "start" => i \in NoChecks
    /\ owed # 0 => owed = i /\ pc = "wait" /\ verdict[i] = {} /\ ~finished
    /\ pc \in {"body", "providers", "init", "run", "call"} =>
         ~finished /\ verdict[i] = {}
    /\ pc = "wait" /\ finished /\ result = "ok" => "success" \in verdict[i]
    /\ pc = "stop" => "success" \in verdict[i]
    /\ pc = "done" => verdict[i] # {}
    /\ \A j \in NoChecks : "success" \in verdict[j] => callResult[j] = "ok"
    /\ \A j \in 1..i - 1 : verdict[j] # {}
    /\ \A j \in NoChecks : j > i \/ (j = i /\ pc = "start") => verdict[j] = {}

(* The number of checks is a natural number.                               *)
LEMMA LenChecks == Len(Checks) \in Nat
BY QCVAssumption

(* The initial state is well typed.                                       *)
LEMMA TypeInit == Init => TypeOK
<1> SUFFICES ASSUME Init PROVE TypeOK
  OBVIOUS
<1>1. i \in 1..Len(Checks) + 1 /\ owed \in 0..Len(Checks)
  BY LenChecks DEF Init
<1>2. callResult \in [NoChecks -> Results]
  BY DEF Init, Results
<1>3. verdict \in [NoChecks -> SUBSET {"success", "failure"}]
  BY DEF Init
<1>4. QED
  BY <1>1, <1>2, <1>3 DEF Init, TypeOK, PCs, Results

(* A step that prints at most a verdict for check i, moves pc and the      *)
(* client's lifecycle, and leaves the rest alone keeps TypeOK.             *)
LEMMA BodyType ==
    ASSUME TypeOK, i \in NoChecks,
           \/ verdict' = [verdict EXCEPT ![i] = @ \cup {"failure"}]
           \/ UNCHANGED verdict,
           pc' \in PCs,
           client' \in {"none", "created", "initialized", "running", "stopped"},
           owed' \in 0..Len(Checks),
           UNCHANGED <<i, finished, result, callResult>>
    PROVE  TypeOK'
<1>1. verdict' \in [NoChecks -> SUBSET {"success", "failure"}]
  BY DEF TypeOK
<1>2. QED
  BY <1>1 DEF TypeOK

(* Every step keeps TypeOK: the check index stays within the list, and the *)
(* callback only writes the entry of the check it is owed to.              *)
LEMMA TypeStep == QInv /\ [Next]_vars => TypeOK'
<1> SUFFICES ASSUME QInv, [Next]_vars PROVE TypeOK'
  OBVIOUS
<1> USE LenChecks
<1>0. TypeOK
  BY DEF QInv
<1>1. CASE StartCheck
  <2>1. pc' \in PCs
    BY <1>1 DEF StartCheck, PCs
  <2>2. QED
    BY <1>0, <1>1, <2>1 DEF StartCheck, TypeOK, Results
<1>2. CASE CheckBody \/ GetProviders \/ InitClient \/ RunClient \/ IssueCall
             \/ WaitResult \/ StopClient
  <2>1. pc # "start" /\ i \in NoChecks
    BY <1>2 DEF CheckBody, GetProviders, InitClient, RunClient, IssueCall,
                WaitResult, StopClient, QInv
  <2>2. \/ verdict' = [verdict EXCEPT ![i] = @ \cup {"failure"}]
        \/ UNCHANGED verdict
    BY <1>2 DEF CheckBody, GetProviders, InitClient, RunClient, IssueCall,
                WaitResult, StopClient, Fail
  <2>3. pc' \in PCs
    BY <1>2 DEF CheckBody, GetProviders, InitClient, RunClient, IssueCall,
                WaitResult, StopClient, Fail, PCs
  <2>4. client' \in {"none", "created", "initialized", "running", "stopped"}
    BY <1>0, <1>2 DEF CheckBody, GetProviders, InitClient, RunClient,
                      IssueCall, WaitResult, StopClient, TypeOK
  <2>5. owed' \in 0..Len(Checks)
    BY <1>0, <1>2, <2>1 DEF CheckBody, GetProviders, InitClient, RunClient,
                            IssueCall, WaitResult, StopClient, TypeOK, NoChecks
  <2>6. UNCHANGED <<i, finished, result, callResult>>
    BY <1>2 DEF CheckBody, GetProviders, InitClient, RunClient, IssueCall,
                WaitResult, StopClient
  <2>7. QED
    BY <1>0, <2>1, <2>2, <2>3, <2>4, <2>5, <2>6, BodyType
<1>3. CASE Callback
  <2>1. owed \in NoChecks
    BY <1>0, <1>3 DEF Callback, TypeOK, NoChecks
  <2>2. PICK r \in {"ok", "failed"} :
          /\ result' = r
          /\ callResult' = [callResult EXCEPT ![owed] = r]
          /\ verdict' = IF r = "ok"
                          THEN [verdict EXCEPT ![owed] = @ \cup {"success"}]
                          ELSE verdict
    BY <1>3 DEF Callback
  <2>3. /\ callResult' \in [NoChecks -> Results]
        /\ verdict' \in [NoChecks -> SUBSET {"success", "failure"}]
        /\ result' \in Results
    BY <1>0, <2>1, <2>2 DEF TypeOK, Results
  <2>4. QED
    BY <1>0, <1>3, <2>3 DEF Callback, TypeOK
<1>4. CASE Return
  <2>1. i \in NoChecks
    BY <1>4 DEF Return, QInv
  <2>2. QED
    BY <1>0, <1>4, <2>1 DEF Return, TypeOK, NoChecks, PCs
<1>5. CASE AllRun \/ UNCHANGED vars
  BY <1>0, <1>5 DEF AllRun, vars, TypeOK
<1>6. QED
  BY <1>1, <1>2, <1>3, <1>4, <1>5 DEF Next

LEMMA QInvInit == Init => QInv
BY TypeInit DEF Init, QInv, NoChecks

(* Fail prints FAILURE for check i and returns: every conjunct that speaks *)
(* of a pc before "done" is vacuous afterwards.                            *)
LEMMA FailStep ==
    ASSUME QInv, TypeOK', Fail, pc # "start", pc # "wait" \/ owed = 0,
           UNCHANGED <<i, owed, finished, result, callResult>>
    PROVE  QInv'
BY DEF Fail, QInv, TypeOK, NoChecks

LEMMA QInvStep == QInv /\ [Next]_vars => QInv'
<1> SUFFICES ASSUME QInv, [Next]_vars PROVE QInv'
  OBVIOUS
<1> USE LenChecks
<1>0. TypeOK /\ TypeOK'
  BY TypeStep DEF QInv
<1>1. CASE StartCheck
  <2>1. i \in NoChecks /\ owed = 0 /\ verdict[i] = {}
    BY <1>0, <1>1 DEF StartCheck, QInv, TypeOK, NoChecks
  <2>2. pc' \in {"body", "providers"}
    BY <1>1 DEF StartCheck
  <2>3. QED
    BY <1>0, <1>1, <2>1, <2>2 DEF StartCheck, QInv, TypeOK, NoChecks
<1>2. CASE CheckBody \/ GetProviders \/ InitClient \/ RunClient
  <2>1. CASE Fail
    BY <1>2, <2>1, <1>0, FailStep DEF CheckBody, GetProviders, InitClient,
                                      RunClient, QInv
  <2>2. CASE ~Fail
    BY <1>2, <2>2, <1>0 DEF CheckBody, GetProviders, InitClient, RunClient,
                            QInv, TypeOK, NoChecks
  <2>3. QED
    BY <2>1, <2>2
<1>3. CASE IssueCall
  <2>1. CASE Fail /\ UNCHANGED owed
    BY <1>3, <2>1, <1>0, FailStep DEF IssueCall, QInv
  <2>2. CASE owed' = i /\ pc' = "wait" /\ UNCHANGED verdict
    BY <1>0, <1>3, <2>2 DEF IssueCall, QInv, TypeOK, NoChecks
  <2>3. QED
    BY <1>3, <2>1, <2>2 DEF IssueCall
<1>4. CASE Callback
  <2>1. owed = i /\ pc = "wait" /\ verdict[i] = {} /\ i \in NoChecks
    BY <1>4 DEF Callback, QInv
  <2>2. PICK r \in {"ok", "failed"} :
          /\ result' = r
          /\ callResult' = [callResult EXCEPT ![i] = r]
          /\ verdict' = IF r = "ok"
                          THEN [verdict EXCEPT ![i] = @ \cup {"success"}]
                          ELSE verdict
    BY <1>4, <2>1 DEF Callback
  <2>3. QED
    BY <1>0, <1>4, <2>1, <2>2 DEF Callback, QInv, TypeOK, NoChecks
<1>5. CASE WaitResult
  <2>1. CASE result = "ok" /\ pc' = "stop" /\ UNCHANGED verdict
    BY <1>0, <1>5, <2>1 DEF WaitResult, QInv, TypeOK, NoChecks
  <2>2. CASE result # "ok" /\ Fail
    BY <1>0, <1>5, <2>2, FailStep DEF WaitResult, QInv
  <2>3. QED
    BY <1>5, <2>1, <2>2 DEF WaitResult
<1>6. CASE StopClient
  <2>1. CASE Fail
    BY <1>0, <1>6, <2>1, FailStep DEF StopClient, QInv
  <2>2. CASE ~Fail
    BY <1>0, <1>6, <2>2 DEF StopClient, QInv, TypeOK, NoChecks
  <2>3. QED
    BY <2>1, <2>2
<1>7. CASE Return
  BY <1>0, <1>7 DEF Return, QInv, TypeOK, NoChecks
<1>8. CASE AllRun \/ UNCHANGED vars
  BY <1>0, <1>8 DEF AllRun, vars, QInv, TypeOK
<1>9. QED
  BY <1>1, <1>2, <1>3, <1>4, <1>5, <1>6, <1>7, <1>8 DEF Next

(* Every check that returned printed a verdict, and SUCCESS only when the  *)
(* provider's callback carried a successful result: no return path of      *)
(* RunEnqueueMessageValidator or RunGetTopMessageValidator is silent, and  *)
(* the result read after WaitForNotification is the one the callback      *)
(* wrote, for every list of checks.                                        *)
THEOREM VerdictsHonest == Spec => []HonestVerdict
<1>1. QInv => HonestVerdict
  BY LenChecks DEF QInv, HonestVerdict, TypeOK, NoChecks
<1>2. QED
  BY <1>1, QInvInit, QInvStep, PTL DEF Spec

(* A callback the provider owes always belongs to the check blocked in     *)
(* WaitForNotification: it never writes `result` or notifies `finished` in *)
(* a frame that has returned.                                              *)
THEOREM CallbackFrameSafe == Spec => []CallbackFrameLive
<1>1. QInv => CallbackFrameLive
  BY DEF QInv, CallbackFrameLive
<1>2. QED
  BY <1>1, QInvInit, QInvStep, PTL DEF Spec

(* Every reachable state of the queue validator model is well typed. *)
THEOREM TypeCorrect == Spec => []TypeOK
<1>1. QInv => TypeOK
  BY DEF QInv
<1>2. QED
  BY <1>1, QInvInit, QInvStep, PTL DEF Spec

=============================================================================
