--------------------- MODULE DispatcherBenchmarkProofs ---------------------
(* Proofs about BM_Dispatch: while an iteration's frame is live, only its  *)
(* own loads are queued and is_loading counts all of them, for every       *)
(* number of calls, pending limit and iteration count.                     *)
EXTENDS DispatcherBenchmark, TLAPS

(* The loads of the current iteration are the only ones the Dispatcher     *)
(* holds: an iteration leaves Wait() only at count zero, after all of its  *)
(* callbacks decremented, so no earlier load is left queued.               *)
OnlyCurrentQueued ==
    phase \in {"submit", "wait"} =>
        /\ \A j \in 1..Len(queue) : queue[j] = iter
        /\ count >= Len(queue) + (NumberOfCalls - issued)

(* The inductive invariant: the loop counters are in range inside an       *)
(* iteration, Wait() is entered only after every load was submitted, and   *)
(* between iterations nothing is queued.                                   *)
DInv ==
    /\ TypeOK
    /\ phase \in {"submit", "wait"} => iter \in 1..MaxIters
    /\ phase = "wait" => issued = NumberOfCalls
    /\ phase = "loop" => queue = <<>>
    /\ OnlyCurrentQueued

LEMMA DInvInit == Init => DInv
<1> SUFFICES ASSUME Init PROVE DInv
  OBVIOUS
<1>1. queue \in Seq(1..MaxIters) /\ Len(queue) = 0
  BY DEF Init
<1>2. iter \in 1..MaxIters + 1 /\ issued \in 0..NumberOfCalls
      /\ count \in 0..NumberOfCalls
  BY DBAssumption DEF Init
<1>3. TypeOK
  BY <1>1, <1>2 DEF Init, TypeOK
<1>4. QED
  BY <1>3 DEF Init, DInv, OnlyCurrentQueued

(* Completing the oldest load: the queue loses its head, and while a frame *)
(* is live that head is the iteration's own load, so live holds.           *)
LEMMA TailFacts ==
    ASSUME NEW S, NEW q \in Seq(S), q # <<>>
    PROVE  /\ Tail(q) \in Seq(S)
           /\ Len(Tail(q)) = Len(q) - 1
           /\ \A j \in 1..Len(Tail(q)) : Tail(q)[j] = q[j + 1]
           /\ Head(q) = q[1] /\ Len(q) >= 1
BY SMT

LEMMA AppendFacts ==
    ASSUME NEW S, NEW q \in Seq(S), NEW x \in S
    PROVE  /\ Append(q, x) \in Seq(S)
           /\ Len(Append(q, x)) = Len(q) + 1
           /\ \A j \in 1..Len(q) : Append(q, x)[j] = q[j]
           /\ Append(q, x)[Len(q) + 1] = x
BY SMT

LEMMA DInvStep == DInv /\ [Next]_vars => DInv'
<1> SUFFICES ASSUME DInv, [Next]_vars PROVE DInv'
  OBVIOUS
<1> USE DBAssumption
<1>1. CASE LoopHead
  BY <1>1 DEF LoopHead, DInv, TypeOK, OnlyCurrentQueued
<1>2. CASE Invoke
  <2>1. CASE Len(queue) < MaxPending
    <3>1. iter \in 1..MaxIters /\ queue \in Seq(1..MaxIters)
      BY <1>2 DEF Invoke, DInv, TypeOK
    <3>2. /\ queue' = Append(queue, iter) /\ issued' = issued + 1
          /\ UNCHANGED <<phase, failed, iter, count>>
      BY <1>2, <2>1 DEF Invoke
    <3>3. QED
      BY <1>2, <3>1, <3>2, AppendFacts DEF Invoke, DInv, TypeOK, OnlyCurrentQueued
  <2>2. CASE ~(Len(queue) < MaxPending)
    BY <1>2, <2>2 DEF Invoke, DInv, TypeOK, OnlyCurrentQueued
  <2>3. QED
    BY <2>1, <2>2
<1>3. CASE StartWait
  BY <1>3 DEF StartWait, DInv, TypeOK, OnlyCurrentQueued
<1>4. CASE WaitReturns
  <2>1. queue = <<>>
    BY <1>4 DEF WaitReturns, DInv, TypeOK, OnlyCurrentQueued
  <2>2. QED
    BY <1>4, <2>1 DEF WaitReturns, DInv, TypeOK, OnlyCurrentQueued
<1>5. CASE Complete
  <2>1. queue \in Seq(1..MaxIters) /\ queue # <<>> /\ queue' = Tail(queue)
    BY <1>5 DEF Complete, DInv, TypeOK
  <2>2. UNCHANGED <<iter, phase, issued>>
    BY <1>5 DEF Complete
  <2>3. CASE phase \in {"submit", "wait"}
    <3>1. Head(queue) = iter /\ count >= 1
      <4>1. Len(queue) >= 1 /\ Head(queue) = queue[1]
        BY <2>1, TailFacts
      <4>2. queue[1] = iter /\ count >= Len(queue)
        BY <2>3, <4>1 DEF DInv, OnlyCurrentQueued, TypeOK
      <4>3. QED
        BY <4>1, <4>2, <2>1 DEF DInv, TypeOK
    <3>2. \/ count' = count - 1 /\ UNCHANGED failed
          \/ UNCHANGED count /\ failed' = TRUE
      BY <1>5, <2>3, <3>1 DEF Complete
    <3>3. TypeOK'
      <4>1. queue' \in Seq(1..MaxIters)
        BY <2>1, TailFacts
      <4>2. count' \in 0..NumberOfCalls
        <5>1. count \in 0..NumberOfCalls
          BY DEF DInv, TypeOK
        <5>2. QED
          BY <3>1, <3>2, <5>1
      <4>4. failed' \in BOOLEAN
        BY <3>2, Zenon DEF DInv, TypeOK
      <4>3. QED
        BY <2>2, <4>1, <4>2, <4>4 DEF DInv, TypeOK
    <3>4. OnlyCurrentQueued'
      BY <2>1, <2>2, <2>3, <3>1, <3>2, TailFacts DEF DInv, TypeOK,
                                                     OnlyCurrentQueued
    <3>5. QED
      BY <2>2, <2>3, <3>3, <3>4 DEF DInv
  <2>4. CASE phase \notin {"submit", "wait"}
    <3>1. UNCHANGED count /\ failed' \in BOOLEAN
      BY <1>5, <2>4 DEF Complete, DInv, TypeOK
    <3>2. phase # "loop"
      BY <2>1 DEF DInv
    <3>3. QED
      BY <2>1, <2>2, <2>4, <3>1, <3>2, TailFacts DEF DInv, TypeOK,
                                                     OnlyCurrentQueued
  <2>5. QED
    BY <2>3, <2>4
<1>6. CASE Done \/ UNCHANGED vars
  BY <1>6 DEF Done, vars, DInv, TypeOK, OnlyCurrentQueued
<1>7. QED
  BY <1>1, <1>2, <1>3, <1>4, <1>5, <1>6 DEF Next

(* While an iteration of BM_Dispatch is live, every load the Dispatcher    *)
(* holds was submitted by that iteration, and is_loading counts each of    *)
(* them and each load not yet submitted: a Wait() that returns leaves no   *)
(* load of its own or of an earlier iteration behind, for every number of  *)
(* calls, pending limit and iteration count.                               *)
THEOREM QueueBelongsToIteration == Spec => []OnlyCurrentQueued
<1>1. DInv => OnlyCurrentQueued
  BY DEF DInv
<1>2. QED
  BY <1>1, DInvInit, DInvStep, PTL DEF Spec

(* An iteration leaves is_loading.Wait() only with an empty Dispatcher      *)
(* queue, so no callback of its loads can run on a BlockingCounter whose   *)
(* scope has ended, for every number of calls, pending limit and           *)
(* iteration count: only WaitReturns leaves "wait" for "loop", and it      *)
(* needs a zero count, which bounds the queue's length.                    *)
THEOREM WaitLeavesNoLoad == Spec => IterationEndsDrained
<1>1. DInv /\ [Next]_vars =>
        [phase = "wait" /\ phase' = "loop" =>
           \A j \in 1..Len(queue) : queue[j] # iter]_vars
  <2> SUFFICES ASSUME DInv, [Next]_vars, phase = "wait", phase' = "loop"
               PROVE  \A j \in 1..Len(queue) : queue[j] # iter
    BY DEF vars
  <2>1. WaitReturns
    BY DEF Next, LoopHead, Invoke, StartWait, Complete, Done, vars
  <2>2. count = 0 /\ count >= Len(queue) /\ queue \in Seq(1..MaxIters)
    BY <2>1 DEF WaitReturns, DInv, OnlyCurrentQueued, TypeOK
  <2>3. Len(queue) = 0
    BY <2>2
  <2>4. QED
    BY <2>3
<1>2. QED
  BY <1>1, DInvInit, DInvStep, PTL DEF Spec, IterationEndsDrained

(* Every reachable state of the benchmark model is well typed.             *)
THEOREM TypeCorrect == Spec => []TypeOK
<1>1. DInv => TypeOK
  BY DEF DInv
<1>2. QED
  BY <1>1, DInvInit, DInvStep, PTL DEF Spec

=============================================================================
