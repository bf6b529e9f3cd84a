---------------------- MODULE PrivateKeyFetcherProofs ----------------------
(***************************************************************************)
(* Proofs about PrivateKeyFetcher: type correctness for every instance,    *)
(* and, when the local clock agrees with the key service's, that the TTL   *)
(* clean-up of Refresh() never evicts a fetched key the service still      *)
(* serves.                                                                 *)
(***************************************************************************)
EXTENDS PrivateKeyFetcher, TLAPS

-----------------------------------------------------------------------------
(* Type correctness.                                                       *)

LEMMA TypeInit == Init => TypeOK
BY PKFAssumption DEF Init, TypeOK, Times

LEMMA TypeStep == TypeOK /\ [Next]_vars => TypeOK'
<1> SUFFICES ASSUME TypeOK, [Next]_vars PROVE TypeOK'
  OBVIOUS
<1>1. ASSUME NEW t \in Refreshers, RefreshList(t) PROVE TypeOK'
  BY <1>1 DEF RefreshList, TypeOK
<1>2. ASSUME NEW t \in Refreshers, ListCallback(t) PROVE TypeOK'
  <2>1. CASE \E bad \in SUBSET listed[t] :
               /\ cache' = [k \in KeyIds |->
                              IF k \in listed[t] \ bad THEN issued[k]
                                                       ELSE cache[k]]
               /\ fetched' = [fetched EXCEPT ![t] = listed[t] \ bad]
    <3>1. PICK bad \in SUBSET listed[t] :
               /\ cache' = [k \in KeyIds |->
                              IF k \in listed[t] \ bad THEN issued[k]
                                                       ELSE cache[k]]
               /\ fetched' = [fetched EXCEPT ![t] = listed[t] \ bad]
      BY <2>1
    <3>2. cache' \in [KeyIds -> Times \cup {NoTime}]
      BY <3>1 DEF TypeOK
    <3>3. QED
      BY <1>2, <3>1, <3>2 DEF ListCallback, TypeOK
  <2>2. CASE fetched' = [fetched EXCEPT ![t] = {}] /\ UNCHANGED cache
    BY <1>2, <2>2 DEF ListCallback, TypeOK
  <2>3. QED
    BY <1>2, <2>1, <2>2 DEF ListCallback
<1>3. ASSUME NEW t \in Refreshers, RefreshCleanup(t) PROVE TypeOK'
  BY <1>3 DEF RefreshCleanup, TypeOK
<1>4. ASSUME NEW t \in Refreshers, ListAnswer(t) PROVE TypeOK'
  BY <1>4 DEF ListAnswer, TypeOK
<1>5. CASE Tick
  <2>1. now' \in Times
    BY <1>5, PKFAssumption DEF Tick, TypeOK, Times
  <2>2. QED
    BY <1>5, <2>1 DEF Tick, TypeOK
<1>6. ASSUME NEW k \in KeyIds, IssueKey(k) PROVE TypeOK'
  BY <1>6 DEF IssueKey, TypeOK, Times
<1>7. CASE UNCHANGED vars
  BY <1>7 DEF vars, TypeOK
<1>8. QED
  BY <1>1, <1>2, <1>3, <1>4, <1>5, <1>6, <1>7 DEF Next

(* Refresh(), its completion callback and the key service only ever put    *)
(* well-typed values in the fetcher's state.                               *)
THEOREM TypeCorrect == Spec => []TypeOK
BY TypeInit, TypeStep, PTL DEF Spec

(* Every cached key carries the creation time the service issued it with, *)
(* and every key an answer listed, or a callback inserted, was issued.     *)
CacheFaithful ==
    /\ \A k \in KeyIds : cache[k] # NoTime => cache[k] = issued[k]
    /\ \A t \in Refreshers : \A k \in listed[t] : issued[k] # NoTime
    /\ \A t \in Refreshers : \A k \in fetched[t] : issued[k] # NoTime

(* The inductive invariant behind FreshKeysCached.                          *)
IInv == TypeOK /\ CacheFaithful /\ FreshKeysCached


LEMMA IInvInit == Init => IInv
<1> SUFFICES ASSUME Init PROVE IInv
  OBVIOUS
<1>1. TypeOK
  BY TypeInit
<1>2. CacheFaithful
  BY DEF Init, CacheFaithful
<1>3. FreshKeysCached
  BY DEF Init, FreshKeysCached
<1>4. QED
  BY <1>1, <1>2, <1>3 DEF IInv

(* With the clocks in step, a key the service still serves is not older   *)
(* than the clean-up's cutoff, so RefreshCleanup keeps it.                 *)
LEMMA ServedNotExpired ==
    ASSUME Skew = 0, TypeOK, NEW k \in KeyIds, ServerValid(k),
           cache[k] = issued[k]
    PROVE  ~(cache[k] < LocalNow - TTL)
BY PKFAssumption DEF ServerValid, LocalNow, TypeOK, Times

(* With the local clock in step with the key service's, every step keeps  *)
(* IInv.                                                                   *)
LEMMA IInvStep ==
    ASSUME Skew = 0
    PROVE  IInv /\ [Next]_vars => IInv'
<1> SUFFICES ASSUME IInv, [Next]_vars PROVE IInv'
  OBVIOUS
<1>0. TypeOK /\ TypeOK'
  BY TypeStep DEF IInv
<1>1. ASSUME NEW t \in Refreshers, RefreshList(t) PROVE IInv'
  BY <1>0, <1>1 DEF RefreshList, IInv, CacheFaithful, FreshKeysCached,
                   ServerValid, GetKey
<1>2. ASSUME NEW t \in Refreshers, ListCallback(t) PROVE IInv'
  <2>0. UNCHANGED <<now, issued, listed>>
    BY <1>2 DEF ListCallback
  <2>1. CASE \E bad \in SUBSET listed[t] :
               /\ cache' = [k \in KeyIds |->
                              IF k \in listed[t] \ bad THEN issued[k]
                                                       ELSE cache[k]]
               /\ fetched' = [fetched EXCEPT ![t] = listed[t] \ bad]
    <3>1. PICK bad \in SUBSET listed[t] :
               /\ cache' = [k \in KeyIds |->
                              IF k \in listed[t] \ bad THEN issued[k]
                                                       ELSE cache[k]]
               /\ fetched' = [fetched EXCEPT ![t] = listed[t] \ bad]
      BY <2>1
    <3> DEFINE added == listed[t] \ bad
    <3>2. \A k \in added : issued[k] # NoTime /\ cache'[k] = issued[k]
      BY <1>0, <3>1 DEF IInv, CacheFaithful, TypeOK
    <3>3. \A k \in KeyIds : cache[k] # NoTime => cache'[k] # NoTime
      BY <3>1, <3>2
    <3>4. CacheFaithful'
      BY <1>0, <2>0, <3>1, <3>2 DEF IInv, CacheFaithful, TypeOK
    <3>5. FreshKeysCached'
      BY <1>0, <2>0, <3>1, <3>2, <3>3
         DEF IInv, FreshKeysCached, ServerValid, GetKey, TypeOK
    <3>6. QED
      BY <1>0, <3>4, <3>5 DEF IInv
  <2>2. CASE fetched' = [fetched EXCEPT ![t] = {}] /\ UNCHANGED cache
    BY <1>0, <1>2, <2>0, <2>2 DEF ListCallback, IInv, CacheFaithful,
                                  FreshKeysCached, ServerValid, GetKey, TypeOK
  <2>3. QED
    BY <1>2, <2>1, <2>2 DEF ListCallback
<1>3. ASSUME NEW t \in Refreshers, ListAnswer(t) PROVE IInv'
  BY <1>0, <1>3 DEF ListAnswer, IInv, CacheFaithful, FreshKeysCached,
                    ServerValid, GetKey, TypeOK
<1>4. ASSUME NEW t \in Refreshers, RefreshCleanup(t) PROVE IInv'
  <2>1. UNCHANGED <<now, issued, listed, fetched>>
    BY <1>4 DEF RefreshCleanup
  <2>2. \A k \in KeyIds : cache'[k] = NoTime \/ cache'[k] = cache[k]
    BY <1>4 DEF RefreshCleanup
  <2>3. CacheFaithful'
    BY <1>0, <2>1, <2>2 DEF IInv, CacheFaithful
  <2>4. ASSUME NEW u \in Refreshers, NEW k \in fetched[u], ServerValid(k)
        PROVE  cache'[k] # NoTime
    <3>1. k \in KeyIds /\ cache[k] # NoTime /\ cache[k] = issued[k]
      BY <1>0, <2>4 DEF IInv, FreshKeysCached, CacheFaithful, GetKey, TypeOK
    <3>2. ~(cache[k] < LocalNow - TTL)
      BY <1>0, <2>4, <3>1, ServedNotExpired
    <3>3. QED
      BY <1>4, <3>1, <3>2 DEF RefreshCleanup
  <2>5. FreshKeysCached'
    BY <2>1, <2>4 DEF FreshKeysCached, ServerValid, GetKey
  <2>6. QED
    BY <1>0, <2>3, <2>5 DEF IInv
<1>5. CASE Tick
  <2>1. \A k \in KeyIds : ServerValid(k)' => ServerValid(k)
    <3> SUFFICES ASSUME NEW k \in KeyIds, ServerValid(k)' PROVE ServerValid(k)
      OBVIOUS
    <3>1. issued'[k] = issued[k] /\ now' = now + 1
      BY <1>5 DEF Tick
    <3>2. issued'[k] # NoTime /\ now' - issued'[k] <= TTL
      BY DEF ServerValid
    <3>3. issued[k] \in Nat /\ now \in Nat
      BY <1>0, <3>1, <3>2 DEF TypeOK, Times
    <3>4. issued[k] # NoTime /\ now - issued[k] <= TTL
      BY <3>1, <3>2, <3>3, PKFAssumption
    <3>5. QED
      BY <3>4 DEF ServerValid
  <2>2. QED
    BY <1>0, <1>5, <2>1 DEF Tick, IInv, CacheFaithful, FreshKeysCached,
                            GetKey, TypeOK
<1>6. ASSUME NEW j \in KeyIds, IssueKey(j) PROVE IInv'
  <2>1. /\ cache[j] = NoTime
        /\ \A u \in Refreshers : j \notin fetched[u] /\ j \notin listed[u]
    BY <1>6 DEF IssueKey, IInv, CacheFaithful
  <2>2. \A k \in KeyIds \ {j} : issued'[k] = issued[k]
    BY <1>0, <1>6 DEF IssueKey, TypeOK
  <2>3. CacheFaithful'
    BY <1>0, <1>6, <2>1, <2>2 DEF IssueKey, IInv, CacheFaithful, TypeOK
  <2>4. FreshKeysCached'
    BY <1>0, <1>6, <2>1, <2>2 DEF IssueKey, IInv, FreshKeysCached,
                                  ServerValid, GetKey, TypeOK
  <2>5. QED
    BY <1>0, <2>3, <2>4 DEF IInv
<1>7. CASE UNCHANGED vars
  BY <1>0, <1>7 DEF vars, IInv, CacheFaithful, FreshKeysCached, ServerValid,
                    GetKey
<1>8. QED
  BY <1>1, <1>2, <1>3, <1>4, <1>5, <1>6, <1>7 DEF Next

(* When absl::Now() agrees with the key service's clock, the clean-up at   *)
(* the end of Refresh() (creation_time < Now() - ttl_) never evicts a key  *)
(* that a callback inserted and the service still serves, for every TTL,   *)
(* clock bound and number of keys and refreshing threads.                  *)
THEOREM FreshKeysKept ==
    ASSUME Skew = 0
    PROVE  Spec => []FreshKeysCached
<1>1. Init => IInv
  BY IInvInit
<1>2. IInv /\ [Next]_vars => IInv'
  BY IInvStep
<1>3. IInv => FreshKeysCached
  BY DEF IInv
<1>4. QED
  BY <1>1, <1>2, <1>3, PTL DEF Spec

=============================================================================
