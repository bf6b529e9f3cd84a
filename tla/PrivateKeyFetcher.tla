------------------------- MODULE PrivateKeyFetcher -------------------------
(***************************************************************************)
(* The private-key cache of src/encryption/key_fetcher/                    *)
(* private_key_fetcher.cc.  Refresh() asks the key service, through an     *)
(* asynchronous ListPrivateKeys call, for every key younger than ttl_,     *)
(* waits on a notification that the completion callback fires, then       *)
(* erases every cached key whose creation time is older than the local    *)
(* clock minus ttl_.  GetKey() reads the map under the same mutex.         *)
(*                                                                         *)
(* Keys are identified by model values; a key's payload is abstracted to   *)
(* its creation time, the only field the cache logic reads.  The key       *)
(* service keeps a creation time per issued key and answers with the keys  *)
(* that are at most TTL old on its own clock when it answers; the        *)
(* callback runs later, so a listed key may have expired by the time it is *)
(* inserted.  The local clock is the service's clock plus Skew.  Each critical section under mutex_ is one   *)
(* action, which is sound because nothing inside one waits.                *)
(***************************************************************************)
EXTENDS Integers

CONSTANTS
    KeyIds,      \* key ids the key service may issue
    Refreshers,  \* threads that call Refresh()
    TTL,         \* ttl_, in clock ticks
    Skew,        \* how far the local clock runs ahead of the key service's
    MaxTime,     \* last tick of the key service's clock that is explored
    NoTime       \* no key under this id (absent from the map / not issued)

ASSUME PKFAssumption ==
    /\ TTL \in Nat
    /\ Skew \in Nat
    /\ MaxTime \in Nat
    /\ NoTime \notin Int

VARIABLES
    now,       \* the key service's clock
    issued,    \* creation time of each issued key, or NoTime
    cache,     \* private_keys_map_: creation time of each cached key, or NoTime
    pc,        \* where each Refresh() call is: "idle" or "waiting"
    pending,   \* the key client still owes this thread's call its callback
    answered,  \* the key service has answered this thread's pending call
    listed,    \* the keys that answer lists
    notified,  \* fetch_notify of the current Refresh() call of each thread
    fetched,   \* keys the last completion callback of each thread inserted
    status     \* what the last Refresh() call of each thread returned

vars == <<now, issued, cache, pc, pending, answered, listed, notified,
         fetched, status>>

Times == 0..MaxTime

TypeOK ==
    /\ now \in Times
    /\ issued \in [KeyIds -> Times \cup {NoTime}]
    /\ cache \in [KeyIds -> Times \cup {NoTime}]
    /\ pc \in [Refreshers -> {"idle", "waiting"}]
    /\ pending \in [Refreshers -> BOOLEAN]
    /\ answered \in [Refreshers -> BOOLEAN]
    /\ listed \in [Refreshers -> SUBSET KeyIds]
    /\ notified \in [Refreshers -> BOOLEAN]
    /\ fetched \in [Refreshers -> SUBSET KeyIds]
    /\ status \in [Refreshers -> {"none", "ok", "unavailable"}]

(* The local clock, absl::Now().                                           *)
LocalNow == now + Skew

(* Keys the service still serves: issued at most TTL ago on its clock.     *)
ServerValid(k) == issued[k] # NoTime /\ now - issued[k] <= TTL

(* GetKey(id): the cached entry under id, std::nullopt as NoTime.          *)
GetKey(k) == cache[k]

(* The constructor: an empty map, no call in progress.                     *)
Init ==
    /\ now = 0
    /\ issued = [k \in KeyIds |-> NoTime]
    /\ cache = [k \in KeyIds |-> NoTime]
    /\ pc = [t \in Refreshers |-> "idle"]
    /\ pending = [t \in Refreshers |-> FALSE]
    /\ answered = [t \in Refreshers |-> FALSE]
    /\ listed = [t \in Refreshers |-> {}]
    /\ notified = [t \in Refreshers |-> FALSE]
    /\ fetched = [t \in Refreshers |-> {}]
    /\ status = [t \in Refreshers |-> "none"]

(* Refresh() up to WaitForNotification: issue ListPrivateKeys with         *)
(* max_age = ttl_.  If the call is refused at once Refresh returns         *)
(* UnavailableError; otherwise it waits for the callback.                  *)
RefreshList(t) ==
    /\ pc[t] = "idle"
    /\ \/ /\ status' = [status EXCEPT ![t] = "unavailable"]
          /\ UNCHANGED <<pc, pending, notified>>
       \/ /\ pc' = [pc EXCEPT ![t] = "waiting"]
          /\ pending' = [pending EXCEPT ![t] = TRUE]
          /\ notified' = [notified EXCEPT ![t] = FALSE]
          /\ UNCHANGED status
    /\ UNCHANGED <<now, issued, cache, answered, listed, fetched>>

(* The key service answers ListPrivateKeys(max_age = ttl_): the keys it    *)
(* serves at this instant, with their creation times.                      *)
ListAnswer(t) ==
    /\ pending[t]
    /\ ~answered[t]
    /\ answered' = [answered EXCEPT ![t] = TRUE]
    /\ listed' = [listed EXCEPT ![t] = {k \in KeyIds : ServerValid(k)}]
    /\ UNCHANGED <<now, issued, cache, pc, pending, notified, fetched, status>>

(* Variant of the completion callback that notifies only on success.       *)
ListCallbackNotifyOnSuccess(t) ==
    /\ pending[t]
    /\ answered[t]
    /\ pending' = [pending EXCEPT ![t] = FALSE]
    /\ answered' = [answered EXCEPT ![t] = FALSE]
    /\ \/ /\ \E bad \in SUBSET listed[t] :
               /\ cache' = [k \in KeyIds |->
                              IF k \in listed[t] \ bad THEN issued[k]
                                                       ELSE cache[k]]
               /\ fetched' = [fetched EXCEPT ![t] = listed[t] \ bad]
          /\ notified' = [notified EXCEPT ![t] = TRUE]
       \/ /\ fetched' = [fetched EXCEPT ![t] = {}]
          /\ UNCHANGED <<cache, notified>>
    /\ UNCHANGED <<now, issued, pc, listed, status>>

(* The completion callback, run by the key client after the answer.  On   *)
(* success it takes mutex_ and insert_or_assigns every listed key that     *)
(* decodes (base64, Keyset with exactly one key, HpkePrivateKey), with the *)
(* creation time the answer carries; a key that fails to decode is         *)
(* skipped.  On failure it only records the failure.  Either way it fires  *)
(* fetch_notify.                                                           *)
ListCallback(t) ==
    /\ pending[t]
    /\ answered[t]
    /\ pending' = [pending EXCEPT ![t] = FALSE]
    /\ answered' = [answered EXCEPT ![t] = FALSE]
    /\ \/ \E bad \in SUBSET listed[t] :
            /\ cache' = [k \in KeyIds |->
                           IF k \in listed[t] \ bad THEN issued[k]
                                                    ELSE cache[k]]
            /\ fetched' = [fetched EXCEPT ![t] = listed[t] \ bad]
       \/ /\ fetched' = [fetched EXCEPT ![t] = {}]
          /\ UNCHANGED cache
    /\ notified' = [notified EXCEPT ![t] = TRUE]
    /\ UNCHANGED <<now, issued, pc, listed, status>>

(* Variant of the clean-up that also erases a key exactly ttl_ old.        *)
RefreshCleanupInclusive(t) ==
    /\ pc[t] = "waiting"
    /\ notified[t]
    /\ cache' = [k \in KeyIds |->
                   IF cache[k] # NoTime /\ cache[k] <= LocalNow - TTL
                     THEN NoTime ELSE cache[k]]
    /\ pc' = [pc EXCEPT ![t] = "idle"]
    /\ status' = [status EXCEPT ![t] = "ok"]
    /\ UNCHANGED <<now, issued, pending, answered, listed, notified, fetched>>

(* Refresh() after the notification: under mutex_, erase every key whose  *)
(* creation_time is before absl::Now() - ttl_, then return OkStatus, also  *)
(* when the callback reported a failure.                                   *)
RefreshCleanup(t) ==
    /\ pc[t] = "waiting"
    /\ notified[t]
    /\ cache' = [k \in KeyIds |->
                   IF cache[k] # NoTime /\ cache[k] < LocalNow - TTL
                     THEN NoTime ELSE cache[k]]
    /\ pc' = [pc EXCEPT ![t] = "idle"]
    /\ status' = [status EXCEPT ![t] = "ok"]
    /\ UNCHANGED <<now, issued, pending, answered, listed, notified, fetched>>

(* The key service's clock advances.                                       *)
Tick ==
    /\ now < MaxTime
    /\ now' = now + 1
    /\ UNCHANGED <<issued, cache, pc, pending, answered, listed, notified,
                   fetched, status>>

(* The key service issues a new key (key rotation).                        *)
IssueKey(k) ==
    /\ issued[k] = NoTime
    /\ issued' = [issued EXCEPT ![k] = now]
    /\ UNCHANGED <<now, cache, pc, pending, answered, listed, notified,
                   fetched, status>>

Next ==
    \/ \E t \in Refreshers :
         RefreshList(t) \/ ListAnswer(t) \/ ListCallback(t) \/ RefreshCleanup(t)
    \/ Tick
    \/ \E k \in KeyIds : IssueKey(k)

(* The refreshing thread keeps running, the key service answers and the   *)
(* key client calls back every ListPrivateKeys call it accepted; callers of Refresh() and the    *)
(* key service's clock and rotation need not act.                          *)
Fairness ==
    \A t \in Refreshers :
        /\ WF_vars(ListAnswer(t))
        /\ WF_vars(ListCallback(t))
        /\ WF_vars(RefreshCleanup(t))

Spec == Init /\ [][Next]_vars /\ Fairness

-----------------------------------------------------------------------------
(* Properties.                                                             *)

(* A key that a completion callback put in the map, and that the key       *)
(* service still serves, is returned by GetKey: the TTL clean-up at the    *)
(* end of any Refresh() never evicts a key the service still considers     *)
(* fresh.                                                                  *)
FreshKeysCached ==
    \A t \in Refreshers, k \in KeyIds :
        k \in fetched[t] /\ ServerValid(k) => GetKey(k) # NoTime

(* Every Refresh() call that got past ListPrivateKeys returns: the         *)
(* callback fires fetch_notify on every path, so WaitForNotification ends. *)
RefreshReturns ==
    \A t \in Refreshers : pc[t] = "waiting" ~> pc[t] = "idle"

=============================================================================
