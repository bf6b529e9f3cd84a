----------------------------- MODULE CallbackRpc -----------------------------
(***************************************************************************)
(* What a host callback promises a guest, with the channel, the listener  *)
(* threads and Stop() abstracted away.  Every worker has one guest that    *)
(* makes one blocking call at a time.  A call is either refused at once,   *)
(* or it blocks until it returns the answer to its own request or fails    *)
(* without an answer.  A worker may be restarted, abandoning its call.     *)
(* A blocked call does not block forever.                                  *)
(***************************************************************************)
CONSTANTS
    Workers,    \* the guests, one per worker
    Requests    \* what a call asks for (function name and request uuid)

VARIABLES
    st,     \* st[w]: "idle", or "waiting" while the guest of w is blocked
    req,    \* req[w]: the request of the guest's last call
    ans     \* ans[w]: the answers that call received, {} or a singleton

avars == <<st, req, ans>>

TypeOK ==
    /\ st \in [Workers -> {"idle", "waiting"}]
    /\ req \in [Workers -> Requests]
    /\ ans \in [Workers -> SUBSET Requests]

Init ==
    /\ st = [w \in Workers |-> "idle"]
    /\ req \in [Workers -> Requests]
    /\ ans = [w \in Workers |-> {}]

(* The guest of w calls, and blocks.                                       *)
Call(w, r) ==
    /\ st[w] = "idle"
    /\ st' = [st EXCEPT ![w] = "waiting"]
    /\ req' = [req EXCEPT ![w] = r]
    /\ ans' = [ans EXCEPT ![w] = {}]

(* The guest of w calls and the call fails without blocking.               *)
Refuse(w, r) ==
    /\ st[w] = "idle"
    /\ req' = [req EXCEPT ![w] = r]
    /\ ans' = [ans EXCEPT ![w] = {}]
    /\ UNCHANGED st

(* The blocked call returns the answer to its own request.                 *)
Answer(w) ==
    /\ st[w] = "waiting"
    /\ st' = [st EXCEPT ![w] = "idle"]
    /\ ans' = [ans EXCEPT ![w] = {req[w]}]
    /\ UNCHANGED req

(* The blocked call fails without an answer.                               *)
Fail(w) ==
    /\ st[w] = "waiting"
    /\ st' = [st EXCEPT ![w] = "idle"]
    /\ UNCHANGED <<req, ans>>

(* The worker is replaced; whatever its guest was doing is abandoned.      *)
Restart(w) ==
    /\ st' = [st EXCEPT ![w] = "idle"]
    /\ req' \in [Workers -> Requests]
    /\ \A v \in Workers \ {w} : req'[v] = req[v]
    /\ ans' = [ans EXCEPT ![w] = {}]

Next ==
    \E w \in Workers :
        \/ \E r \in Requests : Call(w, r) \/ Refuse(w, r)
        \/ Answer(w)
        \/ Fail(w)
        \/ Restart(w)

(* A blocked call eventually returns, with its answer or without one.      *)
Spec == Init /\ [][Next]_avars /\ \A w \in Workers : WF_avars(Answer(w) \/ Fail(w))
=============================================================================
