------------------------- MODULE NativeFunctionHandler -------------------------
(***************************************************************************)
(* Host callbacks across the sandbox boundary.                             *)
(*                                                                         *)
(* Parent side: NativeFunctionHandlerSapiIpc runs one listener thread per  *)
(* worker channel.  A listener receives an RpcWrapper, checks the stop_    *)
(* flag, resolves the request's metadata, calls the native function table  *)
(* and sends the (possibly error-annotated) wrapper back.  Stop() sets     *)
(* stop_, writes one sentinel frame into the remote end of every channel,  *)
(* joins the listeners and terminates the channels.                        *)
(*                                                                         *)
(* Child side: V8IsolateFunctionBinding installs one stub per bound name.  *)
(* AddIds records the uuid of the invocation being run; a guest call of a  *)
(* stub fills an RpcWrapper with the name and that uuid, sends it on the   *)
(* channel and blocks until a wrapper comes back.                          *)
(*                                                                         *)
(* Environment (spec-modelled, the code is not under src/): the dispatcher *)
(* inserts a request's metadata before dispatching it and removes it when  *)
(* the request completes or its worker dies; a killed worker is replaced   *)
(* by a fresh process that reuses the same channel, whose two ends the     *)
(* parent keeps open.                                                      *)
(***************************************************************************)
EXTENDS Naturals, Sequences, FiniteSets

CONSTANTS
    Workers,     \* worker indices; channel w connects the parent to worker w
    Uuids,       \* request uuids handed out by the dispatcher
    TableNames,  \* names registered in the NativeFunctionTable
    BoundNames,  \* native_js_function_names bound in every worker's isolate
    EmptyName,   \* the empty function name ""
    NoUuid,      \* the empty request uuid ""
    MaxKills     \* bound on the number of worker processes killed

ASSUME NFHAssumption ==
    /\ Workers # {}
    /\ IsFiniteSet(Workers)
    /\ EmptyName \notin TableNames
    /\ NoUuid \notin Uuids
    /\ MaxKills \in Nat

(* An RpcWrapper as it travels from the child to the parent.  A wrapper    *)
(* whose fields were never set, and the FunctionBindingIoProto sentinel    *)
(* that Stop() writes, both parse as the empty wrapper.                    *)
Rpc == [fn : BoundNames \cup {EmptyName}, uuid : Uuids \cup {NoUuid}]
EmptyRpc == [fn |-> EmptyName, uuid |-> NoUuid]
Sentinel == EmptyRpc

(* The wrapper sent back: the request's fields, the error the listener     *)
(* appended (or "none") and the request whose metadata the native function *)
(* was called with (NoUuid when it was not called successfully).           *)
Errors == {"none", "NoFunctionName", "NoMutex", "CallFailed"}
Reply == [fn : BoundNames \cup {EmptyName}, uuid : Uuids \cup {NoUuid},
          err : Errors, data : Uuids \cup {NoUuid}]
NoReply == [fn |-> EmptyName, uuid |-> NoUuid, err |-> "none", data |-> NoUuid]

VARIABLES
    inbuf,      \* inbuf[w]: frames on channel w not yet received by the parent
    outbuf,     \* outbuf[w]: frames on channel w not yet received by the child
    lst,        \* lst[w]: pc of the listener thread of channel w
    held,       \* held[w]: the wrapper_proto the listener is handling
    stop,       \* the stop_ flag
    sentinels,  \* channels Stop() has written its sentinel to
    terminated, \* Stop() has joined the listeners and terminated the comms
    cur,        \* cur[w]: invocation_req_uuid_ of the binding in worker w
    stub,       \* stub[w]: "idle", or "waiting" inside function_invoker_->Invoke
    sent,       \* sent[w]: the rpc_proto of worker w's last guest call
    got,        \* got[w]: the wrapper that call received (NoReply if none)
    running,    \* running[w]: uuid of the request worker w executes, or NoUuid
    meta,       \* uuids that have an entry in the metadata storage
    used,       \* uuids the dispatcher has handed out
    kills       \* number of worker processes killed so far

handlerVars == <<inbuf, outbuf, lst, held, stop, sentinels, terminated>>
childVars == <<cur, stub, sent, got>>
envVars == <<running, meta, used, kills>>
vars == <<handlerVars, childVars, envVars>>

TypeOK ==
    /\ inbuf \in [Workers -> Seq(Rpc)]
    /\ outbuf \in [Workers -> Seq(Reply)]
    /\ lst \in [Workers -> {"recv", "handle", "exited"}]
    /\ held \in [Workers -> Rpc]
    /\ stop \in BOOLEAN
    /\ sentinels \in SUBSET Workers
    /\ terminated \in BOOLEAN
    /\ cur \in [Workers -> Uuids \cup {NoUuid}]
    /\ stub \in [Workers -> {"idle", "waiting"}]
    /\ sent \in [Workers -> Rpc]
    /\ got \in [Workers -> Reply]
    /\ running \in [Workers -> Uuids \cup {NoUuid}]
    /\ meta \in SUBSET Uuids
    /\ used \in SUBSET Uuids
    /\ kills \in 0..MaxKills

Init ==
    /\ inbuf = [w \in Workers |-> <<>>]
    /\ outbuf = [w \in Workers |-> <<>>]
    /\ lst = [w \in Workers |-> "recv"]
    /\ held = [w \in Workers |-> EmptyRpc]
    /\ stop = FALSE
    /\ sentinels = {}
    /\ terminated = FALSE
    /\ cur = [w \in Workers |-> NoUuid]
    /\ stub = [w \in Workers |-> "idle"]
    /\ sent = [w \in Workers |-> EmptyRpc]
    /\ got = [w \in Workers |-> NoReply]
    /\ running = [w \in Workers |-> NoUuid]
    /\ meta = {}
    /\ used = {}
    /\ kills = 0

-----------------------------------------------------------------------------
(* Child side: V8IsolateFunctionBinding.                                   *)

(* Variant of AddIds that records only the first invocation's uuid.       *)
AddIdsOnce(w, u) ==
    IF cur[w] = NoUuid THEN [cur EXCEPT ![w] = u] ELSE cur

(* AddIds: with at least one binding, the shared instance records the      *)
(* uuid of the invocation about to run.                                    *)
AddIds(w, u) ==
    IF BoundNames # {} THEN [cur EXCEPT ![w] = u] ELSE cur

(* NativeFieldsToProto: the wrapper for a call of binding f.  With an      *)
(* empty name the fields stay unset; the callback throws but, lacking a    *)
(* return, still invokes the RPC with the empty wrapper.                   *)
NativeFieldsToProto(w, f) ==
    IF f = EmptyName THEN EmptyRpc ELSE [fn |-> f, uuid |-> cur[w]]

(* GlobalV8FunctionCallback up to the call of function_invoker_->Invoke:   *)
(* the guest of worker w calls binding f; Invoke sends the wrapper, or     *)
(* fails at once when the parent has terminated the channel.  (A call      *)
(* whose arguments V8TypesToProto cannot convert throws before touching    *)
(* any state modelled here.)                                               *)
GuestCall(w, f) ==
    /\ running[w] # NoUuid
    /\ stub[w] = "idle"
    /\ LET r == NativeFieldsToProto(w, f) IN
         /\ sent' = [sent EXCEPT ![w] = r]
         /\ got' = [got EXCEPT ![w] = NoReply]
         /\ IF terminated
              THEN UNCHANGED <<inbuf, stub>>
              ELSE /\ inbuf' = [inbuf EXCEPT ![w] = Append(@, r)]
                   /\ stub' = [stub EXCEPT ![w] = "waiting"]
    /\ UNCHANGED <<outbuf, lst, held, stop, sentinels, terminated, cur, envVars>>

(* Invoke's receive returns the next wrapper on the channel, whatever      *)
(* request it answers; the callback throws if it carries an error and      *)
(* returns its output to the guest otherwise.                              *)
StubReceive(w) ==
    /\ stub[w] = "waiting"
    /\ outbuf[w] # <<>>
    /\ got' = [got EXCEPT ![w] = Head(outbuf[w])]
    /\ outbuf' = [outbuf EXCEPT ![w] = Tail(@)]
    /\ stub' = [stub EXCEPT ![w] = "idle"]
    /\ UNCHANGED <<inbuf, lst, held, stop, sentinels, terminated, cur, sent,
                   envVars>>

(* Invoke's receive fails once the parent has terminated the channel and   *)
(* nothing is left on it: the callback throws.                             *)
StubRecvFail(w) ==
    /\ stub[w] = "waiting"
    /\ terminated
    /\ outbuf[w] = <<>>
    /\ stub' = [stub EXCEPT ![w] = "idle"]
    /\ UNCHANGED <<handlerVars, cur, sent, got, envVars>>

-----------------------------------------------------------------------------
(* Parent side: NativeFunctionHandlerSapiIpc.                              *)

(* Variant of ListenerRecv that handles every frame, ignoring stop_.       *)
ListenerRecvNoStopCheck(w) ==
    /\ lst[w] = "recv"
    /\ inbuf[w] # <<>>
    /\ inbuf' = [inbuf EXCEPT ![w] = Tail(@)]
    /\ lst' = [lst EXCEPT ![w] = "handle"]
    /\ held' = [held EXCEPT ![w] = Head(inbuf[w])]
    /\ UNCHANGED <<outbuf, stop, sentinels, terminated, childVars, envVars>>

(* The listener's RecvProtoBuf returns a frame; if stop_ is set the thread *)
(* leaves its loop, otherwise it goes on to handle the wrapper.            *)
ListenerRecv(w) ==
    /\ lst[w] = "recv"
    /\ inbuf[w] # <<>>
    /\ inbuf' = [inbuf EXCEPT ![w] = Tail(@)]
    /\ IF stop
         THEN /\ lst' = [lst EXCEPT ![w] = "exited"]
              /\ UNCHANGED held
         ELSE /\ lst' = [lst EXCEPT ![w] = "handle"]
              /\ held' = [held EXCEPT ![w] = Head(inbuf[w])]
    /\ UNCHANGED <<outbuf, stop, sentinels, terminated, childVars, envVars>>

(* The error the listener appends for wrapper m, given whether the native  *)
(* function succeeded: empty name, no metadata entry for the uuid (the     *)
(* scoped reader cannot be created), or a failed or unknown function.      *)
HandleError(m, callOk) ==
    IF m.fn = EmptyName THEN "NoFunctionName"
    ELSE IF m.uuid \notin meta THEN "NoMutex"
    ELSE IF m.fn \notin TableNames \/ ~callOk THEN "CallFailed"
    ELSE "none"

(* Variant of ListenerHandle that sends nothing back when it appended an   *)
(* error.                                                                  *)
ListenerHandleDropsErrors(w) ==
    /\ lst[w] = "handle"
    /\ \E callOk \in BOOLEAN :
         LET m == held[w]
             e == HandleError(m, callOk)
         IN IF e = "none"
              THEN outbuf' = [outbuf EXCEPT ![w] =
                     Append(@, [fn |-> m.fn, uuid |-> m.uuid, err |-> e,
                                data |-> m.uuid])]
              ELSE UNCHANGED outbuf
    /\ lst' = [lst EXCEPT ![w] = "recv"]
    /\ held' = [held EXCEPT ![w] = EmptyRpc]
    /\ UNCHANGED <<inbuf, stop, sentinels, terminated, childVars, envVars>>

(* The rest of the loop body: resolve metadata under a scoped reader, call *)
(* the function, and send the wrapper back on the same channel.            *)
ListenerHandle(w) ==
    /\ lst[w] = "handle"
    /\ \E callOk \in BOOLEAN :
         LET m == held[w]
             e == HandleError(m, callOk)
         IN outbuf' = [outbuf EXCEPT ![w] =
                Append(@, [fn |-> m.fn, uuid |-> m.uuid, err |-> e,
                           data |-> IF e = "none" THEN m.uuid ELSE NoUuid])]
    /\ lst' = [lst EXCEPT ![w] = "recv"]
    /\ held' = [held EXCEPT ![w] = EmptyRpc]
    /\ UNCHANGED <<inbuf, stop, sentinels, terminated, childVars, envVars>>

(* Stop(): set stop_ under stop_mutex_.                                    *)
StopSetFlag ==
    /\ ~stop
    /\ stop' = TRUE
    /\ UNCHANGED <<inbuf, outbuf, lst, held, sentinels, terminated, childVars,
                   envVars>>

(* Variant of StopSendSentinel that may write the sentinel before stop_ is *)
(* set.                                                                    *)
StopSendSentinelEarly(w) ==
    /\ w \notin sentinels
    /\ inbuf' = [inbuf EXCEPT ![w] = Append(@, Sentinel)]
    /\ sentinels' = sentinels \cup {w}
    /\ UNCHANGED <<outbuf, lst, held, stop, terminated, childVars, envVars>>

(* Stop(): write an empty FunctionBindingIoProto into remote fd w, which   *)
(* the listener of channel w receives as an (empty) wrapper.               *)
StopSendSentinel(w) ==
    /\ stop
    /\ w \notin sentinels
    /\ inbuf' = [inbuf EXCEPT ![w] = Append(@, Sentinel)]
    /\ sentinels' = sentinels \cup {w}
    /\ UNCHANGED <<outbuf, lst, held, stop, terminated, childVars, envVars>>

(* Stop(): join every listener thread, then terminate every channel.       *)
StopJoin ==
    /\ stop
    /\ sentinels = Workers
    /\ \A w \in Workers : lst[w] = "exited"
    /\ ~terminated
    /\ terminated' = TRUE
    /\ UNCHANGED <<inbuf, outbuf, lst, held, stop, sentinels, childVars,
                   envVars>>

-----------------------------------------------------------------------------
(* Environment: dispatcher and worker lifecycle (spec-modelled).           *)

(* The dispatcher inserts the metadata of a fresh request and sends it to  *)
(* idle worker w, whose child calls AddIds before running the handler.     *)
StartInvocation(w, u) ==
    /\ running[w] = NoUuid
    /\ u \notin used
    /\ used' = used \cup {u}
    /\ meta' = meta \cup {u}
    /\ running' = [running EXCEPT ![w] = u]
    /\ cur' = AddIds(w, u)
    /\ UNCHANGED <<handlerVars, stub, sent, got, kills>>

(* The guest handler returns (it cannot while blocked in a callback); the  *)
(* response is delivered and the request's metadata removed.               *)
FinishInvocation(w) ==
    /\ running[w] # NoUuid
    /\ stub[w] = "idle"
    /\ meta' = meta \ {running[w]}
    /\ running' = [running EXCEPT ![w] = NoUuid]
    /\ UNCHANGED <<handlerVars, childVars, used, kills>>

(* Variant of KillWorker that ignores the bound on kills.                  *)
KillWorkerUnbounded(w) ==
    /\ running[w] # NoUuid
    /\ kills' = kills + 1
    /\ meta' = meta \ {running[w]}
    /\ running' = [running EXCEPT ![w] = NoUuid]
    /\ cur' = [cur EXCEPT ![w] = NoUuid]
    /\ stub' = [stub EXCEPT ![w] = "idle"]
    /\ sent' = [sent EXCEPT ![w] = EmptyRpc]
    /\ got' = [got EXCEPT ![w] = NoReply]
    /\ UNCHANGED <<handlerVars, used>>

(* The worker process dies mid-request (crash, SIGKILL, timeout): the      *)
(* request fails, its metadata is removed and a fresh process with a new   *)
(* binding instance replaces the worker on the same channel.  Frames       *)
(* already on the channel stay there.                                      *)
KillWorker(w) ==
    /\ running[w] # NoUuid
    /\ kills < MaxKills
    /\ kills' = kills + 1
    /\ meta' = meta \ {running[w]}
    /\ running' = [running EXCEPT ![w] = NoUuid]
    /\ cur' = [cur EXCEPT ![w] = NoUuid]
    /\ stub' = [stub EXCEPT ![w] = "idle"]
    /\ sent' = [sent EXCEPT ![w] = EmptyRpc]
    /\ got' = [got EXCEPT ![w] = NoReply]
    /\ UNCHANGED <<handlerVars, used>>

(* The runtime has stopped and no request is left running.                 *)
Finished ==
    /\ terminated
    /\ \A w \in Workers : running[w] = NoUuid
    /\ UNCHANGED vars

-----------------------------------------------------------------------------
Next ==
    \/ \E w \in Workers, f \in BoundNames : GuestCall(w, f)
    \/ \E w \in Workers : StubReceive(w)
    \/ \E w \in Workers : StubRecvFail(w)
    \/ \E w \in Workers : ListenerRecv(w)
    \/ \E w \in Workers : ListenerHandle(w)
    \/ StopSetFlag
    \/ \E w \in Workers : StopSendSentinel(w)
    \/ StopJoin
    \/ \E w \in Workers, u \in Uuids : StartInvocation(w, u)
    \/ \E w \in Workers : FinishInvocation(w)
    \/ \E w \in Workers : KillWorker(w)
    \/ Finished

(* Listener threads, the thread in Stop() and a stub blocked in Invoke     *)
(* keep running; guests, the dispatcher and the host calling Stop() are    *)
(* free to never act.                                                      *)
Fairness ==
    /\ \A w \in Workers :
         /\ WF_vars(ListenerRecv(w))
         /\ WF_vars(ListenerHandle(w))
         /\ WF_vars(StopSendSentinel(w))
         /\ WF_vars(StubReceive(w))
         /\ WF_vars(StubRecvFail(w))
    /\ WF_vars(StopJoin)

Spec == Init /\ [][Next]_vars /\ Fairness

-----------------------------------------------------------------------------
(* Properties.                                                             *)

(* A guest callback only ever returns the wrapper that answers its own     *)
(* request: same function name and same request uuid.  This is what the    *)
(* stub in GlobalV8FunctionCallback relies on when it hands the wrapper    *)
(* received by Invoke to the guest without looking at it.                  *)
GuestGetsOwnReply ==
    \A w \in Workers :
        got[w] # NoReply =>
            /\ got[w].fn = sent[w].fn
            /\ got[w].uuid = sent[w].uuid

(* Whenever a listener handles a wrapper that carries a request uuid, the  *)
(* metadata of that request is still in the storage, so the scoped reader  *)
(* finds it (the spec's "metadata exists when the handler runs").          *)
HandlerFindsMetadata ==
    \A w \in Workers :
        lst[w] = "handle" /\ held[w].uuid # NoUuid => held[w].uuid \in meta

(* Once the host has called Stop(), Stop() returns: every listener thread  *)
(* leaves its receive loop and the join completes.                         *)
StopCompletes == stop ~> terminated

(* A guest blocked in a callback is eventually released, by a reply or by  *)
(* the failure of the terminated channel; nobody waits forever.            *)
CallsReturn == \A w \in Workers : stub[w] = "waiting" ~> stub[w] = "idle"


-----------------------------------------------------------------------------
(* Refinement of the abstract callback promise (CallbackRpc): the stub's   *)
(* state, the wrapper the guest sent and the request the wrapper it        *)
(* received answers.  Frames, listeners, Stop() and the dispatcher are     *)
(* hidden; their steps are stutters of CallbackRpc.                        *)
Answered(g) == IF g = NoReply THEN {} ELSE {[fn |-> g.fn, uuid |-> g.uuid]}

ansMap == [w \in Workers |-> Answered(got[w])]

RPC == INSTANCE CallbackRpc WITH
          Requests <- Rpc, st <- stub, req <- sent, ans <- ansMap

(* The handler implements the callback promise: every guest call that      *)
(* blocks in function_invoker_->Invoke returns the answer to its own       *)
(* request, or fails, and never blocks forever, across every interleaving  *)
(* of listeners, Stop() and requests.                                      *)
RefinesCallbackRpc == RPC!Spec

=============================================================================
