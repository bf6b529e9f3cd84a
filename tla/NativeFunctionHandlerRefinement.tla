------------------ MODULE NativeFunctionHandlerRefinement ------------------
(* Proof that, with no worker killed, NativeFunctionHandler implements the *)
(* safety part of CallbackRpc under the mapping RPC: stub state, the       *)
(* wrapper sent and the request the received wrapper answers.              *)
EXTENDS NativeFunctionHandlerProofs

(* No reply the listener sends is the empty reply, and a waiting stub has  *)
(* not received anything yet.  With it, Answered tells a received reply    *)
(* from none.                                                              *)
ReplyInv ==
    \A w \in Workers :
        /\ stub[w] = "waiting" => got[w] = NoReply
        /\ \A i \in 1..Len(outbuf[w]) : outbuf[w][i] # NoReply

LEMMA ReplyInvInit == Init => ReplyInv
BY DEF Init, ReplyInv

(* The reply a listener appends differs from NoReply: an empty name gets   *)
(* an error, any other name differs from EmptyName.                        *)
LEMMA HandledNotNoReply ==
    ASSUME NEW m \in Rpc, NEW callOk \in BOOLEAN
    PROVE  [fn |-> m.fn, uuid |-> m.uuid, err |-> HandleError(m, callOk),
            data |-> IF HandleError(m, callOk) = "none" THEN m.uuid ELSE NoUuid]
           # NoReply
<1>1. CASE m.fn = EmptyName
  <2>1. HandleError(m, callOk) = "NoFunctionName"
    BY <1>1 DEF HandleError
  <2>2. QED
    BY <2>1 DEF NoReply
<1>2. CASE m.fn # EmptyName
  BY <1>2 DEF NoReply
<1>3. QED
  BY <1>1, <1>2

LEMMA ReplyInvStep == TypeOK /\ ReplyInv /\ [Next]_vars => ReplyInv'
<1> SUFFICES ASSUME TypeOK, ReplyInv, [Next]_vars PROVE ReplyInv'
  OBVIOUS
<1> USE DEF handlerVars, childVars, envVars
<1>1. ASSUME NEW w \in Workers, NEW f \in BoundNames, GuestCall(w, f)
      PROVE  ReplyInv'
  BY <1>1 DEF GuestCall, ReplyInv, TypeOK
<1>2. ASSUME NEW w \in Workers, StubReceive(w) PROVE ReplyInv'
  <2>1. outbuf[w] \in Seq(Reply) /\ outbuf[w] # <<>>
    BY <1>2 DEF StubReceive, TypeOK
  <2>2. \A i \in 1..Len(Tail(outbuf[w])) : Tail(outbuf[w])[i] = outbuf[w][i + 1]
    BY <2>1
  <2>3. Len(Tail(outbuf[w])) = Len(outbuf[w]) - 1
    BY <2>1
  <2>4. QED
    BY <1>2, <2>1, <2>2, <2>3 DEF StubReceive, ReplyInv, TypeOK
<1>3. ASSUME NEW w \in Workers, StubRecvFail(w) PROVE ReplyInv'
  BY <1>3 DEF StubRecvFail, ReplyInv, TypeOK
<1>4. ASSUME NEW w \in Workers, ListenerRecv(w) PROVE ReplyInv'
  BY <1>4 DEF ListenerRecv, ReplyInv, TypeOK
<1>5. ASSUME NEW w \in Workers, ListenerHandle(w) PROVE ReplyInv'
  <2>1. PICK callOk \in BOOLEAN :
          outbuf' = [outbuf EXCEPT ![w] =
            Append(@, [fn |-> held[w].fn, uuid |-> held[w].uuid,
                       err |-> HandleError(held[w], callOk),
                       data |-> IF HandleError(held[w], callOk) = "none"
                                  THEN held[w].uuid ELSE NoUuid])]
    BY <1>5 DEF ListenerHandle
  <2>2. [fn |-> held[w].fn, uuid |-> held[w].uuid,
         err |-> HandleError(held[w], callOk),
         data |-> IF HandleError(held[w], callOk) = "none"
                    THEN held[w].uuid ELSE NoUuid] # NoReply
    BY HandledNotNoReply DEF TypeOK
  <2>3. outbuf[w] \in Seq(Reply)
    BY DEF TypeOK
  <2>4. QED
    BY <1>5, <2>1, <2>2, <2>3 DEF ListenerHandle, ReplyInv, TypeOK
<1>6. CASE StopSetFlag
  BY <1>6 DEF StopSetFlag, ReplyInv
<1>7. ASSUME NEW w \in Workers, StopSendSentinel(w) PROVE ReplyInv'
  BY <1>7 DEF StopSendSentinel, ReplyInv
<1>8. CASE StopJoin
  BY <1>8 DEF StopJoin, ReplyInv
<1>9. ASSUME NEW w \in Workers, NEW u \in Uuids, StartInvocation(w, u)
      PROVE  ReplyInv'
  BY <1>9 DEF StartInvocation, ReplyInv
<1>10. ASSUME NEW w \in Workers, FinishInvocation(w) PROVE ReplyInv'
  BY <1>10 DEF FinishInvocation, ReplyInv
<1>11. ASSUME NEW w \in Workers, KillWorker(w) PROVE ReplyInv'
  BY <1>11 DEF KillWorker, ReplyInv, TypeOK
<1>12. CASE Finished \/ UNCHANGED vars
  BY <1>12 DEF Finished, vars, ReplyInv
<1>13. QED
  BY <1>1, <1>2, <1>3, <1>4, <1>5, <1>6, <1>7, <1>8, <1>9, <1>10, <1>11,
     <1>12 DEF Next

-----------------------------------------------------------------------------
(* The refinement mapping.                                                 *)

(* The empty reply means "nothing received", and a received reply whose    *)
(* name and uuid are those of the wrapper sent answers that wrapper.       *)
LEMMA AnsweredFacts ==
    ASSUME NEW g \in Reply, NEW r \in Rpc
    PROVE  /\ Answered(NoReply) = {}
           /\ g # NoReply /\ g.fn = r.fn /\ g.uuid = r.uuid
                => Answered(g) = {r}
BY DEF Answered, Reply, Rpc, NoReply

(* The initial state maps to an initial state of CallbackRpc.             *)
LEMMA RefineInit == Init => RPC!Init
BY EmptyType, AnsweredFacts DEF Init, RPC!Init, ansMap

(* Stub, sent wrapper and received wrapper of every worker unchanged: the  *)
(* step is a stutter of CallbackRpc.                                       *)
LEMMA RefineStutter ==
    ASSUME UNCHANGED <<stub, sent, got>>
    PROVE  UNCHANGED RPC!avars
BY DEF RPC!avars, ansMap

(* With no worker killed, every step maps to a step of CallbackRpc or to a *)
(* stutter: a call is a Call (or a Refuse once the channel is gone), a     *)
(* receive is an Answer to the stub's own request, a failed receive is a   *)
(* Fail.                                                                   *)
LEMMA RefineStep ==
    ASSUME MaxKills = 0
    PROVE  IInv /\ ReplyInv /\ [Next]_vars => [RPC!Next]_RPC!avars
<1> SUFFICES ASSUME IInv, ReplyInv, [Next]_vars PROVE [RPC!Next]_RPC!avars
  OBVIOUS
<1> USE DEF handlerVars, childVars, envVars
<1>0. TypeOK
  BY DEF IInv
<1>1. ASSUME NEW w \in Workers, NEW f \in BoundNames, GuestCall(w, f)
      PROVE  [RPC!Next]_RPC!avars
  <2> DEFINE r == NativeFieldsToProto(w, f)
  <2>1. r \in Rpc
    BY <1>0, NativeFieldsToProtoType
  <2>2. ansMap' = [ansMap EXCEPT ![w] = {}]
    BY <1>0, <1>1, AnsweredFacts DEF GuestCall, ansMap, TypeOK
  <2>3. /\ stub[w] = "idle"
        /\ sent' = [sent EXCEPT ![w] = r]
    BY <1>1 DEF GuestCall
  <2>4. CASE terminated
    <3>1. RPC!Refuse(w, r)
      BY <1>1, <2>2, <2>3, <2>4 DEF GuestCall, RPC!Refuse, ansMap
    <3>2. QED
      BY <2>1, <3>1 DEF RPC!Next
  <2>5. CASE ~terminated
    <3>1. RPC!Call(w, r)
      BY <1>1, <2>2, <2>3, <2>5 DEF GuestCall, RPC!Call
    <3>2. QED
      BY <2>1, <3>1 DEF RPC!Next
  <2>6. QED
    BY <2>4, <2>5
<1>2. ASSUME NEW w \in Workers, StubReceive(w) PROVE [RPC!Next]_RPC!avars
  <2>1. /\ Len(outbuf[w]) = 1
        /\ stub[w] = "waiting"
        /\ outbuf[w][1].fn = sent[w].fn
        /\ outbuf[w][1].uuid = sent[w].uuid
    BY <1>0, <1>2, ReplyPending DEF IInv, StubReceive
  <2>2. /\ outbuf[w][1] # NoReply
        /\ outbuf[w][1] \in Reply
        /\ got'[w] = outbuf[w][1]
    BY <1>0, <1>2, <2>1 DEF ReplyInv, StubReceive, TypeOK
  <2>3. Answered(got'[w]) = {sent[w]}
    BY <1>0, <2>1, <2>2, AnsweredFacts DEF TypeOK
  <2>4. ansMap' = [ansMap EXCEPT ![w] = {sent[w]}]
    BY <1>0, <1>2, <2>3 DEF StubReceive, ansMap, TypeOK
  <2>5. RPC!Answer(w)
    BY <1>2, <2>1, <2>4 DEF StubReceive, RPC!Answer
  <2>6. QED
    BY <2>5 DEF RPC!Next
<1>3. ASSUME NEW w \in Workers, StubRecvFail(w) PROVE [RPC!Next]_RPC!avars
  <2>1. RPC!Fail(w)
    BY <1>3 DEF StubRecvFail, RPC!Fail, ansMap
  <2>2. QED
    BY <2>1 DEF RPC!Next
<1>4. ASSUME NEW w \in Workers, KillWorker(w) PROVE FALSE
  BY <1>4 DEF IInv, KillWorker
<1>5. CASE UNCHANGED <<stub, sent, got>>
  BY <1>5, RefineStutter
<1>6. QED
  <2>1. CASE \E w \in Workers, f \in BoundNames : GuestCall(w, f)
    BY <1>1, <2>1
  <2>2. CASE \E w \in Workers : StubReceive(w)
    BY <1>2, <2>2
  <2>3. CASE \E w \in Workers : StubRecvFail(w)
    BY <1>3, <2>3
  <2>4. CASE \E w \in Workers : KillWorker(w)
    BY <1>4, <2>4
  <2>5. CASE \/ \E w \in Workers : ListenerRecv(w)
             \/ \E w \in Workers : ListenerHandle(w)
             \/ StopSetFlag
             \/ \E w \in Workers : StopSendSentinel(w)
             \/ StopJoin
             \/ \E w \in Workers, u \in Uuids : StartInvocation(w, u)
             \/ \E w \in Workers : FinishInvocation(w)
             \/ Finished \/ UNCHANGED vars
    <3>1. UNCHANGED <<stub, sent, got>>
      BY <2>5 DEF ListenerRecv, ListenerHandle, StopSetFlag, StopSendSentinel,
                  StopJoin, StartInvocation, FinishInvocation, Finished, vars
    <3>2. QED
      BY <3>1, <1>5
  <2>6. QED
    BY <2>1, <2>2, <2>3, <2>4, <2>5 DEF Next

(* With no worker killed, NativeFunctionHandler implements the safety part *)
(* of CallbackRpc: every guest call of GlobalV8FunctionCallback either     *)
(* fails, or returns the wrapper that answers its own request, and a stub  *)
(* is released only by its own answer or by the terminated channel.        *)
THEOREM ImplementsCallbackRpc ==
    ASSUME MaxKills = 0
    PROVE  Spec => RPC!Init /\ [][RPC!Next]_RPC!avars
<1>1. Init => IInv /\ ReplyInv
  BY IInvInit, ReplyInvInit
<1>2. IInv /\ ReplyInv /\ [Next]_vars => IInv' /\ ReplyInv'
  BY IInvStep, ReplyInvStep DEF IInv
<1>3. IInv /\ ReplyInv /\ [Next]_vars => [RPC!Next]_RPC!avars
  BY RefineStep
<1>4. QED
  BY <1>1, <1>2, <1>3, RefineInit, PTL DEF Spec

=============================================================================
