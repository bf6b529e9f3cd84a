--------------------- MODULE NativeFunctionHandlerProofs ---------------------
(* Proofs about the callback pipeline of NativeFunctionHandler.            *)
EXTENDS NativeFunctionHandler, SequenceTheorems, TLAPS

-----------------------------------------------------------------------------
(* Type correctness.                                                       *)

(* The empty wrapper and the empty reply are well formed.                 *)
LEMMA EmptyType ==
    /\ EmptyRpc \in Rpc
    /\ Sentinel \in Rpc
    /\ NoReply \in Reply
BY DEF EmptyRpc, Sentinel, Rpc, NoReply, Reply, Errors

(* Every wrapper a stub builds is a well-formed RpcWrapper.                *)
LEMMA NativeFieldsToProtoType ==
    ASSUME TypeOK, NEW w \in Workers, NEW f \in BoundNames
    PROVE  NativeFieldsToProto(w, f) \in Rpc
BY EmptyType DEF TypeOK, NativeFieldsToProto, Rpc

(* The listener always appends one of the four error codes.                *)
LEMMA HandleErrorType ==
    ASSUME NEW m, NEW callOk \in BOOLEAN
    PROVE  HandleError(m, callOk) \in Errors
BY DEF HandleError, Errors

(* The wrapper a listener sends back for a well-formed request is a        *)
(* well-formed reply.                                                      *)
LEMMA ReplyType ==
    ASSUME NEW m \in Rpc, NEW e \in Errors
    PROVE  [fn |-> m.fn, uuid |-> m.uuid, err |-> e,
            data |-> IF e = "none" THEN m.uuid ELSE NoUuid] \in Reply
BY DEF Rpc, Reply

(* Appending to a channel keeps it a sequence of its element type.         *)
LEMMA AppendType ==
    ASSUME NEW S, NEW s \in Seq(S), NEW x \in S
    PROVE  Append(s, x) \in Seq(S)
OBVIOUS

(* Every component of the state keeps its type: the channels carry         *)
(* well-formed wrappers and replies, and no more than MaxKills workers are *)
(* ever killed.                                                            *)
(* The initial state is well typed.                                       *)
LEMMA TypeInit == Init => TypeOK
<1> USE NFHAssumption
<1> SUFFICES ASSUME Init PROVE TypeOK
  OBVIOUS
<1>1. /\ inbuf \in [Workers -> Seq(Rpc)]
      /\ outbuf \in [Workers -> Seq(Reply)]
  BY DEF Init
<1>2. /\ held \in [Workers -> Rpc]
      /\ sent \in [Workers -> Rpc]
      /\ got \in [Workers -> Reply]
  BY EmptyType DEF Init
<1>3. kills \in 0..MaxKills
  BY DEF Init
<1>4. QED
  BY <1>1, <1>2, <1>3 DEF Init, TypeOK

(* Every step keeps TypeOK.                                                *)
LEMMA TypeStep == TypeOK /\ [Next]_vars => TypeOK'
<1> USE NFHAssumption
<1> SUFFICES ASSUME TypeOK, [Next]_vars PROVE TypeOK'
  OBVIOUS
<1> USE DEF handlerVars, childVars, envVars
<1>1. ASSUME NEW w \in Workers, NEW f \in BoundNames, GuestCall(w, f)
      PROVE  TypeOK'
  <2>1. NativeFieldsToProto(w, f) \in Rpc
    BY NativeFieldsToProtoType
  <2>2. got' \in [Workers -> Reply]
    BY <1>1, EmptyType DEF GuestCall, TypeOK
  <2>3. sent' \in [Workers -> Rpc]
    BY <1>1, <2>1 DEF GuestCall, TypeOK
  <2>4. CASE terminated
    BY <1>1, <2>2, <2>3, <2>4 DEF GuestCall, TypeOK
  <2>5. CASE ~terminated
    <3>1. inbuf' \in [Workers -> Seq(Rpc)]
      <4>1. Append(inbuf[w], NativeFieldsToProto(w, f)) \in Seq(Rpc)
        BY <2>1, AppendType DEF TypeOK
      <4>2. QED
        BY <1>1, <2>5, <4>1 DEF GuestCall, TypeOK
    <3>2. QED
      BY <1>1, <2>2, <2>3, <2>5, <3>1 DEF GuestCall, TypeOK
  <2>6. QED
    BY <2>4, <2>5
<1>2. ASSUME NEW w \in Workers, StubReceive(w) PROVE TypeOK'
  BY <1>2 DEF StubReceive, TypeOK
<1>3. ASSUME NEW w \in Workers, StubRecvFail(w) PROVE TypeOK'
  BY <1>3 DEF StubRecvFail, TypeOK
<1>4. ASSUME NEW w \in Workers, ListenerRecv(w) PROVE TypeOK'
  <2>1. inbuf' \in [Workers -> Seq(Rpc)]
    BY <1>4 DEF ListenerRecv, TypeOK
  <2>2. CASE stop
    BY <1>4, <2>1, <2>2 DEF ListenerRecv, TypeOK
  <2>3. CASE ~stop
    <3>1. held' \in [Workers -> Rpc]
      <4>1. inbuf[w] # <<>> /\ inbuf[w] \in Seq(Rpc)
        BY <1>4 DEF ListenerRecv, TypeOK
      <4>2. Head(inbuf[w]) \in Rpc
        BY <4>1
      <4>3. QED
        BY <1>4, <2>3, <4>2 DEF ListenerRecv, TypeOK
    <3>2. QED
      BY <1>4, <2>1, <2>3, <3>1 DEF ListenerRecv, TypeOK
  <2>4. QED
    BY <2>2, <2>3
<1>5. ASSUME NEW w \in Workers, ListenerHandle(w) PROVE TypeOK'
  <2>1. PICK callOk \in BOOLEAN :
          outbuf' = [outbuf EXCEPT ![w] =
            Append(@, [fn |-> held[w].fn, uuid |-> held[w].uuid,
                       err |-> HandleError(held[w], callOk),
                       data |-> IF HandleError(held[w], callOk) = "none"
                                  THEN held[w].uuid ELSE NoUuid])]
    BY <1>5 DEF ListenerHandle
  <2>2. [fn |-> held[w].fn, uuid |-> held[w].uuid,
         err |-> HandleError(held[w], callOk),
         data |-> IF HandleError(held[w], callOk) = "none"
                    THEN held[w].uuid ELSE NoUuid] \in Reply
    BY HandleErrorType, ReplyType DEF TypeOK
  <2>3. outbuf' \in [Workers -> Seq(Reply)]
    BY <2>1, <2>2 DEF TypeOK
  <2>4. QED
    BY <1>5, <2>3, EmptyType DEF ListenerHandle, TypeOK
<1>6. CASE StopSetFlag
  BY <1>6 DEF StopSetFlag, TypeOK
<1>7. ASSUME NEW w \in Workers, StopSendSentinel(w) PROVE TypeOK'
  BY <1>7, EmptyType DEF StopSendSentinel, TypeOK
<1>8. CASE StopJoin
  BY <1>8 DEF StopJoin, TypeOK
<1>9. ASSUME NEW w \in Workers, NEW u \in Uuids, StartInvocation(w, u)
      PROVE  TypeOK'
  BY <1>9 DEF StartInvocation, AddIds, TypeOK
<1>10. ASSUME NEW w \in Workers, FinishInvocation(w) PROVE TypeOK'
  BY <1>10 DEF FinishInvocation, TypeOK
<1>11. ASSUME NEW w \in Workers, KillWorker(w) PROVE TypeOK'
  BY <1>11, EmptyType DEF KillWorker, TypeOK
<1>12. CASE Finished \/ UNCHANGED vars
  BY <1>12 DEF Finished, vars, handlerVars, childVars, envVars, TypeOK
<1>13. QED
  BY <1>1, <1>2, <1>3, <1>4, <1>5, <1>6, <1>7, <1>8, <1>9, <1>10, <1>11,
     <1>12 DEF Next
(* Every component of the state keeps its type: the channels carry         *)
(* well-formed wrappers and replies, and no more than MaxKills workers are *)
(* ever killed.                                                            *)
THEOREM TypeCorrect == Spec => []TypeOK
BY TypeInit, TypeStep, PTL DEF Spec

-----------------------------------------------------------------------------
(* Replies reach the call that asked for them (no worker killed).          *)

(* Channel w holds at most one request or reply of worker w's pending      *)
(* call, and it is that call's: every reply waiting for the child answers  *)
(* the stub's current request, the listener only handles that request, and *)
(* before stop_ is set every frame from the child is that request.  After  *)
(* stop_ the frames still to be received are never handled.                *)
ChannelInv(w) ==
    /\ \A i \in 1..Len(outbuf[w]) :
         /\ stub[w] = "waiting"
         /\ outbuf[w][i].fn = sent[w].fn
         /\ outbuf[w][i].uuid = sent[w].uuid
    /\ lst[w] = "handle" => stub[w] = "waiting" /\ held[w] = sent[w]
    /\ ~stop => \A i \in 1..Len(inbuf[w]) :
                  stub[w] = "waiting" /\ inbuf[w][i] = sent[w]
    /\ Len(outbuf[w]) <= 1
    /\ lst[w] = "handle" => Len(outbuf[w]) = 0 /\ (~stop => Len(inbuf[w]) = 0)
    /\ ~stop => Len(outbuf[w]) + Len(inbuf[w]) <= 1

(* The inductive invariant behind GuestGetsOwnReply.                       *)
IInv ==
    /\ TypeOK
    /\ kills = 0
    /\ terminated => stop /\ \A w \in Workers : lst[w] = "exited"
    /\ \A w \in Workers : ChannelInv(w)
    /\ GuestGetsOwnReply

(* In the initial state every channel is empty and no call was made.       *)
LEMMA IInvInit == Init => IInv
<1> SUFFICES ASSUME Init PROVE IInv
  OBVIOUS
<1>1. TypeOK
  BY TypeInit
<1>2. \A w \in Workers : ChannelInv(w)
  BY DEF Init, ChannelInv
<1>3. GuestGetsOwnReply
  BY DEF Init, GuestGetsOwnReply
<1>4. QED
  BY <1>1, <1>2, <1>3 DEF Init, IInv

(* A finite sequence is empty exactly when its length is 0.               *)
LEMMA EmptySeqLen ==
    ASSUME NEW S, NEW s \in Seq(S)
    PROVE  /\ Len(s) \in Nat
           /\ s = <<>> <=> Len(s) = 0
OBVIOUS

(* ChannelInv(v) only reads channel v, listener v, stub v and stop_.       *)
LEMMA ChannelInvFrame ==
    ASSUME NEW v, ChannelInv(v),
           inbuf'[v] = inbuf[v], outbuf'[v] = outbuf[v], lst'[v] = lst[v],
           held'[v] = held[v], stop' = stop, stub'[v] = stub[v],
           sent'[v] = sent[v]
    PROVE  ChannelInv(v)'
BY DEF ChannelInv

(* What ChannelInv says of an idle stub: nothing of its own is on the      *)
(* channel or in the listener's hands.                                     *)
LEMMA IdleChannel ==
    ASSUME TypeOK, NEW w \in Workers, ChannelInv(w), stub[w] = "idle"
    PROVE  /\ outbuf[w] = <<>>
           /\ lst[w] # "handle"
           /\ ~stop => inbuf[w] = <<>>
BY DEF ChannelInv, TypeOK

(* The counting part of ChannelInv, over the two channel lengths no and ni *)
(* of a worker, whether its listener handles (h) and whether stop_ is set. *)
LEMMA PendingArith ==
    ASSUME NEW no \in Nat, NEW ni \in Nat, NEW h \in BOOLEAN,
           NEW st \in BOOLEAN,
           no <= 1, h => no = 0 /\ (~st => ni = 0), ~st => no + ni <= 1
    PROVE  /\ no # 0 => no = 1 /\ ~h /\ (~st => ni = 0)
           /\ (~st /\ ni # 0) => ni = 1 /\ no = 0 /\ ~h
OBVIOUS

(* The counting conjuncts of ChannelInv(w), with the lengths named.         *)
LEMMA ChannelCount ==
    ASSUME TypeOK, NEW w \in Workers, ChannelInv(w)
    PROVE  LET no == Len(outbuf[w])
               ni == Len(inbuf[w])
           IN  /\ no \in Nat /\ ni \in Nat
               /\ outbuf[w] = <<>> <=> no = 0
               /\ inbuf[w] = <<>> <=> ni = 0
               /\ no # 0 => no = 1 /\ lst[w] # "handle" /\ (~stop => ni = 0)
               /\ (~stop /\ ni # 0) => ni = 1 /\ no = 0 /\ lst[w] # "handle"
<1> DEFINE no == Len(outbuf[w])
           ni == Len(inbuf[w])
<1>1. outbuf[w] \in Seq(Reply) /\ inbuf[w] \in Seq(Rpc) /\ stop \in BOOLEAN
  BY DEF TypeOK
<1>2. /\ no \in Nat /\ ni \in Nat
      /\ outbuf[w] = <<>> <=> no = 0
      /\ inbuf[w] = <<>> <=> ni = 0
  BY <1>1, EmptySeqLen
<1>3. /\ no <= 1
      /\ lst[w] = "handle" => no = 0 /\ (~stop => ni = 0)
      /\ ~stop => no + ni <= 1
  BY DEF ChannelInv
<1>4. /\ no # 0 => no = 1 /\ lst[w] # "handle" /\ (~stop => ni = 0)
      /\ (~stop /\ ni # 0) => ni = 1 /\ no = 0 /\ lst[w] # "handle"
  BY <1>1, <1>2, <1>3, PendingArith
<1>5. QED
  BY <1>2, <1>4

(* What ChannelInv says of a non-empty reply channel: it holds exactly one *)
(* reply, the stub waits, and nothing else of it is pending.               *)
LEMMA ReplyPending ==
    ASSUME TypeOK, NEW w \in Workers, ChannelInv(w), outbuf[w] # <<>>
    PROVE  /\ Len(outbuf[w]) = 1
           /\ stub[w] = "waiting"
           /\ outbuf[w][1].fn = sent[w].fn
           /\ outbuf[w][1].uuid = sent[w].uuid
           /\ lst[w] # "handle"
           /\ ~stop => inbuf[w] = <<>>
<1>1. /\ Len(outbuf[w]) = 1
      /\ lst[w] # "handle"
      /\ ~stop => inbuf[w] = <<>>
  BY ChannelCount
<1>2. 1 \in 1..Len(outbuf[w])
  BY <1>1
<1>3. /\ stub[w] = "waiting"
      /\ outbuf[w][1].fn = sent[w].fn
      /\ outbuf[w][1].uuid = sent[w].uuid
  BY <1>2 DEF ChannelInv
<1>4. QED
  BY <1>1, <1>3

(* A one-element sequence: its head is its element, its tail is empty.   *)
LEMMA SingletonSeq ==
    ASSUME NEW S, NEW s \in Seq(S), Len(s) = 1
    PROVE  Head(s) = s[1] /\ Tail(s) = <<>> /\ s = <<s[1]>>
<1>1. Head(s) = s[1]
  OBVIOUS
<1>2. Tail(s) \in Seq(S) /\ Len(Tail(s)) = 0
  BY HeadTailProperties
<1>3. Tail(s) = <<>>
  BY <1>2, EmptySeqLen
<1>4. s = <<s[1]>>
  BY SeqEqual, ElementOfSeq
<1>5. QED
  BY <1>1, <1>3, <1>4

(* What ChannelInv says of a request received while stop_ is clear: it is  *)
(* the only frame on the channel, it is the stub's wrapper, and no reply   *)
(* is pending.                                                             *)
LEMMA RequestPending ==
    ASSUME TypeOK, NEW w \in Workers, ChannelInv(w), inbuf[w] # <<>>, ~stop
    PROVE  /\ Len(inbuf[w]) = 1
           /\ outbuf[w] = <<>>
           /\ lst[w] # "handle"
           /\ stub[w] = "waiting"
           /\ inbuf[w][1] = sent[w]
<1>1. /\ Len(inbuf[w]) = 1
      /\ outbuf[w] = <<>>
      /\ lst[w] # "handle"
  BY ChannelCount
<1>2. 1 \in 1..Len(inbuf[w])
  BY <1>1
<1>3. stub[w] = "waiting" /\ inbuf[w][1] = sent[w]
  BY <1>2 DEF ChannelInv
<1>4. QED
  BY <1>1, <1>3

(* What ChannelInv says while the listener handles a wrapper: it is the    *)
(* stub's, the stub waits, and nothing else of it is on either channel.    *)
LEMMA HandlePending ==
    ASSUME TypeOK, NEW w \in Workers, ChannelInv(w), lst[w] = "handle"
    PROVE  /\ stub[w] = "waiting"
           /\ held[w] = sent[w]
           /\ outbuf[w] = <<>>
           /\ ~stop => inbuf[w] = <<>>
<1>1. outbuf[w] = <<>> /\ (~stop => inbuf[w] = <<>>)
  BY ChannelCount
<1>2. stub[w] = "waiting" /\ held[w] = sent[w]
  BY DEF ChannelInv
<1>3. QED
  BY <1>1, <1>2

(* With no worker ever killed, every step keeps IInv.                      *)
LEMMA IInvStep ==
    ASSUME MaxKills = 0
    PROVE  IInv /\ [Next]_vars => IInv'
<1> SUFFICES ASSUME IInv, [Next]_vars PROVE IInv'
  OBVIOUS
<1> USE DEF handlerVars, childVars, envVars
<1>0. TypeOK /\ TypeOK'
  BY TypeStep DEF IInv
<1>1. ASSUME NEW w \in Workers, NEW f \in BoundNames, GuestCall(w, f)
      PROVE  IInv'
  <2> DEFINE r == NativeFieldsToProto(w, f)
  <2>1. /\ outbuf[w] = <<>>
        /\ lst[w] # "handle"
        /\ ~stop => inbuf[w] = <<>>
    BY <1>0, <1>1, IdleChannel DEF IInv, GuestCall
  <2>2. ASSUME NEW v \in Workers PROVE ChannelInv(v)'
    <3>1. CASE v # w
      BY <1>0, <1>1, <3>1, ChannelInvFrame DEF IInv, GuestCall, TypeOK
    <3>2. CASE v = w /\ terminated
      BY <1>0, <1>1, <2>1, <3>2 DEF IInv, GuestCall, ChannelInv, TypeOK
    <3>3. CASE v = w /\ ~terminated /\ stop
      BY <1>0, <1>1, <2>1, <3>3 DEF IInv, GuestCall, ChannelInv, TypeOK
    <3>4. CASE v = w /\ ~terminated /\ ~stop
      <4>1. inbuf'[w] = <<r>> /\ sent'[w] = r /\ stub'[w] = "waiting"
        BY <1>0, <1>1, <2>1, <3>4 DEF GuestCall, TypeOK
      <4>2. QED
        BY <1>0, <1>1, <2>1, <3>4, <4>1 DEF GuestCall, ChannelInv, TypeOK
    <3>5. QED
      BY <3>1, <3>2, <3>3, <3>4
  <2>3. GuestGetsOwnReply'
    BY <1>0, <1>1 DEF IInv, GuestCall, GuestGetsOwnReply, TypeOK
  <2>4. QED
    BY <1>0, <1>1, <2>2, <2>3 DEF IInv, GuestCall
<1>2. ASSUME NEW w \in Workers, StubReceive(w) PROVE IInv'
  <2>1. /\ Len(outbuf[w]) = 1
        /\ stub[w] = "waiting"
        /\ outbuf[w][1].fn = sent[w].fn
        /\ outbuf[w][1].uuid = sent[w].uuid
        /\ lst[w] # "handle"
        /\ ~stop => inbuf[w] = <<>>
    BY <1>0, <1>2, ReplyPending DEF IInv, StubReceive
  <2>2. outbuf'[w] = <<>> /\ got'[w] = outbuf[w][1]
    <3>1. outbuf[w] \in Seq(Reply)
      BY <1>0 DEF TypeOK
    <3>2. Head(outbuf[w]) = outbuf[w][1] /\ Tail(outbuf[w]) = <<>>
      BY <2>1, <3>1, SingletonSeq
    <3>3. QED
      BY <1>0, <1>2, <3>2 DEF StubReceive, TypeOK
  <2>3. ASSUME NEW v \in Workers PROVE ChannelInv(v)'
    <3>1. CASE v # w
      BY <1>0, <1>2, <3>1, ChannelInvFrame DEF IInv, StubReceive, TypeOK
    <3>2. CASE v = w
      BY <1>0, <1>2, <2>1, <2>2, <3>2 DEF StubReceive, ChannelInv, TypeOK
    <3>3. QED
      BY <3>1, <3>2
  <2>4. GuestGetsOwnReply'
    BY <1>0, <1>2, <2>1, <2>2 DEF IInv, StubReceive, GuestGetsOwnReply, TypeOK
  <2>5. QED
    BY <1>0, <1>2, <2>3, <2>4 DEF IInv, StubReceive
<1>3. ASSUME NEW w \in Workers, StubRecvFail(w) PROVE IInv'
  BY <1>0, <1>3 DEF IInv, StubRecvFail, ChannelInv, GuestGetsOwnReply, TypeOK
<1>4. ASSUME NEW w \in Workers, ListenerRecv(w) PROVE IInv'
  <2>1. ~terminated
    BY <1>4 DEF IInv, ListenerRecv
  <2>2. ASSUME NEW v \in Workers PROVE ChannelInv(v)'
    <3>1. CASE v # w
      BY <1>0, <1>4, <3>1, ChannelInvFrame DEF IInv, ListenerRecv, TypeOK
    <3>2. CASE v = w /\ stop
      BY <1>0, <1>4, <3>2 DEF IInv, ListenerRecv, ChannelInv, TypeOK
    <3>3. CASE v = w /\ ~stop
      <4>1. /\ Len(inbuf[w]) = 1
            /\ outbuf[w] = <<>>
            /\ stub[w] = "waiting"
            /\ Head(inbuf[w]) = sent[w]
        <5>1. /\ Len(inbuf[w]) = 1
              /\ outbuf[w] = <<>>
              /\ stub[w] = "waiting"
              /\ inbuf[w][1] = sent[w]
          BY <1>0, <1>4, <3>3, RequestPending DEF IInv, ListenerRecv
        <5>2. inbuf[w] \in Seq(Rpc)
          BY <1>0 DEF TypeOK
        <5>3. QED
          BY <5>1, <5>2, SingletonSeq
      <4>2. /\ inbuf'[w] = <<>>
            /\ held'[w] = sent[w]
            /\ lst'[w] = "handle"
        <5>1. inbuf[w] \in Seq(Rpc)
          BY <1>0 DEF TypeOK
        <5>2. Tail(inbuf[w]) = <<>>
          BY <4>1, <5>1, SingletonSeq
        <5>3. QED
          BY <1>0, <1>4, <3>3, <4>1, <5>2 DEF ListenerRecv, TypeOK
      <4>3. /\ outbuf'[w] = <<>>
            /\ stub'[w] = "waiting"
            /\ sent'[w] = sent[w]
            /\ ~stop'
        BY <1>4, <3>3, <4>1 DEF ListenerRecv
      <4>4. QED
        BY <3>3, <4>2, <4>3 DEF ChannelInv
    <3>4. QED
      BY <3>1, <3>2, <3>3
  <2>3. QED
    BY <1>0, <1>4, <2>1, <2>2 DEF IInv, ListenerRecv, GuestGetsOwnReply
<1>5. ASSUME NEW w \in Workers, ListenerHandle(w) PROVE IInv'
  <2>1. /\ stub[w] = "waiting"
        /\ held[w] = sent[w]
        /\ outbuf[w] = <<>>
        /\ ~stop => inbuf[w] = <<>>
        /\ ~terminated
    <3>1. ~terminated
      BY <1>5 DEF IInv, ListenerHandle
    <3>2. QED
      BY <1>0, <1>5, <3>1, HandlePending DEF IInv, ListenerHandle
  <2>2. PICK callOk \in BOOLEAN :
          outbuf'[w] = <<[fn |-> held[w].fn, uuid |-> held[w].uuid,
                          err |-> HandleError(held[w], callOk),
                          data |-> IF HandleError(held[w], callOk) = "none"
                                     THEN held[w].uuid ELSE NoUuid]>>
    BY <1>0, <1>5, <2>1 DEF ListenerHandle, TypeOK
  <2>3. ASSUME NEW v \in Workers PROVE ChannelInv(v)'
    <3>1. CASE v # w
      BY <1>0, <1>5, <3>1, ChannelInvFrame DEF IInv, ListenerHandle, TypeOK
    <3>2. CASE v = w
      BY <1>0, <1>5, <2>1, <2>2, <3>2 DEF ListenerHandle, ChannelInv, TypeOK
    <3>3. QED
      BY <3>1, <3>2
  <2>4. QED
    BY <1>0, <1>5, <2>1, <2>3 DEF IInv, ListenerHandle, GuestGetsOwnReply
<1>6. CASE StopSetFlag
  BY <1>0, <1>6 DEF IInv, StopSetFlag, ChannelInv, GuestGetsOwnReply, TypeOK
<1>7. ASSUME NEW w \in Workers, StopSendSentinel(w) PROVE IInv'
  BY <1>0, <1>7 DEF IInv, StopSendSentinel, ChannelInv, GuestGetsOwnReply, TypeOK
<1>8. CASE StopJoin
  BY <1>0, <1>8 DEF IInv, StopJoin, ChannelInv, GuestGetsOwnReply, TypeOK
<1>9. ASSUME NEW w \in Workers, NEW u \in Uuids, StartInvocation(w, u)
      PROVE  IInv'
  <2>1. \A v \in Workers : ChannelInv(v)'
    BY <1>0, <1>9, ChannelInvFrame DEF IInv, StartInvocation
  <2>2. QED
    BY <1>0, <1>9, <2>1 DEF IInv, StartInvocation, GuestGetsOwnReply
<1>10. ASSUME NEW w \in Workers, FinishInvocation(w) PROVE IInv'
  <2>1. \A v \in Workers : ChannelInv(v)'
    BY <1>0, <1>10, ChannelInvFrame DEF IInv, FinishInvocation
  <2>2. QED
    BY <1>0, <1>10, <2>1 DEF IInv, FinishInvocation, GuestGetsOwnReply
<1>11. ASSUME NEW w \in Workers, KillWorker(w) PROVE FALSE
  BY <1>11 DEF IInv, KillWorker, TypeOK
<1>12. CASE Finished \/ UNCHANGED vars
  <2>1. \A v \in Workers : ChannelInv(v)'
    BY <1>0, <1>12, ChannelInvFrame DEF IInv, Finished, vars
  <2>2. QED
    BY <1>0, <1>12, <2>1 DEF IInv, Finished, vars, GuestGetsOwnReply
<1>13. QED
  BY <1>1, <1>2, <1>3, <1>4, <1>5, <1>6, <1>7, <1>8, <1>9, <1>10, <1>11,
     <1>12 DEF Next

(* With no worker killed, a guest callback only ever returns the wrapper   *)
(* that answers its own request (GlobalV8FunctionCallback hands the guest  *)
(* whatever Invoke received): the stop_ check before handling keeps        *)
(* Stop()'s sentinel from ever being answered, and the one-listener-per-   *)
(* channel loop answers each request exactly once.                         *)
THEOREM RepliesMatchCalls ==
    ASSUME MaxKills = 0
    PROVE  Spec => []GuestGetsOwnReply
<1>1. Init => IInv
  BY IInvInit
<1>2. IInv /\ [Next]_vars => IInv'
  BY IInvStep
<1>3. IInv => GuestGetsOwnReply
  BY DEF IInv
<1>4. QED
  BY <1>1, <1>2, <1>3, PTL DEF Spec

-----------------------------------------------------------------------------
(* A listener always finds the metadata of the request it handles (no      *)
(* worker killed).                                                         *)

(* The dispatcher's bookkeeping, seen from a worker: a running request has *)
(* metadata and no other worker runs it, metadata exists only for uuids    *)
(* handed out, the binding's recorded uuid (AddIds) is the running one,    *)
(* and a blocked stub's wrapper carries no uuid or the running one.        *)
MetaInv ==
    /\ meta \subseteq used
    /\ \A w \in Workers :
         /\ running[w] # NoUuid => running[w] \in meta
         /\ running[w] # NoUuid /\ BoundNames # {} => cur[w] = running[w]
         /\ stub[w] = "waiting" /\ sent[w].uuid # NoUuid =>
              sent[w].uuid = running[w]
    /\ \A v, w \in Workers :
         v # w /\ running[v] # NoUuid => running[v] # running[w]

LEMMA MetaInvInit == Init => MetaInv
BY DEF Init, MetaInv

(* Every step keeps MetaInv, kills included: a worker's request is fresh   *)
(* when it starts, keeps its metadata until it finishes or dies, and a     *)
(* stub only sends the uuid AddIds recorded for the running request.       *)
LEMMA MetaInvStep == TypeOK /\ MetaInv /\ [Next]_vars => MetaInv'
<1> SUFFICES ASSUME TypeOK, MetaInv, [Next]_vars PROVE MetaInv'
  OBVIOUS
<1> USE DEF handlerVars, childVars, envVars
<1>1. ASSUME NEW w \in Workers, NEW f \in BoundNames, GuestCall(w, f)
      PROVE  MetaInv'
  <2>1. NativeFieldsToProto(w, f).uuid # NoUuid =>
          NativeFieldsToProto(w, f).uuid = running[w]
    BY <1>1 DEF GuestCall, NativeFieldsToProto, EmptyRpc, MetaInv
  <2>2. stub'[w] = "waiting" => sent'[w] = NativeFieldsToProto(w, f)
    BY <1>1 DEF GuestCall, TypeOK
  <2>3. QED
    BY <1>1, <2>1, <2>2 DEF GuestCall, MetaInv, TypeOK
<1>2. ASSUME NEW w \in Workers, StubReceive(w) PROVE MetaInv'
  BY <1>2 DEF StubReceive, MetaInv, TypeOK
<1>3. ASSUME NEW w \in Workers, StubRecvFail(w) PROVE MetaInv'
  BY <1>3 DEF StubRecvFail, MetaInv, TypeOK
<1>4. ASSUME NEW w \in Workers, NEW u \in Uuids, StartInvocation(w, u)
      PROVE  MetaInv'
  <2>1. \A v \in Workers : running[v] # u
    BY <1>4, NFHAssumption DEF StartInvocation, MetaInv
  <2>2. stub[w] = "waiting" => sent[w].uuid = NoUuid
    BY <1>4 DEF StartInvocation, MetaInv
  <2>3. QED
    BY <1>4, <2>1, <2>2 DEF StartInvocation, AddIds, MetaInv, TypeOK
<1>5. ASSUME NEW w \in Workers, FinishInvocation(w) PROVE MetaInv'
  BY <1>5 DEF FinishInvocation, MetaInv, TypeOK
<1>6. ASSUME NEW w \in Workers, KillWorker(w) PROVE MetaInv'
  BY <1>6 DEF KillWorker, MetaInv, TypeOK
<1>7. CASE UNCHANGED <<meta, used, running, cur, stub, sent>>
  BY <1>7 DEF MetaInv
<1>8. QED
  <2>1. CASE \/ \E w \in Workers : ListenerRecv(w)
             \/ \E w \in Workers : ListenerHandle(w)
             \/ StopSetFlag
             \/ \E w \in Workers : StopSendSentinel(w)
             \/ StopJoin
             \/ Finished \/ UNCHANGED vars
    BY <2>1, <1>7 DEF ListenerRecv, ListenerHandle, StopSetFlag,
                      StopSendSentinel, StopJoin, Finished, vars
  <2>2. QED
    BY <1>1, <1>2, <1>3, <1>4, <1>5, <1>6, <2>1 DEF Next

(* With no worker killed, a listener that handles a wrapper carrying a     *)
(* request uuid finds that request's metadata: the ScopedValueReader in    *)
(* NativeFunctionHandlerSapiIpc's loop never fails for a live call.  (The  *)
(* wrapper it handles is the blocked stub's, by ChannelInv, and the stub's *)
(* uuid is the running request's, by MetaInv.)                             *)
THEOREM MetadataFound ==
    ASSUME MaxKills = 0
    PROVE  Spec => []HandlerFindsMetadata
<1>1. Init => IInv /\ MetaInv
  BY IInvInit, MetaInvInit
<1>2. IInv /\ MetaInv /\ [Next]_vars => IInv' /\ MetaInv'
  BY IInvStep, MetaInvStep DEF IInv
<1>3. IInv /\ MetaInv => HandlerFindsMetadata
  <2> SUFFICES ASSUME IInv, MetaInv, NEW w \in Workers, lst[w] = "handle",
                      held[w].uuid # NoUuid
               PROVE  held[w].uuid \in meta
    BY DEF HandlerFindsMetadata
  <2>1. stub[w] = "waiting" /\ held[w] = sent[w]
    BY HandlePending DEF IInv
  <2>2. held[w].uuid = running[w] /\ running[w] # NoUuid
    BY <2>1 DEF MetaInv
  <2>3. QED
    BY <2>2 DEF MetaInv
<1>4. QED
  BY <1>1, <1>2, <1>3, PTL DEF Spec

=============================================================================
