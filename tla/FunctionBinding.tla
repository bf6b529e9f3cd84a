--------------------------- MODULE FunctionBinding ---------------------------
(***************************************************************************)
(* One guest call of a host function, at the level of the values it        *)
(* carries: src/roma/sandbox/js_engine/v8_engine/                          *)
(* v8_isolate_function_binding.cc.  BindFunctions installs one stub per    *)
(* name of binding_references_; a guest call of a stub runs                *)
(* GlobalV8FunctionCallback on the worker's only thread: V8TypesToProto    *)
(* converts the arguments into the input of a FunctionBindingIoProto,      *)
(* NativeFieldsToProto names the RpcWrapper, function_invoker_->Invoke     *)
(* sends it to the parent and receives the answer, and the callback throws *)
(* or sets the return value from ProtoToV8Type of the output.  The parent's *)
(* listener (native_function_handler_sapi_ipc.h) answers with the function *)
(* table's output or with an error appended.                               *)
(*                                                                         *)
(* Guest values are records tagged by their JavaScript type; strings,      *)
(* map keys and bytes are drawn from small sets.  The request uuid and the *)
(* channel are left to NativeFunctionHandler; here the metadata of the     *)
(* running request exists (spec.md invariant (a)) and one call is in       *)
(* flight at a time (the guest thread blocks in Invoke).                   *)
(***************************************************************************)
EXTENDS Naturals, Sequences

CONSTANTS
    FunctionNames,  \* the function_names the binding is constructed with
    EmptyName,      \* the empty function name ""
    EchoNames,      \* table functions that copy their input to their output
    FailNames,      \* table functions that return a failure status
    Strings,        \* string values
    Keys,           \* keys of map values
    Bytes,          \* byte values
    NonString,      \* an array element that is not a string (a number)
    MaxLen,         \* longest array, map or byte buffer explored
    MaxArgs         \* most arguments of one guest call explored

ASSUME FBAssumption ==
    /\ EmptyName \notin EchoNames \cup FailNames
    /\ EchoNames \cap FailNames = {}
    /\ NonString \notin Strings
    /\ MaxLen \in Nat
    /\ MaxArgs \in Nat

Seqs(S) == UNION {[1..n -> S] : n \in 0..MaxLen}
Maps == UNION {[K -> Strings] : K \in SUBSET Keys}

(* Guest values: a string, an Array, a Map, a Uint8Array, a number, and   *)
(* the undefined value.                                                    *)
JsString == [t : {"string"}, s : Strings]
JsArray == [t : {"array"}, a : Seqs(Strings \cup {NonString})]
JsMap == [t : {"map"}, m : Maps]
JsBytes == [t : {"u8"}, b : Seqs(Bytes)]
JsNumber == [t : {"number"}]
Undefined == [t |-> "undefined"]
JsValues == JsString \cup JsArray \cup JsMap \cup JsBytes \cup JsNumber
ArgLists == UNION {[1..n -> JsValues] : n \in 0..MaxArgs}

(* One side (input or output) of FunctionBindingIoProto: a oneof over      *)
(* string, list of strings, map of string to string and bytes, or unset.   *)
NoPayload == [c |-> "none"]
Payloads ==
    {NoPayload} \cup [c : {"string"}, s : Strings]
    \cup [c : {"list"}, l : Seqs(Strings)] \cup [c : {"map"}, m : Maps]
    \cup [c : {"bytes"}, b : Seqs(Bytes)]

(* Exception messages of the binding and error strings of the listener.   *)
GuestErrors == {"kCouldNotConvertJsFunctionInputToNative",
                "kCouldNotRunFunctionBinding",
                "kErrorInFunctionBindingInvocation"}
HostErrors == {"kCouldNotFindFunctionName", "kFailedNativeHandlerExecution"}

IoProtos == [in : Payloads, out : Payloads, errors : Seq(HostErrors)]
EmptyIo == [in |-> NoPayload, out |-> NoPayload, errors |-> <<>>]
Wrappers == [fn : FunctionNames \cup {EmptyName}, io : IoProtos]
EmptyWrapper == [fn |-> EmptyName, io |-> EmptyIo]

Outcomes ==
    {[k |-> "none"]} \cup [k : {"value"}, v : JsValues \cup {Undefined}]
    \cup [k : {"throw"}, msg : GuestErrors]

VARIABLES
    pc,        \* "idle", "sent" (blocked in Invoke), "replied", "done"
    fn,        \* the function name of the stub the guest called
    args,      \* the arguments of the call
    thrown,    \* messages the callback has passed to isolate->ThrowError
    sent,      \* the RpcWrapper handed to Invoke
    invokeOk,  \* the status Invoke returned
    reply,     \* the RpcWrapper after Invoke (the parent's answer)
    outcome    \* what the guest call evaluates to

vars == <<pc, fn, args, thrown, sent, invokeOk, reply, outcome>>

TypeOK ==
    /\ pc \in {"idle", "sent", "replied", "done"}
    /\ fn \in FunctionNames \cup {EmptyName}
    /\ args \in ArgLists
    /\ thrown \in SUBSET GuestErrors
    /\ sent \in Wrappers
    /\ invokeOk \in BOOLEAN
    /\ reply \in Wrappers
    /\ outcome \in Outcomes

(* The constructor: one Binding per function name, all sharing the        *)
(* instance.                                                               *)
BindingReferences == {[function_name |-> n] : n \in FunctionNames}

(* BindFunctions: a stub on the global object template for each entry of  *)
(* binding_references_, with the entry as the callback's data.             *)
Stubs == {b.function_name : b \in BindingReferences}

Init ==
    /\ pc = "idle"
    /\ fn = EmptyName
    /\ args = <<>>
    /\ thrown = {}
    /\ sent = EmptyWrapper
    /\ invokeOk = TRUE
    /\ reply = EmptyWrapper
    /\ outcome = [k |-> "none"]

(* Variant of V8TypesToProto without the check that at most one argument  *)
(* was passed.                                                             *)
V8TypesToProtoAnyArity(argList) ==
    IF Len(argList) = 0 THEN [ok |-> TRUE, in |-> NoPayload]
    ELSE LET v == argList[1] IN
         CASE v.t = "string" -> [ok |-> TRUE, in |-> [c |-> "string", s |-> v.s]]
           [] v.t = "array" /\ \A i \in DOMAIN v.a : v.a[i] \in Strings ->
                  [ok |-> TRUE, in |-> [c |-> "list", l |-> v.a]]
           [] v.t = "map" ->
                  [ok |-> TRUE, in |-> IF DOMAIN v.m = {} THEN NoPayload
                                       ELSE [c |-> "map", m |-> v.m]]
           [] v.t = "u8" -> [ok |-> TRUE, in |-> [c |-> "bytes", b |-> v.b]]
           [] OTHER -> [ok |-> FALSE, in |-> NoPayload]

(* V8TypesToProto: no argument leaves the input unset; more than one is    *)
(* refused; one is tried as a string, a list of strings, a map of strings  *)
(* and a Uint8Array, in that order.  A map is copied entry by entry into   *)
(* mutable_input_map_of_string(), so an empty map never selects the map    *)
(* case and leaves the input unset.                                        *)
V8TypesToProto(argList) ==
    IF Len(argList) = 0 THEN [ok |-> TRUE, in |-> NoPayload]
    ELSE IF Len(argList) > 1 THEN [ok |-> FALSE, in |-> NoPayload]
    ELSE LET v == argList[1] IN
         CASE v.t = "string" -> [ok |-> TRUE, in |-> [c |-> "string", s |-> v.s]]
           [] v.t = "array" /\ \A i \in DOMAIN v.a : v.a[i] \in Strings ->
                  [ok |-> TRUE, in |-> [c |-> "list", l |-> v.a]]
           [] v.t = "map" ->
                  [ok |-> TRUE, in |-> IF DOMAIN v.m = {} THEN NoPayload
                                       ELSE [c |-> "map", m |-> v.m]]
           [] v.t = "u8" -> [ok |-> TRUE, in |-> [c |-> "bytes", b |-> v.b]]
           [] OTHER -> [ok |-> FALSE, in |-> NoPayload]

(* ProtoToV8Type: the set output case as a guest value, else undefined.    *)
ProtoToV8Type(p) ==
    CASE p.c = "string" -> [t |-> "string", s |-> p.s]
      [] p.c = "list" -> [t |-> "array", a |-> p.l]
      [] p.c = "map" -> [t |-> "map", m |-> p.m]
      [] p.c = "bytes" -> [t |-> "u8", b |-> p.b]
      [] OTHER -> Undefined

(* NativeFieldsToProto: refuse an empty function name, leaving the        *)
(* wrapper untouched; otherwise name it and copy the io proto in.          *)
NativeFieldsToProto(f, in) ==
    IF f = EmptyName THEN [ok |-> FALSE, rpc |-> EmptyWrapper]
    ELSE [ok |-> TRUE, rpc |-> [fn |-> f, io |-> [EmptyIo EXCEPT !.in = in]]]

(* GlobalV8FunctionCallback up to Invoke.  A conversion failure throws and *)
(* returns.  A naming failure throws but, with no return after it, the     *)
(* empty wrapper is still sent.                                            *)
Call(f, argList) ==
    /\ pc \in {"idle", "done"}
    /\ fn' = f
    /\ args' = argList
    /\ LET conv == V8TypesToProto(argList)
           named == NativeFieldsToProto(f, conv.in) IN
         IF ~conv.ok
           THEN /\ thrown' = {"kCouldNotConvertJsFunctionInputToNative"}
                /\ outcome' = [k |-> "throw",
                               msg |-> "kCouldNotConvertJsFunctionInputToNative"]
                /\ pc' = "done"
                /\ sent' = EmptyWrapper
           ELSE /\ thrown' = IF named.ok THEN {}
                             ELSE {"kCouldNotRunFunctionBinding"}
                /\ sent' = named.rpc
                /\ outcome' = [k |-> "none"]
                /\ pc' = "sent"
    /\ UNCHANGED <<invokeOk, reply>>

(* NativeFunctionTable::Call: an echo function copies the input case to    *)
(* the output and succeeds; a failing function, or a name the table does   *)
(* not hold, fails.                                                        *)
TableCall(f, io) ==
    IF f \in EchoNames THEN [ok |-> TRUE, io |-> [io EXCEPT !.out = io.in]]
    ELSE [ok |-> FALSE, io |-> io]

(* The listener's handling of a received wrapper: an empty name gets       *)
(* kCouldNotFindFunctionName; otherwise the table is called and a failure  *)
(* appends kFailedNativeHandlerExecution.                                  *)
HandleIo(f, io) ==
    IF f = EmptyName
      THEN [io EXCEPT !.errors = Append(@, "kCouldNotFindFunctionName")]
      ELSE LET r == TableCall(f, io) IN
           IF r.ok THEN r.io
           ELSE [r.io EXCEPT !.errors = Append(@, "kFailedNativeHandlerExecution")]

(* Invoke: the parent answers the wrapper, or the channel fails and Invoke *)
(* returns an error status.                                                *)
Serve ==
    /\ pc = "sent"
    /\ pc' = "replied"
    /\ \/ /\ invokeOk' = TRUE
          /\ reply' = [sent EXCEPT !.io = HandleIo(sent.fn, sent.io)]
       \/ /\ invokeOk' = FALSE
          /\ reply' = sent
    /\ UNCHANGED <<fn, args, thrown, sent, outcome>>

(* The exception a call ends with, given the messages thrown.  When more   *)
(* than one was thrown the pending exception is either of them.            *)
Ends(ts, value) ==
    IF ts = {} THEN outcome' = [k |-> "value", v |-> value]
    ELSE \E m \in ts : outcome' = [k |-> "throw", msg |-> m]

(* Variant of the callback's end that skips the error-list check.          *)
ReturnNoErrorCheck ==
    /\ pc = "replied"
    /\ pc' = "done"
    /\ LET now == IF ~invokeOk THEN {"kCouldNotRunFunctionBinding"} ELSE {} IN
         /\ thrown' = thrown \cup now
         /\ Ends(thrown \cup now, ProtoToV8Type(reply.io.out))
    /\ UNCHANGED <<fn, args, sent, invokeOk, reply>>

(* GlobalV8FunctionCallback after Invoke: a failed status throws           *)
(* kCouldNotRunFunctionBinding, a non-empty error list throws              *)
(* kErrorInFunctionBindingInvocation, otherwise the return value is the    *)
(* converted output.                                                       *)
Return ==
    /\ pc = "replied"
    /\ pc' = "done"
    /\ LET now == CASE ~invokeOk -> {"kCouldNotRunFunctionBinding"}
                    [] reply.io.errors # <<>> -> {"kErrorInFunctionBindingInvocation"}
                    [] OTHER -> {} IN
         /\ thrown' = thrown \cup now
         /\ Ends(thrown \cup now, ProtoToV8Type(reply.io.out))
    /\ UNCHANGED <<fn, args, sent, invokeOk, reply>>

Next ==
    \/ \E f \in Stubs, argList \in ArgLists : Call(f, argList)
    \/ Serve
    \/ Return

Spec == Init /\ [][Next]_vars

-----------------------------------------------------------------------------
(* Properties.                                                             *)

(* The argument shapes spec.md (section 4.7) supports: none, or one       *)
(* string, list of strings, map of string to string or byte buffer.        *)
SpecSupported(argList) ==
    \/ argList = <<>>
    \/ /\ Len(argList) = 1
       /\ argList[1] \in JsString \cup [t : {"array"}, a : Seqs(Strings)]
                    \cup JsMap \cup JsBytes

(* A guest call throws the conversion error exactly when its arguments are *)
(* not of a shape the specification supports, and such a call never       *)
(* reaches the parent.                                                     *)
ConversionMatchesSpec ==
    /\ pc \in {"sent", "replied"} => SpecSupported(args)
    /\ pc = "done" =>
         (outcome = [k |-> "throw", msg |-> "kCouldNotConvertJsFunctionInputToNative"]
            <=> ~SpecSupported(args))

(* A guest call evaluates to a value only when the round trip succeeded,   *)
(* the parent appended no error and nothing was thrown before Invoke: on   *)
(* every failure path, including the empty-name one that falls through to *)
(* Invoke, the guest sees an exception.                                    *)
NoValueOnError ==
    pc = "done" /\ outcome.k = "value" =>
        /\ invokeOk
        /\ reply.io.errors = <<>>
        /\ thrown = {}

=============================================================================
