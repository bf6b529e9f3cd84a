----------------------- MODULE FunctionBindingProofs -----------------------
(* Proofs about one guest call of a host function: the conversion of its   *)
(* arguments accepts exactly the shapes the specification supports, and a  *)
(* call that ends with a value succeeded all the way, for every set of     *)
(* names, strings, keys and bytes and every bound on lengths.              *)
EXTENDS FunctionBinding, TLAPS

(* The exception V8TypesToProto's failure makes the callback throw.        *)
ConvThrow ==
    [k |-> "throw", msg |-> "kCouldNotConvertJsFunctionInputToNative"]

(* The inductive invariant of ConversionMatchesSpec: the arguments are     *)
(* guest values; a call past the conversion had arguments it accepts and   *)
(* has not thrown its error; a finished call ended with that error exactly *)
(* when the conversion refused its arguments.                              *)
CInv ==
    /\ args \in ArgLists
    /\ pc \in {"sent", "replied"} =>
         /\ V8TypesToProto(args).ok
         /\ "kCouldNotConvertJsFunctionInputToNative" \notin thrown
    /\ pc = "done" => (outcome = ConvThrow <=> ~V8TypesToProto(args).ok)

(* A function on 1..n is a sequence of length n.                           *)
LEMMA FunIsSeq ==
    ASSUME NEW S, NEW n \in Nat, NEW f \in [1..n -> S]
    PROVE  f \in Seq(S) /\ Len(f) = n
BY SMT

(* A sequence of strings and non-strings is a sequence of strings exactly  *)
(* when each of its elements is a string.                                  *)
LEMMA SeqsOfStrings ==
    ASSUME NEW s \in Seqs(Strings \cup {NonString})
    PROVE  s \in Seqs(Strings) <=> \A i \in DOMAIN s : s[i] \in Strings
<1>1. PICK n \in 0..MaxLen : s \in [1..n -> Strings \cup {NonString}]
  BY DEF Seqs
<1>2. DOMAIN s = 1..n
  BY <1>1
<1>3. ASSUME \A i \in DOMAIN s : s[i] \in Strings PROVE s \in Seqs(Strings)
  <2>1. s \in [1..n -> Strings]
    BY <1>1, <1>2, <1>3
  <2>2. QED
    BY <1>1, <2>1 DEF Seqs
<1>4. ASSUME s \in Seqs(Strings) PROVE \A i \in DOMAIN s : s[i] \in Strings
  <2>1. PICK m \in 0..MaxLen : s \in [1..m -> Strings]
    BY <1>4 DEF Seqs
  <2>2. QED
    BY <2>1
<1>5. QED
  BY <1>3, <1>4

(* V8TypesToProto accepts a list of guest values exactly when it has the   *)
(* shape the specification supports: no argument, or one string, list of  *)
(* strings, map of strings or byte buffer.                                 *)
LEMMA ConversionOk ==
    ASSUME NEW argList \in ArgLists
    PROVE  V8TypesToProto(argList).ok <=> SpecSupported(argList)
<1>1. PICK n \in 0..MaxArgs : argList \in [1..n -> JsValues]
  BY DEF ArgLists
<1>2. n \in Nat /\ argList \in Seq(JsValues) /\ Len(argList) = n
  <2>1. n \in Nat
    BY FBAssumption
  <2>2. QED
    BY <1>1, <2>1, FunIsSeq
<1>3. CASE n = 0
  <2>1. argList = <<>>
    BY <1>1, <1>3
  <2>2. QED
    BY <1>2, <2>1 DEF V8TypesToProto, SpecSupported
<1>4. CASE n > 1
  <2>1. argList # <<>>
    BY <1>2, <1>4
  <2>2. QED
    BY <1>2, <1>4, <2>1 DEF V8TypesToProto, SpecSupported
<1>5. CASE n = 1
  <2> DEFINE v == argList[1]
  <2>1. v \in JsValues
    BY <1>1, <1>5
  <2>2. argList # <<>>
    BY <1>2, <1>5
  <2>3. SpecSupported(argList) <=>
          v \in JsString \cup [t : {"array"}, a : Seqs(Strings)] \cup JsMap
                \cup JsBytes
    BY <1>2, <1>5, <2>2 DEF SpecSupported
  <2>4. CASE v \in JsString
    BY <1>2, <1>5, <2>3, <2>4 DEF V8TypesToProto, JsString
  <2>5. CASE v \in JsArray
    <3>1. v.a \in Seqs(Strings \cup {NonString}) /\ v = [t |-> "array", a |-> v.a]
      BY <2>5 DEF JsArray
    <3>2. v \in [t : {"array"}, a : Seqs(Strings)] <=>
            \A i \in DOMAIN v.a : v.a[i] \in Strings
      BY <3>1, SeqsOfStrings
    <3>3. v \notin JsString \cup JsMap \cup JsBytes
      BY <3>1 DEF JsString, JsMap, JsBytes
    <3>4. V8TypesToProto(argList).ok <=> \A i \in DOMAIN v.a : v.a[i] \in Strings
      BY <1>2, <1>5, <3>1 DEF V8TypesToProto
    <3>5. QED
      BY <2>3, <3>2, <3>3, <3>4
  <2>6. CASE v \in JsMap
    BY <1>2, <1>5, <2>3, <2>6 DEF V8TypesToProto, JsMap
  <2>7. CASE v \in JsBytes
    BY <1>2, <1>5, <2>3, <2>7 DEF V8TypesToProto, JsBytes
  <2>8. CASE v \in JsNumber
    <3>1. v.t = "number"
      BY <2>8 DEF JsNumber
    <3>2. ~SpecSupported(argList)
      BY <2>3, <3>1 DEF JsString, JsMap, JsBytes
    <3>3. QED
      BY <1>2, <1>5, <3>1, <3>2 DEF V8TypesToProto
  <2>9. QED
    BY <2>1, <2>4, <2>5, <2>6, <2>7, <2>8 DEF JsValues
<1>6. QED
  BY <1>2, <1>3, <1>4, <1>5

(* The exceptions GlobalV8FunctionCallback adds after Invoke: one for a    *)
(* failed status, one for a non-empty error list, none otherwise.          *)
LEMMA ReturnThrows ==
    ASSUME Return
    PROVE  /\ thrown \subseteq thrown'
           /\ thrown' \ thrown \subseteq {"kCouldNotRunFunctionBinding",
                                          "kErrorInFunctionBindingInvocation"}
           /\ thrown' = {} => invokeOk /\ reply.io.errors = <<>>
           /\ \/ outcome' = [k |-> "value", v |-> ProtoToV8Type(reply.io.out)]
                 /\ thrown' = {}
              \/ \E m \in thrown' : outcome' = [k |-> "throw", msg |-> m]
<1> DEFINE now == CASE ~invokeOk -> {"kCouldNotRunFunctionBinding"}
                    [] reply.io.errors # <<>> -> {"kErrorInFunctionBindingInvocation"}
                    [] OTHER -> {}
<1>1. thrown' = thrown \cup now /\ Ends(thrown \cup now, ProtoToV8Type(reply.io.out))
  BY DEF Return
<1>2. now \subseteq {"kCouldNotRunFunctionBinding",
                   "kErrorInFunctionBindingInvocation"}
  OBVIOUS
<1>3. now = {} => invokeOk /\ reply.io.errors = <<>>
  <2>1. ~invokeOk => now # {}
    OBVIOUS
  <2>2. invokeOk /\ reply.io.errors # <<>> => now # {}
    OBVIOUS
  <2>3. QED
    BY <2>1, <2>2
<1>4. \/ outcome' = [k |-> "value", v |-> ProtoToV8Type(reply.io.out)]
         /\ thrown' = {}
      \/ \E m \in thrown' : outcome' = [k |-> "throw", msg |-> m]
  BY <1>1 DEF Ends
<1>5. QED
  BY <1>1, <1>2, <1>3, <1>4

LEMMA CInvInit == Init => CInv
<1> SUFFICES ASSUME Init PROVE CInv
  OBVIOUS
<1>1. args \in ArgLists
  BY FBAssumption DEF Init, ArgLists
<1>2. QED
  BY <1>1 DEF Init, CInv

LEMMA CInvStep == CInv /\ [Next]_vars => CInv'
<1> SUFFICES ASSUME CInv, [Next]_vars PROVE CInv'
  OBVIOUS
<1>1. CASE \E f \in Stubs, a \in ArgLists : Call(f, a)
  <2>1. PICK f \in Stubs, a \in ArgLists : Call(f, a)
    BY <1>1
  <2>2. CASE ~V8TypesToProto(a).ok
    BY <2>1, <2>2 DEF Call, CInv, ConvThrow
  <2>3. CASE V8TypesToProto(a).ok
    BY <2>1, <2>3 DEF Call, CInv
  <2>4. QED
    BY <2>2, <2>3
<1>2. CASE Serve
  BY <1>2 DEF Serve, CInv
<1>3. CASE Return
  <2>1. V8TypesToProto(args).ok /\ "kCouldNotConvertJsFunctionInputToNative" \notin thrown
    BY <1>3 DEF Return, CInv
  <2>2. "kCouldNotConvertJsFunctionInputToNative" \notin thrown'
    BY <2>1, <1>3, ReturnThrows
  <2>3. outcome' # ConvThrow
    BY <2>2, <1>3, ReturnThrows DEF ConvThrow
  <2>4. QED
    BY <1>3, <2>1, <2>3 DEF Return, CInv
<1>4. CASE UNCHANGED vars
  BY <1>4 DEF vars, CInv
<1>5. QED
  BY <1>1, <1>2, <1>3, <1>4 DEF Next

(* A guest call throws kCouldNotConvertJsFunctionInputToNative exactly     *)
(* when its arguments are not of a shape spec.md supports, and a call with *)
(* such arguments never reaches Invoke: V8TypesToProto's arity check and   *)
(* its string, list, map and Uint8Array cases cover the specification,     *)
(* for every set of strings, keys and bytes and every length bound.        *)
THEOREM ConversionFaithful == Spec => []ConversionMatchesSpec
<1>1. CInv => ConversionMatchesSpec
  BY ConversionOk DEF CInv, ConversionMatchesSpec, ConvThrow
<1>2. QED
  BY <1>1, CInvInit, CInvStep, PTL DEF Spec

LEMMA NoValueStep == NoValueOnError /\ [Next]_vars => NoValueOnError'
<1> SUFFICES ASSUME NoValueOnError, [Next]_vars PROVE NoValueOnError'
  OBVIOUS
<1>1. CASE \E f \in Stubs, a \in ArgLists : Call(f, a)
  BY <1>1 DEF Call, NoValueOnError
<1>2. CASE Serve
  BY <1>2 DEF Serve, NoValueOnError
<1>3. CASE Return
  <2>1. outcome'.k = "value" => thrown' = {}
    BY <1>3, ReturnThrows
  <2>2. thrown' = {} => thrown = {}
    BY <1>3, ReturnThrows
  <2>3. QED
    BY <1>3, <2>1, <2>2, ReturnThrows DEF Return, NoValueOnError
<1>4. CASE UNCHANGED vars
  BY <1>4 DEF vars, NoValueOnError
<1>5. QED
  BY <1>1, <1>2, <1>3, <1>4 DEF Next

(* A guest call evaluates to a value only when Invoke succeeded, the       *)
(* parent appended no error and nothing was thrown before Invoke; on every *)
(* failure path of GlobalV8FunctionCallback, the empty-name one that       *)
(* falls through to Invoke included, the guest sees an exception.          *)
THEOREM ValueOnlyOnSuccess == Spec => []NoValueOnError
<1>1. Init => NoValueOnError
  BY DEF Init, NoValueOnError
<1>2. QED
  BY <1>1, NoValueStep, PTL DEF Spec

=============================================================================
