----------------------- MODULE ConsentedLoggingProofs -----------------------
(* Proofs about consented logging: a context is consented only for the     *)
(* process's own server token, for every set of tokens and contexts.       *)
EXTENDS ConsentedLogging, TLAPS

(* The inductive invariant: every live context's sink holds the token      *)
(* ServerToken() returns now, and that static has been initialised.  The   *)
(* static changes only on its first call, and the constructor of the      *)
(* first context makes that call, so no live context can have copied a     *)
(* token the static later loses.                                           *)
LInv ==
    /\ TypeOK
    /\ \A c \in live : sinkToken[c] = serverToken /\ serverToken # Uninit

LEMMA LInvInit == Init => LInv
BY CLAssumption DEF Init, LInv, TypeOK

(* ServerToken(arg) for a string arg: it either aborts on a short token or *)
(* leaves the static initialised with a token of allowed length or "";     *)
(* an initialised static is never changed.                                 *)
LEMMA ServerTokenFacts ==
    ASSUME TypeOK, NEW arg \in Tokens \cup {Empty}, ServerToken(arg)
    PROVE  /\ serverToken' \in (Tokens \ ShortTokens) \cup {Empty, Uninit}
           /\ aborted' \in BOOLEAN
           /\ serverToken # Uninit => serverToken' = serverToken
           /\ ~aborted' => serverToken' # Uninit
BY CLAssumption DEF ServerToken, InitialServerToken, TypeOK

LEMMA LInvStep == LInv /\ [Next]_vars => LInv'
<1> SUFFICES ASSUME LInv, [Next]_vars PROVE LInv'
  OBVIOUS
<1>1. CASE \E t \in Tokens \cup {Empty} : ConfigureServerToken(t)
  <2>1. PICK t \in Tokens \cup {Empty} : ConfigureServerToken(t)
    BY <1>1
  <2>2. TypeOK'
    BY <2>1, ServerTokenFacts DEF ConfigureServerToken, LInv, TypeOK
  <2>3. \A c \in live' : sinkToken'[c] = serverToken' /\ serverToken' # Uninit
    BY <2>1, ServerTokenFacts DEF ConfigureServerToken, LInv
  <2>4. QED
    BY <2>2, <2>3 DEF LInv
<1>2. CASE \E c \in Contexts, cfg \in DebugConfig : NewContext(c, cfg)
  <2>1. PICK c \in Contexts, cfg \in DebugConfig : NewContext(c, cfg)
    BY <1>2
  <2>2. Empty \notin ShortTokens
    BY CLAssumption
  <2>3. serverToken' # Uninit /\ (serverToken # Uninit => serverToken' = serverToken)
    BY <2>1, <2>2, CLAssumption DEF NewContext, ServerToken, InitialServerToken
  <2>4. TypeOK'
    BY <2>1, ServerTokenFacts, CLAssumption DEF NewContext, Update, DebugConfig,
                                               LInv, TypeOK
  <2>5. \A d \in live' : sinkToken'[d] = serverToken'
    BY <2>1, <2>3 DEF NewContext, LInv, TypeOK
  <2>6. QED
    BY <2>3, <2>4, <2>5 DEF LInv
<1>3. CASE \E c \in Contexts, cfg \in DebugConfig : UpdateContext(c, cfg)
  BY <1>3 DEF UpdateContext, Update, DebugConfig, LInv, TypeOK
<1>4. CASE \E c \in Contexts : DestroyContext(c)
  BY <1>4 DEF DestroyContext, LInv, TypeOK
<1>5. CASE UNCHANGED vars
  BY <1>5 DEF vars, LInv, TypeOK
<1>6. QED
  BY <1>1, <1>2, <1>3, <1>4, <1>5 DEF Next

(* A live context is consented only for the server token of the process:   *)
(* the token ContextImpl's constructor copied from ServerToken() is still  *)
(* the one the function-local static holds, because that static is set    *)
(* once, by the first call, which precedes every copy; for every set of    *)
(* tokens and contexts.                                                    *)
THEOREM ConsentOnlyForServerToken == Spec => []ConsentMatchesServer
<1>1. LInv => ConsentMatchesServer
  BY DEF LInv, TypeOK, ConsentMatchesServer, IsConsented
<1>2. QED
  BY <1>1, LInvInit, LInvStep, PTL DEF Spec

(* Every reachable state of the consented logging model is well typed. *)
THEOREM TypeCorrect == Spec => []TypeOK
<1>1. LInv => TypeOK
  BY DEF LInv
<1>2. QED
  BY <1>1, LInvInit, LInvStep, PTL DEF Spec

=============================================================================
