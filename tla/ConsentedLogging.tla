-------------------------- MODULE ConsentedLogging --------------------------
(***************************************************************************)
(* Consented logging of src/logger/request_context_impl.h.  ServerToken()  *)
(* keeps the server's debug token in a function-local static that is      *)
(* initialised by the first call, with its argument if one is given and    *)
(* with "" otherwise; later calls return it and ignore their argument.     *)
(* A ContextImpl copies ServerToken() into its consented sink when it is   *)
(* constructed, and Update() sets the client's token from the request's    *)
(* ConsentedDebugConfiguration.  A context logs to the consented sink when *)
(* is_consented(): the server token is non-empty and equals the client's.  *)
(*                                                                         *)
(* Tokens are model values; ShortTokens are those shorter than the six     *)
(* characters the CHECK in ServerToken() demands.  The formatted context   *)
(* string is left out: no property reads it.                               *)
(***************************************************************************)
EXTENDS Naturals, FiniteSets

CONSTANTS
    Tokens,       \* non-empty token strings
    ShortTokens,  \* tokens of fewer than kTokenMinLength characters
    Empty,        \* the empty string
    Uninit,       \* the static server_token before its first initialisation
    Contexts,     \* ContextImpl objects
    MaxConfig     \* how many times the host may call ServerToken(token)

ASSUME CLAssumption ==
    /\ ShortTokens \subseteq Tokens
    /\ Empty \notin Tokens
    /\ Uninit \notin Tokens \cup {Empty}
    /\ MaxConfig \in Nat

(* ConsentedDebugConfiguration: is_consented, token and                    *)
(* is_debug_info_in_response.                                              *)
DebugConfig ==
    [consented : BOOLEAN, token : Tokens \cup {Empty}, debugInfo : BOOLEAN]

VARIABLES
    serverToken,  \* the static server_token of ServerToken()
    aborted,      \* the CHECK in ServerToken() failed and the process died
    configured,   \* arguments the host has passed to ServerToken(token)
    live,         \* contexts that exist
    sinkToken,    \* consented_sink.server_token_ of each context
    clientToken,  \* consented_sink.client_debug_token_ of each context
    shouldLog     \* debug_response_sink_.should_log_ of each context

vars == <<serverToken, aborted, configured, live, sinkToken, clientToken,
          shouldLog>>

TypeOK ==
    /\ serverToken \in ((Tokens \ ShortTokens) \cup {Empty, Uninit})
    /\ aborted \in BOOLEAN
    /\ configured \in SUBSET (Tokens \cup {Empty})
    /\ live \in SUBSET Contexts
    /\ sinkToken \in [Contexts -> Tokens \cup {Empty, Uninit}]
    /\ clientToken \in [Contexts -> Tokens \cup {Empty}]
    /\ shouldLog \in [Contexts -> BOOLEAN]

(* ConsentedSinkImpl::is_consented.                                        *)
IsConsented(c) == sinkToken[c] # Empty /\ sinkToken[c] = clientToken[c]

Init ==
    /\ serverToken = Uninit
    /\ aborted = FALSE
    /\ configured = {}
    /\ live = {}
    /\ sinkToken = [c \in Contexts |-> Uninit]
    /\ clientToken = [c \in Contexts |-> Empty]
    /\ shouldLog = [c \in Contexts |-> FALSE]

(* The value the static is initialised with on a first call with argument *)
(* arg (Empty for std::nullopt or "").                                     *)
InitialServerToken(arg) == IF arg = Empty THEN Empty ELSE arg

(* Variant of ServerToken without the length CHECK.                        *)
ServerTokenUnchecked(arg) ==
    IF serverToken = Uninit
      THEN /\ serverToken' = InitialServerToken(arg)
           /\ UNCHANGED aborted
      ELSE UNCHANGED <<serverToken, aborted>>

(* Variant of ServerToken in which every call with a token re-sets it.     *)
ServerTokenResettable(arg) ==
    IF serverToken = Uninit \/ arg # Empty
      THEN \/ /\ arg \in ShortTokens
              /\ aborted' = TRUE
              /\ UNCHANGED serverToken
           \/ /\ arg \notin ShortTokens
              /\ serverToken' = InitialServerToken(arg)
              /\ UNCHANGED aborted
      ELSE UNCHANGED <<serverToken, aborted>>

(* ServerToken(arg): the first call initialises the static, and aborts    *)
(* the process if a non-empty token is too short; later calls change       *)
(* nothing.                                                                *)
ServerToken(arg) ==
    IF serverToken = Uninit
      THEN \/ /\ arg \in ShortTokens
              /\ aborted' = TRUE
              /\ UNCHANGED serverToken
           \/ /\ arg \notin ShortTokens
              /\ serverToken' = InitialServerToken(arg)
              /\ UNCHANGED aborted
      ELSE UNCHANGED <<serverToken, aborted>>

(* The host calls ServerToken(token) at start-up.                          *)
ConfigureServerToken(t) ==
    /\ ~aborted
    /\ Cardinality(configured) < MaxConfig
    /\ configured' = configured \cup {t}
    /\ ServerToken(t)
    /\ UNCHANGED <<live, sinkToken, clientToken, shouldLog>>

(* ContextImpl::Update: the client token is the request's token if it is   *)
(* consented and "" otherwise; should_log_ follows                         *)
(* is_debug_info_in_response.                                              *)
Update(c, cfg) ==
    /\ clientToken' = [clientToken EXCEPT ![c] =
                         IF cfg.consented THEN cfg.token ELSE Empty]
    /\ shouldLog' = [shouldLog EXCEPT ![c] = cfg.debugInfo]

(* The ContextImpl constructor: consented_sink(ServerToken()), then        *)
(* Update(context_map, debug_config).                                      *)
NewContext(c, cfg) ==
    /\ ~aborted
    /\ c \notin live
    /\ live' = live \cup {c}
    /\ ServerToken(Empty)
    /\ sinkToken' = [sinkToken EXCEPT ![c] = serverToken']
    /\ Update(c, cfg)
    /\ UNCHANGED configured

(* A request handler calls Update on a live context.                       *)
UpdateContext(c, cfg) ==
    /\ ~aborted
    /\ c \in live
    /\ Update(c, cfg)
    /\ UNCHANGED <<serverToken, aborted, configured, live, sinkToken>>

(* The context is destroyed at the end of its request.                     *)
DestroyContext(c) ==
    /\ ~aborted
    /\ c \in live
    /\ live' = live \ {c}
    /\ UNCHANGED <<serverToken, aborted, configured, sinkToken, clientToken,
                   shouldLog>>

Next ==
    \/ \E t \in Tokens \cup {Empty} : ConfigureServerToken(t)
    \/ \E c \in Contexts, cfg \in DebugConfig :
         NewContext(c, cfg) \/ UpdateContext(c, cfg)
    \/ \E c \in Contexts : DestroyContext(c)

Spec == Init /\ [][Next]_vars

-----------------------------------------------------------------------------
(* Properties.                                                             *)

(* A live context is consented only for the server token of the process:   *)
(* the token its sink copied when it was constructed is still the one      *)
(* ServerToken() returns, it is non-empty, and the client sent exactly it. *)
ConsentMatchesServer ==
    \A c \in live :
        IsConsented(c) =>
            /\ sinkToken[c] = serverToken
            /\ clientToken[c] = serverToken
            /\ serverToken \in Tokens

(* Once the host has passed a token to ServerToken(token), ServerToken()   *)
(* returns a token the host passed, so every ContextImpl constructed from  *)
(* then on copies it into its consented sink.                              *)
ConfiguredTokenHonoured ==
    ~aborted /\ configured \cap Tokens # {} => serverToken \in configured

=============================================================================
