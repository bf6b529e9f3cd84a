# TLA+ models of the data-plane shared libraries

These modules model the concurrent parts of this repository: Roma's native-function
callback RPC, the private-key cache, consented logging's server token, the queue-service
validator, and two Roma benchmarks that turn asynchronous calls into blocking ones.
Each model is written from the C++ under `src/`. `PROJECT.json` maps every definition
to the lines it models. The Dispatcher and the worker lifecycle sit outside `src/`,
so they are modelled from `spec.md` and marked `spec_modelled`.

## The parts and how they interact

| Part | Source | Module | Status |
|---|---|---|---|
| Native-function handler (parent) | `src/roma/sandbox/native_function_binding/native_function_handler_sapi_ipc.h` | `NativeFunctionHandler`, abstract `CallbackRpc` | modelled |
| Function binding (child, V8) | `src/roma/sandbox/js_engine/v8_engine/v8_isolate_function_binding.cc` | `NativeFunctionHandler`, `FunctionBinding` | partly (`AddExternalReferences` left out) |
| Dispatcher / request metadata | spec.md §4.8 | `NativeFunctionHandler`, `DispatcherBenchmark` | partly, from the spec |
| Private-key fetcher | `src/encryption/key_fetcher/private_key_fetcher.cc` | `PrivateKeyFetcher` | modelled |
| Consented logging | `src/logger/request_context_impl.h` | `ConsentedLogging` | partly (formatting left out) |
| Queue client validator | `src/public/cpio/validator/queue_client_validator.cc` | `QueueClientValidator` | modelled |
| Dispatcher benchmark | `src/roma/sandbox/dispatcher/dispatcher_benchmark.cc` | `DispatcherBenchmark` | partly |
| Fake KV server + UDF benchmark | `src/roma/benchmark/fake_kv_server.cc`, `kv_server_udf_benchmark.cc` | `FakeKvServer` | partly |
| Telemetry flags, crypto client, metric client | various | none | not modelled (single-threaded parsing and I/O wrappers) |

**Callback RPC.** A JavaScript guest calls a bound native function. The stub in the
worker (`GuestCall`) fills an `RpcWrapper` with the function name and the uuid that
`AddIds` recorded, sends it on the worker's channel, and blocks (`StubReceive`). In the
parent, one listener thread per channel receives the frame (`ListenerRecv`). It checks
`stop_`, looks up the request's metadata, calls the function, and sends the wrapper
back (`ListenerHandle`, with `HandleError` for the error paths). `Stop()` is split into
three actions at its three waits: `StopSetFlag`, then one `StopSendSentinel` per channel,
then `StopJoin`. The dispatcher side (`StartInvocation`, `FinishInvocation`, `KillWorker`)
is taken from the spec. A killed worker is replaced by a new process on the same channel.
Channels are `[Workers -> Seq(...)]` FIFO buffers in both directions.

**What the callback RPC promises.** `CallbackRpc` is the abstract specification: each
worker's guest makes one blocking call at a time, which is refused at once (`Refuse`),
or blocks and then returns the answer to its own request (`Answer`) or fails (`Fail`);
a restart abandons the call. Weak fairness on `Answer \/ Fail` says a blocked call does
not block forever. `NativeFunctionHandler` maps onto it by `RPC == INSTANCE CallbackRpc`,
with `st <- stub`, `req <- sent` and `ans` the request the received wrapper answers
(`Answered(got[w])`). Frames, listeners, `Stop()` and the dispatcher are hidden, so
their steps are stutters. `RefinesCallbackRpc == RPC!Spec` is checked in `nokill`.

**Private keys.** `RefreshList(t)` issues `ListPrivateKeys` with `max_age = ttl_`.
`ListAnswer(t)` is the key service answering: it fixes the keys it serves at that
instant in `listed[t]`. `ListCallback(t)` runs later. It takes the mutex, inserts every
listed key that decodes, then notifies. In between, the clock may tick, so a listed key
can expire in transit and still be inserted.
Each refreshing thread has its own `fetch_notify`. `RefreshCleanup(t)` erases keys with
`creation_time < Now() - ttl_` and returns Ok. The key service is the environment: it
has a clock (`Tick`), issues keys (`IssueKey`), and serves keys at most `TTL` old on
its own clock. The local clock is the service clock plus `Skew`.

**Consented logging.** `ServerToken(arg)` models the function-local static: the first
call initialises it, and a short token aborts. The host calls `ConfigureServerToken`.
`NewContext` models the `ContextImpl` constructor: it copies `ServerToken()` into the
sink, then runs `Update`. `UpdateContext` and `DestroyContext` cover the rest of a
context's life.

**Queue validator.** The driver runs the checks in order, one action per step of
`RunEnqueueMessageValidator` / `RunGetTopMessageValidator`. Every early `return` is the
`Fail` helper. `Callback` runs on a provider thread and writes the stack variables
`result` and `finished`. `Return` ends the function's frame.

**Function binding, at the level of values.** `FunctionBinding` follows one guest call
through `GlobalV8FunctionCallback` with the data kept: guest values are tagged records
(string, array of strings, map of strings, `Uint8Array`, number), and the `FunctionBindingIoProto`
input and output are oneof payloads. `Init` is the constructor's `binding_references_` and
`BindFunctions`: every registered name, and no other, is a global stub. `Call` runs the
argument checks, `V8TypesToProto` and `NativeFieldsToProto`, then sends. `Serve` is the
parent's listener body for that wrapper (the function table is taken from the spec: an echo
function copies its input to its output; a failing one returns an error). `Return` checks the
`Invoke` status and the error list and converts the output back with `ProtoToV8Type`. Every
`isolate->ThrowError` is kept, including the missing `return` after the empty-name error, so a
call may throw twice; which pending exception the guest sees is left open.

**Dispatcher benchmark.** `LoopHead` builds `is_loading(number_of_calls)`. `Invoke`
either queues a load or fails the `ASSERT_TRUE`, which returns from `BM_Dispatch`.
`StartWait` and `WaitReturns` model `is_loading.Wait()`. `Complete` is the consumer
thread: it runs the callback's `ASSERT_TRUE(resp.ok())` and then `DecrementCount`.

**Fake KV server.** `Construct`, then `SetCodeObject` and `ExecuteCode`. Each is a
blocking wrapper: `CHECK` that the call was accepted, a timed wait (`WaitReturns` may
time out whenever the notification has not fired), then `LoadCheck` / `ExecCheck`.
`Callback` has two stages: the callback writes the response, then fires the
Notification. `LoopHead` and `Destroy` model the two benchmark drivers.

## Runs

| Run | Checks | Bounds | Shows |
|---|---|---|---|
| `nokill` | `TypeOK`, `GuestGetsOwnReply`, `HandlerFindsMetadata`, `RefinesCallbackRpc` | 2 workers, 3 uuids, 2 names, no kills | without crashes every guest gets the reply to its own call, and the listener always finds the metadata of the call it handles; the handler implements the abstract `CallbackRpc`, liveness included |
| `restart` | `StopCompletes`, `CallsReturn` | 1 kill | `Stop()` terminates and every blocked stub returns, also across a worker restart |
| `stale` (violation) | `GuestGetsOwnReply` | 1 kill | a reply in flight when a worker dies is received by the replacement process's next call |
| `pkf` | `FreshKeysCached`, `RefreshReturns` | 2 keys, 2 threads, TTL 1, 3 ticks, skew 0 | the clean-up never evicts a key the service still serves, also when the service's answer arrives late, and every Refresh returns |
| `pkf_skew` (violation) | `FreshKeysCached` | the same with skew 1 | one tick of clock skew evicts fresh keys |
| `consent` | `TypeOK`, `ConsentMatchesServer` | 3 tokens (one short), 2 contexts, 2 configuration calls | a context is consented only for the process's current token |
| `consent_order` (violation) | `ConfiguredTokenHonoured` | 1 configuration call | a context built before configuration locks the token to `""` |
| `validator` | `TypeOK`, `HonestVerdict`, `CallbackFrameLive`, `ChecksComplete` | checks enqueue, gettop, enqueue | every check prints a verdict, SUCCESS only for a successful result; no callback outlives its frame; every check ends |
| `dispatch` | `TypeOK`, `CounterCoversQueued`, `IterationEndsDrained` | 4 calls, capacity 3, 3 iterations | `Wait()` never returns while one of its callbacks is owed, including when the queue fills; an iteration leaves `Wait()` with none of its loads queued |
| `dispatch_hang` (violation) | `BenchmarkReturns` | 2 calls, 2 iterations | one failed load hangs the benchmark |
| `fakekv` | `TypeOK`, `ReturnsOwnResult`, `HandlerOnlyForLoadedCode` | 2 calls, 2 iterations, both drivers | `ExecuteCode` never returns an unwritten result, even after a timed-out wait; `handler_name_` is set only after a successful load |

| `binding` | `ConversionMatchesSpec`, `NoValueOnError` | 4 names (echo, failing, unregistered, empty), every argument list of at most 2 values, strings and arrays of length ≤ 1 | a call is refused without an RPC exactly when spec.md §4.7 does not support its arguments; no failure path hands the guest a value |

Why these bounds are enough:
- Two workers and three uuids give a second channel, and a uuid that is reused after a
  kill.
- Two threads and a TTL of one tick put the clean-up boundary one tick from issue.
- For the binding, one key, one byte and two strings (one of them empty) give every shape
  spec.md names, its empty form, and a wrong element type inside an array; two arguments
  exercise the arity check.
- Capacity 3 against 4 calls lets the dispatcher's queue fill. The code's own capacity
  (100000 ≥ 1000) never fills, so the run explores more than the benchmark reaches: it
  shows the counter stays consistent even then.

Every passing run has a mutant in `PROJECT.json`. A mutant is a variant operator, defined
just before the definition it replaces, that changes the code the way a plausible bug
would; the property then fails. Examples: a callback that notifies only on success, an
off-by-one counter, a clean-up with `<=`.

## Findings

- `stale`: a reply in flight when a worker dies reaches the replacement's next call.
- `pkf_skew`: clock skew between service and fetcher evicts keys still served.
- `consent_order`: a context built before `ConfigureServerToken` pins the token.
- `dispatch_hang`: one failed load makes `BM_Dispatch` wait forever.

Two further disagreements of the binding with spec.md are listed as hazards without a
run, and `FunctionBinding` shows both on any trace that reaches them:
- `V8TypesToProto` fills the map input entry by entry (`v8_isolate_function_binding.cc:79`).
  An empty Map therefore leaves the oneof unset, so an echo returns `undefined`, against
  the round-trip law of spec.md §8. Whether this bites depends on `TypeConverter`, which
  is outside `src/`.
- The guest always throws `kErrorInFunctionBindingInvocation` (`:190`), never the message
  of the error list (spec.md §4.7 (4), §8 scenario 5).

**Deadlock checking.** It is off only where the program really stops:
- consented logging stops after an aborting `CHECK`;
- the benchmark stops after its last iteration.

`dispatch_hang` is the case where the benchmark does not stop: it shows a hang.

## Fairness

Weak fairness is placed on the steps of threads that the code keeps running: the
listener threads, the blocked stub, `Stop()`, the refreshing thread after its
callback, the validator's driver, and the benchmark threads. It is also placed on the
key service's answer and on the callbacks of calls a provider accepted. The code's contracts say an accepted async
call is called back exactly once. No fairness is assumed for calls that may never come:
host configuration, new requests, clock ticks, key rotation, worker kills.

## Proofs (TLAPS)

- `NativeFunctionHandlerProofs`
  - `TypeCorrect`: `Spec => []TypeOK`, for every set of workers, uuids and names.
  - `RepliesMatchCalls`: assuming `MaxKills = 0`, `Spec => []GuestGetsOwnReply`.
  - The inductive invariant `IInv` adds `ChannelInv(w)` for every channel:
    - each channel holds at most one request or reply;
    - what it holds belongs to the stub's pending call;
    - the listener handles only that request;
    - after `stop_`, frames not yet received are never handled.
  - `GuestGetsOwnReply` alone is not inductive. A reply already on the channel must be
    known to answer the pending call.
  - The step proof has one case per action. It rests on lemmas about sequence lengths
    (`ChannelCount`, `PendingArith`) and about `Append`/`Tail` (`SequenceTheorems`).
- `NativeFunctionHandlerRefinement`
  - `ImplementsCallbackRpc`: assuming `MaxKills = 0`,
    `Spec => RPC!Init /\ [][RPC!Next]_RPC!avars`. This is the safety part of the
    refinement, for every number of workers, uuids and names.
  - The step proof maps each action: `GuestCall` to `Call`, or to `Refuse` once the
    channel is terminated; `StubReceive` to `Answer`; `StubRecvFail` to `Fail`.
    Every other action leaves `stub`, `sent` and `got` alone.
  - `StubReceive` needs `IInv` (the reply on the channel answers the pending call) and
    `ReplyInv`. `ReplyInv` says no reply on a channel is the empty `NoReply`, and a
    waiting stub has received nothing, so `Answered` tells "received" from "none".
    `ReplyInv` is inductive on its own, given `TypeOK`.
  - With a kill the refinement fails, as `stale` shows; the fairness part is checked
    by TLC only.
- `NativeFunctionHandlerProofs` also proves `MetadataFound`: assuming `MaxKills = 0`,
  `Spec => []HandlerFindsMetadata`. Its strengthening `MetaInv` says four things:
  - stored metadata is a subset of the uuids handed out;
  - a running invocation's uuid is stored, and is the current uuid once names are bound;
  - a waiting stub sent its running uuid;
  - no two workers run the same uuid.

  `MetaInv` is inductive even with kills. Only `IInv`, which supplies the step of
  `HandlerFindsMetadata` that reads the channel, needs `MaxKills = 0`. The model's
  `HandleError` is an `IF` chain, like the code's `if`/`else if`. A `CASE` with
  overlapping arms would let TLA+ pick any true arm, which the code never does.
- `PrivateKeyFetcherProofs`
  - `TypeCorrect`.
  - `FreshKeysKept`: assuming `Skew = 0`, `Spec => []FreshKeysCached`, for every TTL,
    clock bound, key set and thread set.
  - The strengthening `CacheFaithful`: every cached time equals the time the service
    issued the key, and every listed or fetched key was issued. With it, a served key (at most
    `TTL` old) is never strictly older than `now - TTL`.
  - `pkf_skew` shows why the assumption is needed.
- `QueueClientValidatorProofs`: `VerdictsHonest` (`[]HonestVerdict`),
  `CallbackFrameSafe` (`[]CallbackFrameLive`) and `TypeCorrect`, for every list of
  checks. `QInv` follows the frame of check `i`:
  - before its call it has printed nothing and `finished` is clear;
  - an owed callback is check `i`'s, which is in `wait` and has printed nothing;
  - a `finished` with an ok `result` has printed SUCCESS, and SUCCESS appears only
    with an ok callback result;
  - a returned check has printed a verdict;
  - checks not yet started have printed nothing.

  The last conjunct is what makes `StartCheck` and `Return` preserve the rest.
  `FailStep` is the lemma for every path through `Fail`.
- `FakeKvServerProofs`: `OwnResultReturned` (`[]ReturnsOwnResult`), `HandlerLoaded`
  (`[]HandlerOnlyForLoadedCode`) and `TypeCorrect`, for every number of calls and
  iterations. The key conjunct of `FInv`: once the callback has written (`cb =
  "written"`, or the Notification fired) and the status is still ok, the load left
  the code loaded (for a load), or `result` holds the response (for an execution).
  `FInv` also keeps the loop counters in range inside a call. It records that only the
  execute driver reaches `preload`. Without that conjunct the proof fails at
  `SetCodeObject`.
- `FunctionBindingProofs`
  - `ConversionFaithful` (`[]ConversionMatchesSpec`) and `ValueOnlyOnSuccess`
    (`[]NoValueOnError`), for every set of names, strings, keys and bytes and every
    length bound.
  - The lemma `ConversionOk`: `V8TypesToProto(argList).ok` holds exactly when
    `SpecSupported(argList)`. It is proved by cases on the arity and the type tag of
    the single argument. `SeqsOfStrings` settles the array case.
  - `CInv` adds that a call past the conversion has accepted arguments and has not
    thrown the conversion error. `NoValueOnError` is inductive by itself. Its `Return`
    step uses `ReturnThrows`: only a fully successful round trip leaves `thrown` empty.
  - The model's parameter is `argList`, not `as`: `as` is an SMT-LIB keyword, and
    tlapm's SMT backend fails on any obligation that contains it.
- `ConsentedLoggingProofs`: `ConsentOnlyForServerToken` (`[]ConsentMatchesServer`)
  and `TypeCorrect`, for every set of tokens and contexts. The invariant `LInv` says
  every live context's sink holds the token the static holds now, and that the static
  is initialised. The constructor's own `ServerToken()` call initialises the static
  before the first context copies it.
- `DispatcherBenchmarkProofs`: `QueueBelongsToIteration` and `TypeCorrect`, for every
  number of calls, pending limit and iteration count. `OnlyCurrentQueued` says that
  while an iteration is live, every queued load is tagged with it, and `count >=
  Len(queue) + (NumberOfCalls - issued)`. The proof uses `DInv`: `Wait()` starts only
  after all loads were issued, and nothing is queued between iterations.
  `WaitLeavesNoLoad` proves the action property `IterationEndsDrained` from `DInv`.
  Only `WaitReturns` leaves `wait` for `loop`. It needs `count = 0`, and
  `OnlyCurrentQueued` bounds `Len(queue)` by `count`, so the queue is empty.

The proof modules use no RECURSIVE operators. Each inductive invariant was first
checked by TLC, as an invariant of the component's run, before it was proved.

**Only model-checked.**
- Liveness (`StopCompletes`, `CallsReturn`, `RefreshReturns`, `ChecksComplete`,
  `BenchmarkReturns`, the fairness part of `RefinesCallbackRpc`): liveness under
  fairness, and `ENABLED`, are beyond TLAPS here.
- `CounterCoversQueued`. It counts a load through `Owed(k) ==
  Len(SelectSeq(queue, ...))`. Tying `SelectSeq` to `Append` and `Tail` (one more, or
  one fewer, when the element passes the test) needs induction over the sequence. The
  provers do not do that here, and the library states no such fact.
  `QueueBelongsToIteration` proves the same bound with `Len(queue)` in place of
  `Owed(iter)`, since every queued load is then the iteration's own. The last step,
  that `SelectSeq` keeps a sequence whose elements all pass the test, is left to TLC.

## Not modelled

- Telemetry flag parsing, the crypto client and the metric client: single-threaded
  conversions and I/O wrappers with no interleaving.
- The formatted log strings.
- `AddExternalReferences`: a pointer list for V8's snapshot serializer.
- `TypeConverter`, which converts single values, lies outside `src/`; `FunctionBinding`
  takes it to succeed on every value of the right type.
- Null `debug_info` / `logger_private` dereferences: they depend on logging macros
  outside `src/`, and are listed as hazards.

## Plan for later work

- A refinement of `FunctionBinding` into `CallbackRpc`, composing the value-level
  binding with the handler.
- Lemmas about `SelectSeq` once an induction the provers accept is available,
  to finish `CounterCoversQueued`.
- A fuller Dispatcher model once its code is available, to replace the spec-modelled
  environment.
