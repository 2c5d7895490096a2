# A verification of the Skyline client and server

The repository lets a host application (the client, `skyline.node`) drive a
rendering engine that runs in another process (the server, `server.node` inside
nw.js).  The client holds proxies of remote objects; every method, property and
constructor is a synchronous remote call over one TCP connection, and functions
the client passes become callbacks which the engine may call back, synchronously
or not.  What is hard is that both sides block their only JavaScript thread in a
call and must go on serving the other side meanwhile.

Paths below are relative to `src/packages/`; `native` is `native/src`, `ts` is
`typescript/src`.

## Inventory

| Part | State | Operations | Hard behaviour | What makes it correct |
|---|---|---|---|---|
| Client RPC, `native/client/client_action.cc` | `requestId` (odd), `socketRequest`, `callbackQueue`, one thread-safe function per callback | `sendMessageSync`, `processMessage`, callback execution in wait loops and by the event loop | two threads, nesting, 5 s timeout, exceptions, late answers, id wrap | a call gets its own answer, once; callbacks run once, in order, with their own function |
| Server RPC, `native/server/server_action.cc` | `requestId` (even), `socketRequest`, `blockQueue`, one thread-safe function | `sendMessageSync`, `sendMessageSingle`, `processMessage` | as above, 3 s timeout | a request is handled once, in order, answered once; a reply reaches its emission |
| Barrier, `ts/server.ts:111-137`, `server_action.cc:304-308` | a condition variable | `blockUntilNextMessage`, `notify_all` | lost and early notification, a client that goes while the barrier is up | blocks no longer than until the next message |
| Request dispatch, `ts/server.ts` | none of its own | constructor, static, dynamic, dynamicProperty | exceptions in handlers, late requests | exactly one reply; an error has changed nothing |
| Callback arguments, `ts/common/hook-argument.ts`, `ts/server/callback.ts` | `callbackMap` | replace ids by closures and instances, emit | stale closures across client processes | one closure per client function |
| Values, `native/common/convert.cc` | `callbackId`, `callback`, `instanceCache` | function to callbackId, id to proxy | map shared by two threads without a lock, ids in `int` | an id is bound to one function, one proxy |
| Remote objects, `ts/server/object-manage.ts`, `ts/server/controller.ts`, `native/client/base_client.cc` | `instanceMap`, its two inverse maps, `instanceId` | set, get, remove, remove by type, clear | stale proxies, replacement of the Controller | a proxy reaches its own object or none |
| Connection, `client_socket.cc`, `server_socket.cc` | sockets, `is_connected` | connect with handshake, accept, send, receive | process restarts, half-open connections | traffic of one connection stays in it |
| Element proxies, `native/client/html`, with the Controller's page in `controller.ts` | instance id; the page's container | one remote call each; `mount`, `unmount` | several proxies and Controllers of one page, timeouts | what an answer said is so |

The components interact so: the proxies call `sendMessageSync`; the client's
reader thread completes the promise of a call (answers) or queues an emission and
posts it to the callback's thread-safe function; the server's reader thread
completes the promise of an emission or queues a request and posts it to the
message callback; a JS thread that waits takes from its queue whatever has come.

## The modules

| Module | Models |
|---|---|
| `Wire` | frames and the two FIFO channels, ids and their wrap-around, the activations a JS thread is made of |
| `ClientAction` | `client_action.cc`: JS thread and reader thread of the client |
| `ServerAction` | `server_action.cc` with the message callback of `server.ts` and the closures of `hook-argument.ts`: JS thread and reader thread of the server |
| `RemoteCall` | what the RPC promises, abstractly: calls that are asked, started, finished and returned, with no threads, ids or queues |
| `SkylineRpc` | both sides joined by the wire: specification, fairness, properties, the two refinement mappings, inductive invariant |
| `MCSkylineRpc` | TLC instances of it (symmetry of the functions) |
| `SkylineRpc_proofs`, `RpcEmissions_proofs` | TLAPS proofs about it: types, routing, order, and what calls are promised; what emissions are promised, that nothing is lost, stranded or set twice |
| `StyleSheetBarrier`, `MCStyleSheetBarrier` | the barrier after `appendCompiledStyleSheets` |
| `StyleSheetBarrier_proofs` | TLAPS proof of its types |
| `InstanceManage` | the functions of `object-manage.ts` as operators on a table |
| `InstanceTable` | that table under every sequence of its operations |
| `Values` | the conversions of arguments, results and callback arguments, as recursive functions on trees |
| `Conversions`, `MCInstanceTable` | the conversions with every table that `InstanceTable` reaches |
| `InstanceTable_proofs` | TLAPS proofs about the table and the conversions |
| `RemoteObjects`, `MCRemoteObjects` | the table composed with references on the wire, the client's proxies and their cache |
| `RemoteObjects_proofs` | TLAPS proofs about it |
| `CallbackRegistry`, `MCCallbackRegistry` | function ids, closures, listeners and emissions over process restarts |
| `CallbackRegistry_proofs` | TLAPS proofs about it |
| `Session`, `MCSession` | connections, reader threads and restarts of both processes |
| `Session_proofs` | TLAPS proofs about it |
| `Requests`, `MCRequests` | calls end to end: the proxies of Controllers and webviews, the dispatch of their requests and the page they change |
| `Requests_proofs` | TLAPS proofs about it |

`SkylineRpc` extends `ClientAction` and `ServerAction`, which extend `Wire`;
`InstanceTable`, `RemoteObjects`, `Requests` and `Values` extend `InstanceManage`, and
`Conversions` extends `InstanceTable` and `Values`.  A mutant of a
definition stands right before it and is used by no specification.

### Client and server RPC

The JS thread of either side is a stack of activations (`cliStack`, `srvStack`).
`send`, `drain` and `wait` are the points of `sendMessageSync` at which another
thread's step can make a difference: the promise is stored and nothing sent; the
loop is about to take from the queue; it sleeps in `wait_for`.  `run` is a
callback, or the message callback with a request.  A wait loop that takes an item
pushes a `run` on top of its own activation; a `run` may push another `send`: this
is how calls nest.  The event loop can run something only when the stack is empty.

The promise and future of a call are `cliSocketRequest` (id to call),
`cliPromise` (moved out by the reader, not yet set) and `cliAnswer`.  Erasing the
entry and setting the value are two actions, because the timeouts, and on the
server the erasure of the entry by a timeout, can come between them.  Queueing an
item and posting it to the thread-safe function are one action: an invocation that
is posted later finds the same queue or a shorter one, and the wait loops do not
look at the thread-safe functions.  `wait_for` wakes at least every 50 ms, so
`CliWake` and `SrvWake` need no notification.

Two limits of numbers are scaled down.  `IdLimit` is `INT64_MAX`, where both counters
start again.  `ExactLimit` is 2^53: the server hands the id of a request to JavaScript as a
number (`server_action.cc:87`, `231`) and takes it back from one for the answer (`296`), and
beyond 2^53 a double holds no odd number.  The answer to such a request has an even id
(`AsNumber` in `SrvReply`).  Which even id it is makes no difference: ids of answers are
looked at by the client alone, which takes only odd ones for answers.  The other
modules have ids below that limit.

A thread-safe function counts its pending invocations (`cliTsfn[f]`); libuv runs
those of one function in order but those of different functions in any order.
`Bound` are the functions the client process knows.  An emission of another (a
*stray*: its function was bound by a client process that is gone) is queued by the
reader thread but posted to nothing (`CliPost`), and is found later by whoever takes
the oldest item: a wait loop, which skips it (`CliDrop`), or a function's invocation
that was posted for an emission after it.

History variables (`calls`, `emitted`, `cliFailed`, `expired`, `thrown`,
`requestLog`, `callbackLog`) number calls and emissions so that properties can
speak of them; no action depends on them except through the bounds.

### The barrier

`StyleSheetBarrier` keeps of the RPC what the barrier can see: requests, answers,
`blockQueue`, and the reader's two steps, queueing a message and notifying.  A
client may go at any moment (`CliGone`), taking with it what it sent last; the
reader's next read then fails (`SrvReadFails`), which tells the JS thread of it
through the thread-safe function and not through the condition variable, and
accepts the next client.

### Instances and remote objects

A table is a record of `instanceMap`, its inverse maps taken together (a primitive
goes to the `Map`, anything else to the `WeakMap`, and `ClearInstance` empties only
the former), and the next id.  `InstanceTable` runs `setInstance`,
`removeInstance`, `removeInstanceOfType` and `clearInstance` in any order.

`RemoteObjects` has the program's own uses of them.  `NewController` is the request
that constructs a Controller, with the reply the proxy keeps as `m_instanceId`;
`ReturnObject` is `hookResult`, which registers whatever it returns under a new
id; `EmitObject` is `hookCallbackArgument`, which takes the id there is;
`TakeReference` is `convertJson2Value` with its cache.  A reference carries the
object it was made for and the server process (`of`, `gen`), which the code's does
not: only the properties look at them.  References on the wire are a set, because
answers bypass the queue emissions wait in.

### Values

`Values` translates the three ways a tree of values takes: `ToJson`
(`convertValue2Json`) then `HookArgument` (`hookArgumentItem`) for arguments;
`HookResult` then `Stringify` (`JSON.stringify`, external) then `ToValue`
(`convertJson2Value`) for results; `HookCallbackArgument`, `Stringify` and
`ToValue` for callback arguments.

A tree is a leaf, an array or an object.  `Names` are the names fields may have; an
object has an item for each of them and for the names the code looks for, and `Absent`
where it lacks the field.  The conversions are recursive functions on `Tree`, the trees
of at most `MaxDepth + 1` levels; every finite value is within some such bound (a cyclic
one has no JSON).  `hookResult` and `hookCallbackArgument` register
objects while they go through the items; they take and give a registry of what has been
registered so far, from which `After` has the table (`HookItems`: the code's loops).  An
object's fields are visited in an order that `SetToSeq` chooses; nothing that is shown
depends on which.

What is checked of them does not speak of how they recurse: a value is the set of its
nodes, each with its path (`Nodes`), and what arrives must be the same paths with each
node replaced by what it stands for on the other side.  For results and callback
arguments that is what the application's reference reaches in the table and in
`functionData` once the whole is converted.  The conversions differ in how they recurse:
results look only one level into arrays, and take null for an object.  `ArgumentTrees`,
`ResultTrees` and `EmissionTrees` say what the inputs are: objects of the application
with fields named `instanceId`, `instanceType` or `callbackId` are taken for references
by the code and are not among them; nor are results with null in a field, with an object
below an element of an array or with a function anywhere in an array: `hookResult` leaves
that as it is, and `JSON.stringify` makes null of it.

Two details of the code are not in the conversions.  `hookArgumentItem` throws for an id
whose instance is falsy (`hook-argument.ts:71`), as it does for one that is gone: the
program registers objects only.  And the client knows references by the name of a class: it
makes undefined of a name it does not know, and an error of a Controller
(`convert.cc:188-210`); the instances here are of classes it has and can make proxies of.

### Requests

`Requests` has one application, whose calls are `Construct`, `CallMethod`,
`GetProperty` and `SetProperty` on any proxy it holds, and the server's message
callback, `HandleConstructor`, `HandleDynamic` and `HandleProperty`.  The page is
`container`: `mount()` empties it by removing children while it iterates over the
live list, which leaves every other child (`WithoutVisited`), and appends.
`Members` are the members of the proxies that the run's application uses; what is
left out differs from those in its name only.  `toldShown` and `toldSrc` are what the
application may conclude from the answers it got; a call that timed out has told it
nothing, and takes back what earlier answers told about the same thing.  That `ToldIsSo`
holds of `src` rests on nobody changing it but the client's requests: a webview that the
engine navigates by itself is not modelled.

### Callbacks

`Pass` converts a function (an id, kept on the function and bound in the map) and
sends it in a request to add or remove a listener; `Handle` turns the id into a
closure by way of `callbackMap` and gives it to the engine; `Emit` is a call of that
closure and `Run` the client's lookup.  The engine is not under `src/`: it is taken
to keep closures and compare them by identity, as the listener tests expect
(`test/webview.test.ts` in the repository).  Ids are numbers modulo `IdRange`, because
`convert.cc:84` narrows `callbackId` to an `int`; the properties that depend on it
hold until ids recur (`IdsDistinct`), and the run goes past that point.

### Sessions

A connection has two ends and what is under way in each direction; closing an end
may lose a suffix of it.  The client's `connect()` is `Connect`, then
`HandshakeDone` or `HandshakeFails`; each connection has a reader thread of its
own that is about to look at `is_connected` (`check`), blocked in a read, spinning
on empty messages, or ended.  The server serves the oldest connection of the
backlog until a read fails.  `ClientRestart`, `ServerDies` and `ServerStarts` are
crashes, which may come at any moment.  A call is only a request and its answer
here: nesting is in `SkylineRpc`, and `ServerHandle` answers on whatever connection
is served when the JS thread gets there, as `sendMessageSingle` does.

## The runs

| Run | Instance | Shows |
|---|---|---|
| `rpc_core` | 2 bound functions and one that is not, 3 calls, 2 emissions, one client timeout, one server timeout, one exception, ids to 7, all of which a JS number holds | emissions are not lost and answered by their own callback, nobody waits for a promise that is gone or works for a caller that has gone on, no promise is set twice, and the server's direction implements `RemoteCall` |
| `rpc_wrap` | 1 bound function and one that is not, the same budgets, ids to 5: the client has ids 1 and 3, of which a JS number holds 1, the server 2 and 4 | types; when ids come round while older ones are registered, no call whose id fits a JS number is lost, and none at all done twice, misrouted, stranded or given another's answer; and the client's direction implements `RemoteCall` |
| `rpc_live` | 1 bound function and one that is not, 2 calls, 2 emissions, one exception, two server timeouts, no client timeout, with fairness | calls return or throw, emissions return, and run |
| `rpc_function` | 2 functions, 1 call, 2 emissions | violates `RightFunction` |
| `barrier` | 3 rounds, 2 timeouts, 2 clients that go | a message lifts the barrier |
| `barrier_lost` | 1 round | violates `AppendStyleSheetsUnblocks` |
| `table` | 2 objects, 1 primitive, 4 ids; trees of up to two levels above their leaves (three for callback arguments), two items each | the inverse maps name live, canonical ids; an id never changes its meaning; arguments, results and callback arguments arrive whole |
| `objects` | 2 engine objects, 2 Controllers, 3 ids, 1 restart each | what the client holds means one object and reaches it, or nothing |
| `requests` | 3 Controllers, 2 values of src, 8 members, 5 ids, 1 timeout, 1 restart of the client | one webview is shown at most, what answers said is so, an error changed nothing |
| `registry` | 3 functions of one client, 2 of the next, 2 ids, 4 requests, 1 restart each | listeners are found again; emissions run their function |
| `registry_restart` | as above, ids that do not recur | violates `CallsBoundFunction` |
| `session` | 2 attempts, 4 connections, 3 calls, 1 restart each, with fairness | handshakes come first, answers are not another call's, nobody stops reading an open connection, `connect()` returns or throws |

Three calls and two emissions suffice for a call inside a callback inside a call,
with a third call whose answer, timeout or exception interferes; one timeout on
each side lets a late answer and a late reply meet the calls after them.  Two
emissions are also a stray and one it takes the invocation from.  `MaxCliTimeouts`
bounds the calls that time out although a JS number holds their id; a call whose id none
holds may always time out, as it cannot end in another way, so that in `rpc_wrap` the
third call can meet a late answer under the id 1, which comes round.  In `rpc_live` all
ids fit and no call times out: none needs its time limit.  A call whose id does not fit
has no other end, and the run with `ExactLimit = 1` (its second call is such a one) and
`MaxThrows = 0` passes as well; an exception beside it would double the run's size.
The cfgs switch deadlock checking off because the budgets of calls and emissions run
out and the system then has nothing left to do.

Two clients that go are one during the barrier and one that its successor's message
finds gone again; three rounds leave one for each.  In `requests` three Controllers
are one that is mounted, one that replaces it unmounted and one more; five ids let
each be read once through another proxy, and one timeout leaves a request that is
handled after later calls were made.

In `table` two names and two items let one item be registered, or fail, before another is
converted; `MaxDepth` is 3, the array of a callback's arguments around two levels, the second of which is
what results do not look into.

Three ids are two of one object with another's between them; two Controllers
suffice for a replacement, and with one restart of either process for a cache and
proxies that outlive the ids they hold.  Two ids for three functions make an id
recur while its first function is still bound.  Four connections are a handshake
whose attempts all fail, the connection left behind by the last, and one more;
three calls are one that times out, one that finds its connection broken, and one
on a new connection while the first one's answer is still unread.  The handshake's
five attempts are two in the runs (`MaxAttempts`); each is treated alike.

Safety of the RPC: `CallNeverLost`, `EmissionNeverLost` (each pending call or emission
is in exactly one place, if the call's id fits a JS number), `CliOwnAnswer`, `SrvOwnAnswer`, `NoMisrouting`,
`NoStrandedRequest`, `NoStrandedCallback` (something is always posted for what is
queued, but for strays), `RegistrationsFitWaiters` (whoever waits can be woken,
nothing is registered for nobody, and no promise is set twice: `set_value` would throw
in the reader thread), `HandlersHaveCallers`, `InOrderOnce`; refinement
`CallsKeepPromise`, `EmissionsKeepPromise`; liveness `CallsReturn`, `EmissionsReturn`,
`EmissionsRun`.  For objects, values and requests: `CanonicalIds`, `IdsAreForever`,
`ArgumentsArrive`, `ResultsArrive`, `EmissionsArrive`, `OneObjectPerId`,
`ReachesOwnObject`, `OneController`, `OneIdPerEmitted`, `OneShown`, `ToldIsSo`,
`FailedChangedNothing`; for callbacks `ListenersAsWanted`, `OwnFunctionRuns`; for
sessions `HandshakeFirst`, `AnswersOwnOrEarlier`, `NoDeafReader` and `ConnectEnds`; for the
barrier `MessageLiftsBarrier`.

`SrvOwnAnswer` and `EmissionsKeepPromise` are not in `rpc_wrap`: the server ignores a
refused `emplace` (`server_action.cc:211`), so they hold only until its ids have
wrapped around.

### Refinement

`RemoteCall` says what either side is promised.  Calls are numbered; the other side
starts each at most once, in order, though it may skip some; a call returns only when
the other side has finished that very call, and one that failed never returns.
`SkylineRpc` is shown to implement it twice: with the client's calls as calls
(`CallsView`: started are those in `requestLog`, running those on the server's stack)
and with the engine's emissions as calls (`EmissionsView`: the callbacks on the
client's stack).  Every step of the wire, the queues and the reader threads is a
stutter there; taking a request is `Start`, the reply is `Finish`, the end of
`sendMessageSync` is `Return` or `GiveUp`, and a callback that throws is a `Crash`.

### Fairness

Weak fairness of each reader thread (it does nothing but read), of each JS thread
inside a call or callback (`wait_for` returns within 50 ms, and a callback or
handler that makes no further call ends), and of each thread-safe function, whose
invocations libuv runs when the JS thread is idle.  The server's time limit is
strongly fair for those emissions that may never be replied to (`Hopeless`: its
callback threw, or it or an earlier one is a stray): a server that waits for such a
reply sleeps and wakes again and again until its three seconds are over.  In the same
way the client gets to the five seconds of a call whose id is above `ExactLimit`.  No other
time limit is relied on.  Calling, emitting and throwing are never forced.

In `barrier` the client takes its answers and both server threads run; calls, time
limits and clients that go are not forced.  In `session` the server's reader thread is
weakly fair (it does nothing but accept, greet and read), and so is the client's
JS thread inside `connect()`; nothing forces a process to die or start.  A client
that keeps its connection open may keep others waiting, since the server serves one at
a time; `ConnectEnds` says that nobody who has *gone* does.

## Findings

1. `rpc_function`: the body posted to the thread-safe function of one callback
   takes the oldest item of the queue all callbacks share and calls its own
   function with it (`client_action.cc:72-87`, `110-125`).
2. `barrier_lost`: `blockUntilNextMessage` loses the notification of an
   `appendStyleSheets` that is read before it waits.
3. `registry_restart`: a listener that an earlier client process added calls the
   function of the client process that runs now which has got the same id.

## Behaviour worth knowing that is no finding

A result that is null reaches the client as `{}` (`hook-argument.ts:194-235`), so
that a call which found nothing looks as if it had found something; an instance
inside an object or array inside an array is not registered and arrives as its
bare fields, and a function inside an array as null.

After 2^52 calls the ids of a client no longer fit a JS number.  The server then handles
each call and answers it under an even id, which the client drops: the call throws after
its five seconds, and its entry stays in `socketRequest`, so that after the wrap-around its
id is refused.  No call gets an answer that is not its own (`CliOwnAnswer`), and a call whose
id fits is not affected (`CallNeverLost`).  No program makes so many calls.

The notification of the very `appendCompiledStyleSheets` that raises the barrier may
lift it, when the handler is done before the reader thread gets to `notify_all`
(`server_action.cc:121`): `SrvNotify` after `SrvBlock`.  A barrier whose client has
gone stays until the next client sends something.

An emission whose function the client does not know takes the invocation posted for
the next one (`client_action.cc:148`, `72-87`), which then stays in the queue until a
wait loop or another emission's invocation finds it: `NoStrandedCallback` counts at
most one stranded emission for each stray, and `EmissionsRun` promises nothing to what
comes after one.

`AnswersOwnOrEarlier` is as strong as the code allows: a request that is still in
`blockQueue` when its client dies is answered to the next client process, whose
ids start at 1 again, so that a call there may get the answer to a request it
never made.  Nothing in the repository says otherwise.

The end of a connection ends the client's reader thread and leaves `is_connected`
set (`client_action.cc:176-181`): until a send fails, `connect()` reports "Already
connected to server." and does nothing, and a call waits out its 5 seconds for an
answer nobody reads.  `Session` has this behaviour.

## What is proved

All of it for every value of the constants, under the assumptions named in the
modules (`WireAssumption`, `ClientAssumption`, `ServerAssumption`, `TableAssumption`,
`InstanceAssumption`, `ValuesAssumption`, `ConversionsAssumption`, `ObjectsAssumption`, `RegistryAssumption`, `SessionAssumption`,
`RequestsAssumption`, `BarrierAssumption` and `NoneAssumption`: no object, request or answer is `None`).
Each inductive invariant was first tried with TLC on a small instance.

`SkylineRpc_proofs` proves `TypeCorrect`, `NeverMisroutes` and `NoRequestStranded`.
None is inductive.  That an answer is the number of a call needs that the client
takes only answers for answers; that needs that the server never answers a
non-request under an odd id; and that needs the parity of every id in every message,
queue, activation and map on both sides.  `IInv` states just this: `MapsTyped` (types of
maps and counters), `WireByParity`, `FramesByParity` (requests odd, emissions and their
replies even, callbacks run only on blocked calls), `ReadersHoldAnswers` (a reader that
has taken a promise still has the answer in hand) and `NoStrandedRequest`.
`NextIdParity` shows that the counters keep their parity when they wrap.  One lemma
covers each side's steps (`ClientStep`, `ServerStep`), with one case per action.

Its second part proves `OrderKept` (`InOrderOnce`), `AnswersAreOwn` (`CliOwnAnswer`) and
`PromiseKept`: the specification implies `CallsKeepPromise`, the client's view of
`RemoteCall`.  Its invariant `PInv` is inductive together with `IInv`:

- `CallOrder` and `EmitOrder`: the numbers of requests (of emissions) ascend from the
  log through the queue to the wire (`Pipeline`), since both are first-in-first-out and
  whoever takes the oldest item logs it at once, and only the topmost activation may
  have yet to send its message (`SendsLast`);
- `WaitersOnce`: the activations of the client that wait are of different calls, none
  of which has failed;
- `HandledOnce`: no request is handled by two activations, nor answered twice, under
  whatever id;
- `Owned`: as long as the reader has not taken its answer, `socketRequest` has a call
  under the id which its request, its handler and its answer carry (an answer
  whose id has become even is none to the client, `SrvResponse`).  This is why the
  refusal of a registered id (`client_action.cc:201-206`) matters: an id that comes
  round is given only when nothing under way carries it;
- `OwnAnswer`: the reader's promise and the answers delivered are of the call they
  belong to.

The refinement then has a lemma for each side, with one case per abstract action.

`RpcEmissions_proofs` proves the server's direction: `RepliesAreOwn` (`SrvOwnAnswer`),
`WaitersRegistered` (`RegistrationsFitWaiters`), `CallersWait` (`HandlersHaveCallers`) and
`EmissionPromiseKept`: the specification implies `EmissionsKeepPromise`, the engine's view
of `RemoteCall`.  The client refuses an id that is still registered; the server ignores
that its `emplace` failed (`server_action.cc:211`).  So these four are proved under
`IdsSuffice` (`2 * MaxEmits < IdLimit - 1`: the counter does not come round), which
`rpc_core` satisfies and `rpc_wrap` just does not.  The invariant `EInv` has in its parts:

- `IdsApart`: wherever a synchronous emission is known (on its way to its reply, in the
  reply, on the server's stack, in its map), ids and emissions correspond, and the next
  id is above all of them;
- `RunOnce`: a callback runs in one activation, and is replied to after it has run;
- `OwnReply`: the reply at the head of the wire is to the emission whose promise the
  reader holds;
- `WaitersStored`, `DueWaits`: the map holds the promises of those who wait and have no
  reply yet, and no others; what is on its way to its reply is waited for, or expired;
- `FailedDone`: a callback that threw sends no reply, and nobody waits for an emission that
  has expired.

What `WaitersRegistered` and `CallersWait` say of the client's map needs no hypothesis:
`CallInv`, proved however often the ids come round.  Its parts are `CallsKnown` (a call
that was made waits, has its answer or has failed) and `EntriesFit`.

The last sections of `RpcEmissions_proofs` prove what the runs check by counting:

- `PromisesSetOnce`: no promise is set twice, on either side, though ids come round.
  `SetOnce` says it of one side's map, promise and answers: an entry is of a call that is
  neither answered nor in the reader's hands, and no two entries are of one call.  It is
  inductive with the types alone, and both sides have it;
- `CallsNeverLost` (`CallNeverLost`): `CallsArePlaced` says that a call which is waited
  for under an id that fits a JS number is somewhere, under that id until it is answered;
  `Pipeline` and `HandledOnce` say of every call that it is in no two places, and in none
  twice.  The counts follow from these: a `Cardinality` is 1 when there is an
  element and no two, and 0 when there is none;
- `EmissionsNeverLost` (`EmissionNeverLost`), in the same way and under `IdsSuffice`, from
  `RunOnce` and `EmissionsArePlaced`, which excepts the callbacks that threw and the strays;
- `FewCallbacksStranded` (`NoStrandedCallback`): the invocations pending are a set of
  pairs, function and number, of which each step adds or takes at most one, and takes
  one only with an item of the queue if there is any.  What is queued without a post
  is a stray that has arrived, and has for good (`FewStranded`).

`StyleSheetBarrier_proofs` proves `BarrierTyped`.  A client that goes is noticed by one
read that fails, so the notices never exceed the clients gone, and stay below as long
as the last has not been noticed; the call that is waited for is the last made, so that
skipping the second call of a round stays within the rounds.

`InstanceTable_proofs` proves `IdsNeverReused` and `OldestIdKept`.  The first needs that
what is registered, and what ever was, has an id below the next.  The second is a
property of the operators (`SetKeeps`, `RemoveKeeps`, `RemoveTypeKeeps`, `ClearKeeps`): a new
id is above all others, so `Oldest` does not change; when an instance loses the id the
inverse map names, the map takes the oldest of those left.  That a nonempty set of
ids has a least one is the well-foundedness of the natural numbers (`LeastExists`).

The rest of it proves `ArgumentsAlwaysArrive`, `ResultsAlwaysArrive` and
`EmissionsAlwaysArrive`: for any `MaxDepth`, any names of fields and arrays of any length,
and with every table that is reached.  `ConversionsAssumption` only says that the inputs
are such trees (they may be all of them).  The argument has four parts:

- The recursive functions exist.  A function defined by recursion is a `CHOOSE`, and says
  nothing unless some function satisfies its equation.  For each conversion a lemma builds
  one level by level (`ToJsonExists`, `HookArgumentExists`, `EmitsExists`, ...), from which its
  equation follows (`ToJsonIs`, `HookArgumentIs`, ...).  The library's theorems on recursive
  functions take operators as parameters, which no prover here can instantiate; `Induction`
  states the principle for a *set* of numbers, and each use names its set.
- Arguments (`TreesArrive`): what arrives of a whole is put together of what arrives of its
  items (`WholesArrive`, with `ItemsMeant` and `ItemsFail`), because paths of different items
  differ in their first step.
- Registries only grow (`Later`): what an id names when an item is converted it still names
  when the whole has been (`RegisterNames`, `IdNames`).  `IdNames` is where the table matters:
  an instance that has an id in the inverse map must have it in `instanceMap` too, which is
  `CanonicalIds`, and is why callbacks with instances that a `clearInstance` dropped are
  excepted.
- The inductive statement (`Lands`) therefore speaks of every later registry, not of that
  at hand: whatever is registered after the item, what the application makes of it stands
  for it.  `HookItemsLand` goes through the items of one value by a second induction, on
  how many of them are done.

What the proofs need of the state, besides the invariant above, is that only instances are
registered.

`RemoteObjects_proofs` proves `ObjectsTyped`, `ObjectIdentity`,
`ProxiesReachTheirObjects`, `LastControllerOnly` and `EmittedIdentity`.  That an id means
one object needs that the next id is new to everything the client knows of this server
process (`NextIsFresh`); that the id given to a callback reaches the object needs that
the inverse map names a live id of each engine object (`IdsResolve`), which the removal
of Controllers must not disturb; that it is always the same id, the
oldest the object is registered under, needs that what was emitted is still what the
inverse map says (`EmittedByTable`) and that this is the oldest (`Ordered`).  The latter is
the invariant of the table alone: the lemmas of `InstanceTable_proofs` are used through
an `INSTANCE` of it, whose operators are shown to be the same (`TableOperations`).

`CallbackRegistry_proofs` proves `RegistryTyped`, `RemovalFindsListener` and
`EmissionsFindFunction`.  The invariant says that every place which knows a function of
the running client knows it by one id, which is nobody else's (`FunctionsBound`,
`ServerKnows`), that an id has one closure (`OneClosure`), and that requests of earlier
clients come first (`OldestFirst`): a late removal by an earlier client, under the same
id, would otherwise take away a listener of this one.

`Session_proofs` proves `SessionTyped`, `HandshakeBeforeAll`, `AnswersNotOthers` and
`ReadersListen`.  `GreetedOnce`: a connection has at most one handshake under way and none
before it is greeted, and a connected client's connection has been greeted and has
none left.  `ReadersFollow`: a reader thread other than the connected one's has a
connection that the server has closed; `connect()` preserves it because it does nothing
while the client counts as connected, and a failed send because only a closed
connection fails.  `KnownRequests`: a client process numbers ids like calls, so that
two requests of one process with one id are the same.

`Requests_proofs` proves `Typed`, `OneIsShown`, `WhatWasToldIsSo` and
`FailureChangesNothing`.  `ProxiesKnown`: wherever a proxy is, in the client's hands or in
a request, its id means its object or nothing, and a request is of a member which the
class of its proxy has (`WellAimed`), so that no handler meets a method its object lacks.
`PageOK`: one webview is shown at most, and none once the registered Controller has been
unmounted, which is why a second `unmount()` may say that it succeeded.
`UntoldWhilePending` is the heart of `WhatWasToldIsSo`: of what a request still in the queue
may change nothing is told, unless it is the request of the call waited in, and then what
it changes is what its answer is about to tell (`Told`, `AnswerIsSo`).  `Handled` states
once what a handler must see to; each handler is then shown to do so.

### Only model-checked

`CallsReturn`, `EmissionsReturn`, `EmissionsRun`, `MessageLiftsBarrier` and
`ConnectEnds`: liveness under fairness is out of the prover's reach.  Every other property
of a passing run is a theorem.

## What is left

Lemmas on what liveness rests on: that a reader thread or a pending invocation can always
take its next step.

## Not modelled

The C++ data races (the `callback` map is written by the JS thread and read by the
reader thread without a lock; the server's reader thread replaces the socket its JS
thread writes to), what numbers, strings and bytes say, worklets, shared memory,
rendering, logging, crash handling (a handler that writes a report) and
packaging.  The classes of `client/html` other than Controllers and webviews: they
keep an instance id and each of their members is the same call of `base_client` with
another name.  `ts/server/custom-handle`, a lookup without state.  `client/html/other` and
`client/html/shadow_node` are not part of the build.
