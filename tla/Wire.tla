-------------------------------- MODULE Wire --------------------------------
(***************************************************************************)
(* The one TCP connection between the Skyline client (the node addon that  *)
(* the host application loads) and the Skyline server (the addon inside    *)
(* the nw.js process), seen as two FIFO channels of framed messages.  A    *)
(* frame carries an int64 message id and a JSON payload; here a payload is *)
(* its "type" and what it is about.                                        *)
(*                                                                         *)
(* A CALL is one invocation of the client's sendMessageSync, an EMISSION   *)
(* one invocation by the rendering engine of a callback the client had     *)
(* registered.  Both are numbered, in the order they are made, only so     *)
(* that the properties can tell them apart: the code has nothing but ids.  *)
(***************************************************************************)
EXTENDS Naturals, Sequences, FiniteSets

CONSTANTS
    Functions,  \* the JS functions the client has passed to the server
    IdLimit,    \* INT64_MAX, scaled down: where both request counters wrap
    ExactLimit, \* 2^53, scaled down: up to it a JS number holds every id
    MaxCalls,   \* bound: how many calls the client makes
    MaxEmits    \* bound: how many emissions the engine makes

ASSUME WireAssumption ==
    /\ IdLimit \in Nat /\ IdLimit % 2 = 1 /\ IdLimit >= 5
    /\ ExactLimit \in Nat
    /\ MaxCalls \in Nat
    /\ MaxEmits \in Nat

Ids   == 0 .. IdLimit
Calls == 1 .. MaxCalls
Emits == 1 .. MaxEmits

\* What the client sends: the JSON request of a call, and the reply to a
\* synchronous emission, which echoes the id of the emission's message.
Request(id, k)       == [type |-> "request", id |-> id, of |-> k]
CallbackReply(id, e) == [type |-> "callbackReply", id |-> id, of |-> e]

\* What the server sends: the answer to request k (k = 0: the error answer to a
\* message that is no request), and an emission of function f (callbackId).
Response(id, k)        == [type |-> "response", id |-> id, of |-> k]
EmitCallback(id, e, f) == [type |-> "emitCallback", id |-> id, of |-> e, fn |-> f]

ToServer == [type : {"request"}, id : Ids, of : Calls]
              \cup [type : {"callbackReply"}, id : Ids, of : Emits]
ResponseMsg == [type : {"response"}, id : Ids, of : 0 .. MaxCalls]
EmitMsg     == [type : {"emitCallback"}, id : Ids, of : Emits, fn : Functions]
ToClient == ResponseMsg \cup EmitMsg

VARIABLES
    c2s,   \* client to server, oldest message first
    s2c    \* server to client

(***************************************************************************)
(* Either JS thread runs a stack of activations; the top one is the head.  *)
(*   send  : inside sendMessageSync, the promise stored, nothing sent yet  *)
(*   drain : in its loop, about to look at the queue of deferred work      *)
(*   wait  : in its loop, asleep on the condition variable                 *)
(*   run   : a JS handler the event loop or such a loop has started        *)
(* A blocked activation holds its request id and its call (emission), a    *)
(* running one the id and the number of the message it is handling.        *)
(***************************************************************************)
Frame(pc, id, of) == [pc |-> pc, id |-> id, of |-> of]

Blocked == {"send", "drain", "wait"}

Push(frame, stack) == <<frame>> \o stack
Goto(pc, stack)    == Push(Frame(pc, Head(stack).id, Head(stack).of), Tail(stack))
TopIs(pc, stack)   == stack # <<>> /\ Head(stack).pc = pc

\* Mutants of NextId: the counter never wraps; the counter never advances.
NextIdUnwrapped(counter, first) == counter
NextIdStuck(counter, first) == first

\* The id a JS number gives back.  A double holds no odd id beyond 2^53: it becomes an
\* even one nearby (the last 512 become INT64_MAX, which the client's counter skips),
\* so in either case an id no call has.  Nothing tells those even ids apart.
AsNumber(id) == IF id > ExactLimit /\ id % 2 = 1 THEN id - 1 ELSE id

\* The next id of a counter that starts at `first` and steps by two.
NextId(counter, first) == IF counter >= IdLimit - 1 THEN first ELSE counter
=============================================================================
