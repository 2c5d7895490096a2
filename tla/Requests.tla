------------------------------ MODULE Requests ------------------------------
(***************************************************************************)
(* Calls end to end: what the application is told and what is so.          *)
(*                                                                         *)
(* A Controller owns a webview element and shows it by mounting it in the  *)
(* page's one container.  The application drives Controllers and webviews  *)
(* through proxies (client/base_client.cc, client/html), whose calls       *)
(* become requests (client_action.cc:286-390) that the server dispatches   *)
(* (server.ts:47-187) to the objects of its table (controller.ts).         *)
(*                                                                         *)
(* The application makes one call at a time.  Requests are handled in the  *)
(* order of the calls and an answer belongs to its call (see SkylineRpc);  *)
(* a call that times out has failed for the application, yet its request   *)
(* is handled all the same.  A restarted client finds the server's objects *)
(* and the page as its predecessor left them.                              *)
(***************************************************************************)
EXTENDS InstanceManage, Sequences, FiniteSets

CONSTANTS
    Controllers,  \* the Controllers that may be constructed
    Sources,      \* values of an element's src
    Members,      \* bound: the members of proxies that the application uses
    None,         \* no object, no request, no answer, nothing known
    MaxId,        \* bound: the last id handed out
    MaxTimeouts,  \* bound: how many calls time out
    MaxRestarts   \* bound: how often the client is restarted

\* The element that the constructor of Controller c creates.
Webview(c) == [webviewOf |-> c]
Webviews   == {Webview(c) : c \in Controllers}

ASSUME RequestsAssumption ==
    /\ Instances = Controllers \cup Webviews /\ Controllers \cap Webviews = {}
    \* left out are those that change the src or give objects of other classes
    /\ Members \cap {"removeAttribute", "request", "style", "ondialog"} = {}
    /\ MaxId \in Nat /\ MaxTimeouts \in Nat /\ MaxRestarts \in Nat

VARIABLES
    table,      \* instanceMap and its inverses
    webview,    \* Controller._webview: made Controllers to their element, or None
    container,  \* the children of the page's container
    src,        \* the src of each element
    queue,      \* requests sent and not yet handled, oldest first
    answer,     \* the answer to the call the client waits in, or None
    request,    \* the request of that call, or None
    proxies,    \* the client's proxies: id, and as history the object
    toldShown,  \* history: what the last answers say of the container, or None
    toldSrc,    \* history: what they say of each element's src, or None
    timeouts, restarts  \* history: how many there were

serverVars == <<table, webview, container, src>>
clientVars == <<request, proxies, toldShown, toldSrc>>
vars == <<serverVars, queue, answer, clientVars, timeouts, restarts>>

Init ==
    /\ table = EmptyTable
    /\ webview = [c \in {} |-> None]
    /\ container = <<>>
    /\ src \in [Webviews -> Sources]
    /\ queue = <<>> /\ answer = None /\ request = None
    /\ proxies = {}
    /\ toldShown = None
    /\ toldSrc = [w \in Webviews |-> None]
    /\ timeouts = 0 /\ restarts = 0

-----------------------------------------------------------------------------
(* The application's calls.                                                *)

\* A proxy has the id of its object.
ProxyType == [id : 1 .. MaxId, of : Instances]

\* What the proxies of each class have, apart from what is answered without a call.
ControllerClass == [methods |-> {"mount", "unmount"}, get |-> {"webview"}, set |-> {}]

CommonMembers ==
    [methods |-> {"reload", "setAttribute", "removeAttribute"}, get |-> {"isConnected"}, set |-> {}]

WebviewClass ==
    [methods |-> CommonMembers.methods
                 \cup {"addEventListener", "executeScript", "getAttribute", "getUserAgent",
                       "removeEventListener", "setUserAgentOverride"},
     get     |-> CommonMembers.get \cup {"request", "src", "style"},
     set     |-> {"src", "style", "ondialog"}]

ClassOf(p) == IF p.of \in Controllers THEN ControllerClass ELSE WebviewClass

\* The requests: what callConstructorSync, callDynamicSync and the two for
\* properties put on the wire.
ConstructorRequest         == [type |-> "constructor"]
DynamicRequest(p, name, v) == [type |-> "dynamic", proxy |-> p, action |-> name, value |-> v]
GetRequest(p, name)        == [type |-> "get", proxy |-> p, action |-> name]
SetRequest(p, name, v)     == [type |-> "set", proxy |-> p, action |-> name, value |-> v]

RequestType ==
    {ConstructorRequest}
    \cup [type : {"dynamic"}, proxy : ProxyType, action : Members, value : Sources \cup {None}]
    \cup [type : {"get"}, proxy : ProxyType, action : Members]
    \cup [type : {"set"}, proxy : ProxyType, action : Members, value : Sources]

Call(req) ==
    /\ request = None
    /\ request' = req
    /\ queue' = Append(queue, req)
    /\ UNCHANGED <<serverVars, answer, proxies, toldShown, toldSrc, timeouts, restarts>>

\* The calls of client/base_client.cc.
sendConstructorToServerSync  == Call(ConstructorRequest)
sendToServerSync(p, name, v) == Call(DynamicRequest(p, name, v))
getProperty(p, name)         == Call(GetRequest(p, name))
setProperty(p, name, v)      == Call(SetRequest(p, name, v))

\* new Controller(onError)
Construct == sendConstructorToServerSync

\* controller.mount(), webview.reload(), webview.setAttribute("src", v), ...
CallMethod ==
    \E p \in proxies : \E name \in ClassOf(p).methods \cap Members :
        \E v \in IF name = "setAttribute" THEN Sources ELSE {None} : sendToServerSync(p, name, v)

\* controller.webview, webview.src, webview.isConnected
GetProperty == \E p \in proxies : \E name \in ClassOf(p).get \cap Members : getProperty(p, name)

\* webview.src = v
SetProperty ==
    \E p \in proxies : \E name \in ClassOf(p).set \cap Members, v \in Sources : setProperty(p, name, v)

Error == [ok |-> FALSE]
Result(v) == [ok |-> TRUE, value |-> v]

AnswerType ==
    {Error} \cup [ok : {TRUE}, value : {None}] \cup [ok : {TRUE}, value : BOOLEAN]
    \cup [ok : {TRUE}, value : Sources] \cup [ok : {TRUE}, value : ProxyType]

\* None is nothing else.
ASSUME NoneAssumption == None \notin Instances \cup RequestType \cup AnswerType

GivesProxy(req, a) ==
    /\ a.ok
    /\ \/ req.type = "constructor"
       \/ req.type = "get" /\ req.action = "webview" /\ a.value # None

Shows(req)    == req.type = "dynamic" /\ req.action \in {"mount", "unmount"}
SetsSrc(req)  == req.type = "set" \/ (req.type = "dynamic" /\ req.action = "setAttribute")
ReadsSrc(req) == \/ req.type = "get" /\ req.action = "src"
                 \/ req.type = "dynamic" /\ req.action = "getAttribute"

\* What the application is told by the answer a to req, which was not an error.
Learn(req, a) ==
    /\ toldShown' = IF Shows(req)
                      THEN IF req.action = "mount" THEN <<Webview(req.proxy.of)>> ELSE <<>>
                    ELSE IF req.type = "get" /\ req.action = "isConnected" /\ a.value
                      THEN <<req.proxy.of>>
                    ELSE toldShown
    /\ toldSrc' = IF SetsSrc(req) THEN [toldSrc EXCEPT ![req.proxy.of] = req.value]
                  ELSE IF ReadsSrc(req) THEN [toldSrc EXCEPT ![req.proxy.of] = a.value]
                  ELSE toldSrc

\* What it has been told, once the outcome of a call is unknown.
Forget(req) ==
    /\ toldShown' = IF Shows(req) THEN None ELSE toldShown
    /\ toldSrc' = IF SetsSrc(req) THEN [toldSrc EXCEPT ![req.proxy.of] = None] ELSE toldSrc

\* The call ends, with an exception or with the result.  A reference becomes a proxy;
\* null, as the webview of a Controller that was unmounted, does not.
TakeAnswer ==
    /\ answer # None
    /\ answer' = None /\ request' = None
    /\ proxies' = IF GivesProxy(request, answer) THEN proxies \cup {answer.value} ELSE proxies
    /\ \/ answer.ok /\ Learn(request, answer)
       \/ ~answer.ok /\ UNCHANGED <<toldShown, toldSrc>>
    /\ UNCHANGED <<serverVars, queue, timeouts, restarts>>

\* Five seconds: an exception, and the request is still under way.
TimeOut ==
    /\ request # None /\ answer = None
    /\ timeouts < MaxTimeouts
    /\ timeouts' = timeouts + 1
    /\ request' = None
    /\ Forget(request)
    /\ UNCHANGED <<serverVars, queue, answer, proxies, restarts>>

\* A new client process: it has no proxies, and was told nothing.  Here the server
\* has handled what it had been sent: an answer still to come might be taken for
\* the answer to a call of the new process (see Session).
Restart ==
    /\ restarts < MaxRestarts
    /\ queue = <<>>
    /\ restarts' = restarts + 1
    /\ answer' = None /\ request' = None
    /\ proxies' = {}
    /\ toldShown' = None /\ toldSrc' = [w \in Webviews |-> None]
    /\ UNCHANGED <<serverVars, queue, timeouts>>

-----------------------------------------------------------------------------
(* The server: the message callback with the oldest request.               *)

\* Mutant of Reply: it is taken for the answer to whichever call waits.
ReplyToAny(a) == answer' = IF request # None THEN a ELSE answer

\* The reply goes to the client, which drops it unless it waits for it: the call it
\* waits in made the last request there is.
Reply(a) == answer' = IF request # None /\ Len(queue) = 1 THEN a ELSE answer

Handle(types) ==
    /\ queue # <<>> /\ Head(queue).type \in types
    /\ queue' = Tail(queue)
    /\ UNCHANGED <<clientVars, timeouts, restarts>>

\* getInstance, or None.
Target(req) ==
    IF req.proxy.id \in DOMAIN table.map THEN table.map[req.proxy.id] ELSE None

Reference(x) == [id |-> table.next, of |-> x]

\* The table once Controller c has been constructed, in place of the others.
Registered(c) == SetInstance(RemoveInstanceOfType(table, Controllers), c)

\* A new Controller, with an element that is not shown; what is shown stays.
HandleConstructor ==
    /\ Handle({"constructor"})
    /\ table.next <= MaxId
    /\ \E c \in Controllers \ DOMAIN webview :
         /\ webview' = With(webview, c, Webview(c))
         /\ table' = Registered(c)
         /\ Reply(Result(Reference(c)))
    /\ UNCHANGED <<container, src>>

\* childNodes.forEach over the live list, removing each child that is visited.
WithoutVisited(children) == [i \in 1 .. Len(children) \div 2 |-> children[2 * i]]

\* Mutants of Mount: the check is left out; the container is not emptied.
MountUnchecked(c) ==
    /\ container' = Append(WithoutVisited(container), webview[c])
    /\ Reply(Result(None))

MountBeside(c) ==
    \/ /\ webview[c] # None
       /\ container' = Append(container, webview[c])
       /\ Reply(Result(None))
    \/ /\ webview[c] = None
       /\ UNCHANGED container
       /\ Reply(Error)

Mount(c) ==
    \/ /\ webview[c] # None
       /\ container' = Append(WithoutVisited(container), webview[c])
       /\ Reply(Result(None))
    \/ /\ webview[c] = None
       /\ UNCHANGED container
       /\ Reply(Error)

IsShown(w) == \E i \in DOMAIN container : container[i] = w

\* removeChild(w).
WithoutChild(w) ==
    \E i \in DOMAIN container :
        /\ container[i] = w
        /\ container' = SubSeq(container, 1, i - 1) \o SubSeq(container, i + 1, Len(container))

\* Mutant of Unmount: the element is forgotten before it is removed.
UnmountForgetsFirst(c) ==
    /\ webview' = [webview EXCEPT ![c] = None]
    /\ \/ /\ webview[c] # None /\ IsShown(webview[c])
          /\ WithoutChild(webview[c])
          /\ Reply(Result(None))
       \/ /\ webview[c] # None /\ ~IsShown(webview[c])
          /\ UNCHANGED container
          /\ Reply(Error)
       \/ /\ webview[c] = None
          /\ UNCHANGED container
          /\ Reply(Result(None))

\* removeChild throws unless the element is in the container; unmounting twice is
\* no error.
Unmount(c) ==
    \/ /\ webview[c] # None /\ IsShown(webview[c])
       /\ WithoutChild(webview[c])
       /\ webview' = [webview EXCEPT ![c] = None]
       /\ Reply(Result(None))
    \/ /\ webview[c] # None /\ ~IsShown(webview[c])
       /\ UNCHANGED <<container, webview>>
       /\ Reply(Error)
    \/ /\ webview[c] = None
       /\ UNCHANGED <<container, webview>>
       /\ Reply(Result(None))

\* The engine's own methods of an element.
ElementMethod(w) ==
    \/ /\ Head(queue).action = "setAttribute"
       /\ src' = [src EXCEPT ![w] = Head(queue).value]
       /\ Reply(Result(None))
    \/ /\ Head(queue).action = "getAttribute"
       /\ UNCHANGED src
       /\ Reply(Result(src[w]))
    \/ /\ Head(queue).action \notin {"setAttribute", "getAttribute"}
       /\ UNCHANGED src
       /\ Reply(Result(TRUE))

\* A method: of an object that has it, or an error.
HandleDynamic ==
    /\ Handle({"dynamic"})
    /\ LET x == Target(Head(queue)) IN
         \/ /\ x \in Controllers /\ Head(queue).action = "mount"
            /\ Mount(x)
            /\ UNCHANGED <<webview, src>>
         \/ /\ x \in Controllers /\ Head(queue).action = "unmount"
            /\ Unmount(x)
            /\ UNCHANGED src
         \/ /\ x \in Webviews
            /\ ElementMethod(x)
            /\ UNCHANGED <<webview, container>>
         \/ /\ x = None
            /\ Reply(Error)
            /\ UNCHANGED <<webview, container, src>>
    /\ UNCHANGED table

\* The properties of an element.
ElementProperty(w) ==
    \/ /\ Head(queue).type = "set"
       /\ src' = [src EXCEPT ![w] = Head(queue).value]
       /\ Reply(Result(None))
    \/ /\ Head(queue).type = "get"
       /\ UNCHANGED src
       /\ Reply(Result(IF Head(queue).action = "src" THEN src[w] ELSE IsShown(w)))

\* A Controller's element is registered under a new id each time it is read.
ControllerProperty(c) ==
    \/ /\ webview[c] = None
       /\ Reply(Result(None))
       /\ UNCHANGED table
    \/ /\ webview[c] # None
       /\ table.next <= MaxId
       /\ table' = SetInstance(table, webview[c])
       /\ Reply(Result(Reference(webview[c])))

\* A property: of an instance that is gone, which is undefined, an error.
HandleProperty ==
    /\ Handle({"get", "set"})
    /\ LET x == Target(Head(queue)) IN
         \/ x \in Controllers /\ ControllerProperty(x) /\ UNCHANGED src
         \/ x \in Webviews /\ ElementProperty(x) /\ UNCHANGED table
         \/ x = None /\ Reply(Error) /\ UNCHANGED <<table, src>>
    /\ UNCHANGED <<webview, container>>

-----------------------------------------------------------------------------
Next ==
    \/ Construct \/ CallMethod \/ GetProperty \/ SetProperty
    \/ TakeAnswer \/ TimeOut \/ Restart
    \/ HandleConstructor \/ HandleDynamic \/ HandleProperty

Spec == Init /\ [][Next]_vars

-----------------------------------------------------------------------------
\* Every variable has its type.
TypeOK ==
    /\ table.next \in 1 .. MaxId + 1
    /\ DOMAIN table.map \subseteq 1 .. table.next - 1
    /\ \A id \in DOMAIN table.map : table.map[id] \in Instances
    /\ DOMAIN webview \subseteq Controllers
    /\ \A c \in DOMAIN webview : webview[c] \in {Webview(c), None}
    /\ container \in Seq(Webviews)
    /\ src \in [Webviews -> Sources]
    /\ queue \in Seq(RequestType) /\ request \in RequestType \cup {None}
    /\ proxies \subseteq ProxyType
    /\ toldSrc \in [Webviews -> Sources \cup {None}]

\* The page shows one webview at most, whichever Controllers were constructed,
\* mounted or left mounted by an earlier client.  mount() would not empty a
\* container of two: it removes children while it iterates over the live list.
OneShown == Len(container) <= 1

\* What the answers said is so: after mount() has returned that webview and no other
\* is shown, after unmount() none is, one that says it is connected is shown, and an
\* element's src is the one last set or read through any of its proxies, as a
\* property or an attribute; until the next call, whatever Controllers were replaced
\* and however late the requests of calls that timed out are handled.
ToldIsSo ==
    request = None =>
        /\ toldShown \in {None, container}
        /\ \A w \in Webviews : toldSrc[w] \in {None, src[w]}

\* A call that fails with an answer has changed nothing: each handler checks before
\* it acts (server.ts, controller.ts).
FailedChangedNothing ==
    [][answer = None /\ answer' = Error => UNCHANGED serverVars]_vars
=============================================================================
