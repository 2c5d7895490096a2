--------------------------- MODULE Requests_proofs ---------------------------
(***************************************************************************)
(* Proved of Requests for any Controllers, members, ids, timeouts and      *)
(* restarts: one webview is shown at most, what the application was told   *)
(* is so, and a call that fails with an answer has changed nothing.        *)
(***************************************************************************)
EXTENDS Requests, TLAPS

\* A proxy names its object, or one that is gone.
Known(p) ==
    /\ p \in ProxyType /\ p.id < table.next
    /\ p.id \in DOMAIN table.map => table.map[p.id] = p.of

\* A request is of a member that the class of its proxy has.
WellAimed(req) ==
    \/ /\ req.type = "dynamic" /\ req.action \in ClassOf(req.proxy).methods
       /\ req.action = "setAttribute" => req.value \in Sources
    \/ req.type = "get" /\ req.action \in ClassOf(req.proxy).get
    \/ req.type = "set" /\ req.action = "src" /\ req.proxy.of \notin Controllers

KnownRequest(req) == req = ConstructorRequest \/ (WellAimed(req) /\ Known(req.proxy))

\* The table has Controllers that were made, one of them at most.
TableOK ==
    /\ \A id \in DOMAIN table.map : table.map[id] \in Controllers => table.map[id] \in DOMAIN webview
    /\ \A i, j \in DOMAIN table.map :
         table.map[i] \in Controllers /\ table.map[j] \in Controllers => table.map[i] = table.map[j]

\* The page shows one webview at most, and none once the registered Controller was unmounted.
PageOK ==
    /\ OneShown
    /\ \A id \in DOMAIN table.map :
         table.map[id] \in Controllers /\ webview[table.map[id]] = None => container = <<>>

\* Every proxy is known wherever it is.
ProxiesKnown ==
    /\ \A p \in proxies : Known(p)
    /\ \A i \in DOMAIN queue : KnownRequest(queue[i])
    /\ request # None => KnownRequest(request)

\* The call that is waited in made the last request, which is in the queue or answered.
LastIsWaitedFor ==
    /\ answer # None => request # None /\ queue = <<>>
    /\ request # None /\ answer = None => queue # <<>> /\ queue[Len(queue)] = request

\* Of what an earlier request may yet change nothing is told.
UntoldWhilePending ==
    \A i \in DOMAIN queue : i # Len(queue) \/ request = None =>
        /\ Shows(queue[i]) => toldShown = None
        /\ SetsSrc(queue[i]) => toldSrc[queue[i].proxy.of] = None

\* What was told is so, but for what the answer at hand is about to tell.
Told ==
    /\ toldShown \in {None, container} \/ (answer # None /\ answer.ok /\ Shows(request))
    /\ \A w \in Webviews :
         \/ toldSrc[w] \in {None, src[w]}
         \/ answer # None /\ answer.ok /\ SetsSrc(request) /\ request.proxy.of = w

\* What the answer a to req says is so.
IsSo(req, a) ==
    /\ GivesProxy(req, a) => Known(a.value)
    /\ req.type = "dynamic" /\ req.action = "mount" => container = <<Webview(req.proxy.of)>>
    /\ req.type = "dynamic" /\ req.action = "unmount" => container = <<>>
    /\ req.type = "get" /\ req.action = "isConnected" /\ a.value => container = <<req.proxy.of>>
    /\ SetsSrc(req) => src[req.proxy.of] = req.value
    /\ ReadsSrc(req) => a.value = src[req.proxy.of]

AnswerIsSo == answer # None /\ answer.ok => IsSo(request, answer)

IInv ==
    /\ TypeOK /\ TableOK /\ PageOK /\ ProxiesKnown
    /\ LastIsWaitedFor /\ UntoldWhilePending /\ Told /\ AnswerIsSo

-----------------------------------------------------------------------------
(* What requests and answers are.                                          *)

\* The members of a request.
LEMMA RequestFields ==
    ASSUME NEW req \in RequestType
    PROVE  /\ req.type \in {"constructor", "dynamic", "get", "set"}
           /\ req.type = "constructor" => req = ConstructorRequest
           /\ req.type # "constructor" => req.proxy \in ProxyType /\ req.action \in Members
           /\ req.type = "set" => req.value \in Sources
           /\ req.type = "dynamic" => req.value \in Sources \cup {None}
  BY DEF RequestType, ConstructorRequest

\* A known request is of what its object has.
LEMMA RequestAims ==
    ASSUME NEW req \in RequestType, KnownRequest(req), req.type # "constructor"
    PROVE  /\ req.proxy.of \in Instances
           /\ Known(req.proxy)
           /\ req.proxy.of \in Controllers =>
                \/ req.type = "dynamic" /\ req.action \in {"mount", "unmount"}
                \/ req.type = "get" /\ req.action = "webview"
           /\ req.proxy.of \in Webviews =>
                \/ /\ req.type = "dynamic" /\ req.action \notin {"mount", "unmount"}
                   /\ req.action = "setAttribute" => req.value \in Sources
                \/ req.type = "get" /\ req.action \in {"src", "isConnected"}
                \/ req.type = "set" /\ req.value \in Sources
  <1>1. req.proxy \in ProxyType /\ req.action \in Members
    BY RequestFields
  <1>2. WellAimed(req) /\ Known(req.proxy)
    BY DEF KnownRequest, ConstructorRequest
  <1>3. req.proxy.of \in Instances
    BY <1>1 DEF ProxyType
  <1>4. req.action \notin {"removeAttribute", "request", "style", "ondialog"}
    BY <1>1, RequestsAssumption
  <1>5. ASSUME req.proxy.of \in Controllers
        PROVE  \/ req.type = "dynamic" /\ req.action \in {"mount", "unmount"}
               \/ req.type = "get" /\ req.action = "webview"
    BY <1>2, <1>5 DEF WellAimed, ClassOf, ControllerClass
  <1>6. ASSUME req.proxy.of \in Webviews
        PROVE  \/ /\ req.type = "dynamic" /\ req.action \notin {"mount", "unmount"}
                  /\ req.action = "setAttribute" => req.value \in Sources
               \/ req.type = "get" /\ req.action \in {"src", "isConnected"}
               \/ req.type = "set" /\ req.value \in Sources
    <2>1. req.proxy.of \notin Controllers
      BY <1>6, RequestsAssumption
    <2>2. /\ ClassOf(req.proxy).methods =
               {"reload", "setAttribute", "removeAttribute", "addEventListener", "executeScript",
                "getAttribute", "getUserAgent", "removeEventListener", "setUserAgentOverride"}
          /\ ClassOf(req.proxy).get = {"isConnected", "request", "src", "style"}
      BY <2>1 DEF ClassOf, WebviewClass, CommonMembers
    <2>3. req.type = "set" => req.value \in Sources
      BY RequestFields
    <2>4. QED
      BY <1>2, <1>4, <2>2, <2>3 DEF WellAimed
  <1>7. QED
    BY <1>2, <1>3, <1>5, <1>6

\* Whom the requests that change what is told are of.
LEMMA RequestChanges ==
    ASSUME NEW req \in RequestType, KnownRequest(req)
    PROVE  /\ Shows(req) => req.proxy.of \in Controllers
           /\ SetsSrc(req) => req.proxy.of \in Webviews /\ req.value \in Sources
           /\ ReadsSrc(req) => req.proxy.of \in Webviews
           /\ Shows(req) => ~ SetsSrc(req)
  <1>1. CASE req.type = "constructor"
    BY <1>1 DEF Shows, SetsSrc, ReadsSrc
  <1>2. CASE req.type # "constructor"
    <2>1. req.proxy.of \in Controllers \/ req.proxy.of \in Webviews
      BY <1>2, RequestAims, RequestsAssumption
    <2>2. QED
      BY <1>2, <2>1, RequestAims DEF Shows, SetsSrc, ReadsSrc
  <1>3. QED
    BY <1>1, <1>2

\* Answers are results or the error, and none of them is None.
LEMMA Answers ==
    /\ Error \in AnswerType /\ ~ Error.ok
    /\ \A v \in {None} \cup BOOLEAN \cup Sources \cup ProxyType :
         Result(v) \in AnswerType /\ Result(v).ok /\ Result(v).value = v
    /\ \A a \in AnswerType : a # None /\ (a.ok = TRUE \/ a = Error)
  <1>1. Error \in AnswerType /\ Error.ok = FALSE
    BY DEF Error, AnswerType
  <1>2. \A v \in {None} \cup BOOLEAN \cup Sources \cup ProxyType : Result(v) \in AnswerType
    BY DEF Result, AnswerType
  <1>3. \A v : Result(v).ok = TRUE /\ Result(v).value = v
    BY DEF Result
  <1>4. \A a \in AnswerType : a # None
    BY NoneAssumption
  <1>5. \A a \in AnswerType : a.ok = TRUE \/ a = Error
    BY DEF AnswerType
  <1>6. QED
    BY <1>1, <1>2, <1>3, <1>4, <1>5

-----------------------------------------------------------------------------
(* The queue.                                                              *)

LEMMA QueueTail ==
    ASSUME NEW S, NEW q \in Seq(S), q # <<>>
    PROVE  /\ Len(q) \in Nat /\ Len(q) >= 1
           /\ Head(q) \in S /\ Head(q) = q[1] /\ 1 \in DOMAIN q
           /\ Tail(q) \in Seq(S) /\ Len(Tail(q)) = Len(q) - 1
           /\ DOMAIN q = 1 .. Len(q) /\ DOMAIN Tail(q) = 1 .. Len(q) - 1
           /\ \A i \in DOMAIN Tail(q) : i + 1 \in DOMAIN q /\ Tail(q)[i] = q[i + 1]
           /\ Tail(q) = <<>> <=> Len(q) = 1
  <1>1. Len(q) \in Nat /\ Len(q) >= 1 /\ DOMAIN q = 1 .. Len(q) /\ 1 \in DOMAIN q
    OBVIOUS
  <1>2. Head(q) = q[1] /\ q[1] \in S
    BY <1>1
  <1>3. /\ Tail(q) \in Seq(S) /\ Len(Tail(q)) = Len(q) - 1
        /\ DOMAIN Tail(q) = 1 .. Len(q) - 1
    BY <1>1
  <1>4. \A i \in DOMAIN Tail(q) : i + 1 \in DOMAIN q /\ Tail(q)[i] = q[i + 1]
    BY <1>1, <1>3
  <1>5. Tail(q) = <<>> <=> Len(q) = 1
    <2>1. PICK t : t = Tail(q)
      OBVIOUS
    <2>2. t \in Seq(S) /\ Len(t) = Len(q) - 1
      BY <1>3, <2>1
    <2>3. t = <<>> <=> Len(q) = 1
      BY <1>1, <2>2
    <2>4. QED
      BY <2>1, <2>3
  <1>6. QED
    BY <1>1, <1>2, <1>3, <1>4, <1>5

LEMMA QueueAppend ==
    ASSUME NEW S, NEW q \in Seq(S), NEW e \in S
    PROVE  /\ Append(q, e) \in Seq(S) /\ Append(q, e) # <<>>
           /\ Len(q) \in Nat /\ Len(Append(q, e)) = Len(q) + 1
           /\ DOMAIN q = 1 .. Len(q) /\ DOMAIN Append(q, e) = 1 .. Len(q) + 1
           /\ \A i \in DOMAIN q : Append(q, e)[i] = q[i]
           /\ Append(q, e)[Len(q) + 1] = e
  OBVIOUS

-----------------------------------------------------------------------------
(* The client's steps.                                                     *)

LEMMA InitInv == Init => IInv
  <1> SUFFICES ASSUME Init
               PROVE  IInv
    OBVIOUS
  <1> USE DEF Init
  <1>1. TypeOK
    BY RequestsAssumption DEF TypeOK, EmptyTable
  <1>2. TableOK /\ PageOK
    BY DEF TableOK, PageOK, OneShown, EmptyTable
  <1>3. ProxiesKnown /\ LastIsWaitedFor /\ UntoldWhilePending
    BY DEF ProxiesKnown, LastIsWaitedFor, UntoldWhilePending
  <1>4. Told /\ AnswerIsSo
    BY DEF Told, AnswerIsSo
  <1>5. QED
    BY <1>1, <1>2, <1>3, <1>4 DEF IInv

\* What holds of the server's objects is not disturbed where they stay.
LEMMA ServerStays ==
    ASSUME IInv, UNCHANGED serverVars
    PROVE  /\ TableOK' /\ PageOK'
           /\ \A p : Known(p) => Known(p)'
           /\ \A req : KnownRequest(req) => KnownRequest(req)'
           /\ \A req, a : IsSo(req, a) => IsSo(req, a)'
  <1>1. /\ table' = table /\ webview' = webview /\ container' = container /\ src' = src
    BY DEF serverVars
  <1>2. TableOK' /\ PageOK'
    BY <1>1 DEF IInv, TableOK, PageOK, OneShown
  <1>3. \A p : Known(p) => Known(p)'
    BY <1>1 DEF Known
  <1>4. \A req : KnownRequest(req) => KnownRequest(req)'
    BY <1>3 DEF KnownRequest
  <1>5. \A req, a : IsSo(req, a) => IsSo(req, a)'
    BY <1>1, <1>3 DEF IsSo
  <1>6. QED
    BY <1>2, <1>3, <1>4, <1>5

LEMMA CallKeeps ==
    ASSUME IInv, NEW req \in RequestType, KnownRequest(req), Call(req)
    PROVE  IInv'
  <1>1. /\ request = None /\ request' = req /\ queue' = Append(queue, req)
        /\ UNCHANGED serverVars
        /\ answer' = answer /\ proxies' = proxies
        /\ toldShown' = toldShown /\ toldSrc' = toldSrc
    BY DEF Call
  <1>2. /\ table' = table /\ webview' = webview /\ container' = container /\ src' = src
    BY <1>1 DEF serverVars
  <1>3. req # None
    BY NoneAssumption
  <1>4. answer = None /\ answer' = None
    BY <1>1 DEF IInv, LastIsWaitedFor
  <1>5. queue \in Seq(RequestType)
    BY DEF IInv, TypeOK
  <1>6. /\ queue' \in Seq(RequestType) /\ queue' # <<>>
        /\ Len(queue) \in Nat /\ Len(queue') = Len(queue) + 1
        /\ DOMAIN queue = 1 .. Len(queue) /\ DOMAIN queue' = 1 .. Len(queue) + 1
        /\ \A i \in DOMAIN queue : queue'[i] = queue[i]
        /\ queue'[Len(queue) + 1] = req
    BY <1>1, <1>5, QueueAppend
  <1>7. TypeOK'
    BY <1>1, <1>2, <1>6 DEF IInv, TypeOK
  <1>8. /\ TableOK' /\ PageOK'
        /\ \A p : Known(p) => Known(p)'
        /\ \A r : KnownRequest(r) => KnownRequest(r)'
    BY <1>1, ServerStays
  <1>9. ProxiesKnown'
    BY <1>1, <1>6, <1>8 DEF IInv, ProxiesKnown
  <1>10. LastIsWaitedFor'
    BY <1>1, <1>4, <1>6 DEF LastIsWaitedFor
  <1>11. UntoldWhilePending'
    <2>1. ASSUME NEW i \in DOMAIN queue', i # Len(queue') \/ request' = None
          PROVE  i \in DOMAIN queue /\ queue'[i] = queue[i]
      BY <1>1, <1>3, <1>6, <2>1
    <2>2. QED
      BY <1>1, <2>1 DEF IInv, UntoldWhilePending, Shows, SetsSrc
  <1>12. Told' /\ AnswerIsSo'
    BY <1>1, <1>2, <1>4 DEF IInv, Told, AnswerIsSo
  <1>13. QED
    BY <1>7, <1>8, <1>9, <1>10, <1>11, <1>12 DEF IInv

\* The application's calls are of members that the class of its proxy has.
LEMMA CallsAim ==
    ASSUME IInv, Construct \/ CallMethod \/ GetProperty \/ SetProperty
    PROVE  \E req \in RequestType : KnownRequest(req) /\ Call(req)
  <1>1. \A p \in proxies : Known(p) /\ p \in ProxyType
    BY DEF IInv, ProxiesKnown, Known
  <1>2. CASE Construct
    <2>1. ConstructorRequest \in RequestType /\ KnownRequest(ConstructorRequest)
      BY DEF RequestType, KnownRequest
    <2>2. QED
      BY <1>2, <2>1 DEF Construct, sendConstructorToServerSync
  <1>3. CASE CallMethod
    <2>1. PICK p \in proxies : \E name \in ClassOf(p).methods \cap Members, v \in Sources \cup {None} :
            /\ name = "setAttribute" => v \in Sources
            /\ Call(DynamicRequest(p, name, v))
      BY <1>3 DEF CallMethod, sendToServerSync
    <2>2. PICK name \in ClassOf(p).methods \cap Members, v \in Sources \cup {None} :
            /\ name = "setAttribute" => v \in Sources
            /\ Call(DynamicRequest(p, name, v))
      BY <2>1
    <2>3. PICK req : req = DynamicRequest(p, name, v)
      OBVIOUS
    <2>4. req.type = "dynamic" /\ req.proxy = p /\ req.action = name /\ req.value = v
      BY <2>3 DEF DynamicRequest
    <2>5. req \in RequestType
      BY <1>1, <2>3 DEF DynamicRequest, RequestType
    <2>6. WellAimed(req) /\ Known(req.proxy)
      BY <1>1, <2>2, <2>4 DEF WellAimed
    <2>7. QED
      BY <2>2, <2>3, <2>5, <2>6 DEF KnownRequest
  <1>4. CASE GetProperty
    <2>1. PICK p \in proxies : \E name \in ClassOf(p).get \cap Members : Call(GetRequest(p, name))
      BY <1>4 DEF GetProperty, getProperty
    <2>2. PICK name \in ClassOf(p).get \cap Members :
            Call(GetRequest(p, name))
      BY <2>1
    <2>3. PICK req : req = GetRequest(p, name)
      OBVIOUS
    <2>4. req.type = "get" /\ req.proxy = p /\ req.action = name
      BY <2>3 DEF GetRequest
    <2>5. req \in RequestType
      BY <1>1, <2>3 DEF GetRequest, RequestType
    <2>6. WellAimed(req) /\ Known(req.proxy)
      BY <1>1, <2>2, <2>4 DEF WellAimed
    <2>7. QED
      BY <2>2, <2>3, <2>5, <2>6 DEF KnownRequest
  <1>5. CASE SetProperty
    <2>1. PICK p \in proxies : \E name \in ClassOf(p).set \cap Members, v \in Sources :
            Call(SetRequest(p, name, v))
      BY <1>5 DEF SetProperty, setProperty
    <2>2. PICK name \in ClassOf(p).set \cap Members, v \in Sources :
            Call(SetRequest(p, name, v))
      BY <2>1
    <2>3. PICK req : req = SetRequest(p, name, v)
      OBVIOUS
    <2>4. req.type = "set" /\ req.proxy = p /\ req.action = name
      BY <2>3 DEF SetRequest
    <2>5. req \in RequestType
      BY <1>1, <2>3 DEF SetRequest, RequestType
    <2>6. name \in ClassOf(p).set /\ name \notin {"style", "ondialog"}
      BY RequestsAssumption
    <2>7. name = "src" /\ p.of \notin Controllers
      BY <2>6 DEF ClassOf, ControllerClass, WebviewClass
    <2>8. WellAimed(req) /\ Known(req.proxy)
      BY <1>1, <2>2, <2>4, <2>7 DEF WellAimed
    <2>9. QED
      BY <2>2, <2>3, <2>5, <2>8 DEF KnownRequest
  <1>6. QED
    BY <1>2, <1>3, <1>4, <1>5

LEMMA TakeAnswerKeeps ==
    ASSUME IInv, TakeAnswer
    PROVE  IInv'
  <1>1. /\ answer # None /\ answer' = None /\ request' = None /\ queue' = queue
        /\ UNCHANGED serverVars
        /\ proxies' = IF GivesProxy(request, answer) THEN proxies \cup {answer.value} ELSE proxies
        /\ \/ answer.ok /\ Learn(request, answer)
           \/ ~ answer.ok /\ toldShown' = toldShown /\ toldSrc' = toldSrc
    BY DEF TakeAnswer
  <1>2. /\ table' = table /\ webview' = webview /\ container' = container /\ src' = src
    BY <1>1 DEF serverVars
  <1>3. queue = <<>> /\ request # None
    BY <1>1 DEF IInv, LastIsWaitedFor
  <1>4. request \in RequestType /\ KnownRequest(request)
    BY <1>3 DEF IInv, TypeOK, ProxiesKnown
  <1>5. answer.ok => IsSo(request, answer)
    BY <1>1 DEF IInv, AnswerIsSo
  <1>6. /\ TableOK' /\ PageOK'
        /\ \A p : Known(p) => Known(p)'
    BY <1>1, ServerStays
  <1>7. \A p \in proxies' : Known(p)
    <2>1. GivesProxy(request, answer) => Known(answer.value)
      BY <1>5 DEF GivesProxy, IsSo
    <2>2. QED
      BY <1>1, <2>1 DEF IInv, ProxiesKnown
  <1>8. ProxiesKnown' /\ LastIsWaitedFor' /\ UntoldWhilePending' /\ AnswerIsSo'
    BY <1>1, <1>3, <1>6, <1>7 DEF ProxiesKnown, LastIsWaitedFor, UntoldWhilePending, AnswerIsSo
  <1>9. toldShown' \in {None, container}
    <2>1. CASE answer.ok
      <3>1. CASE Shows(request)
        <4>1. toldShown' = IF request.action = "mount" THEN <<Webview(request.proxy.of)>> ELSE <<>>
          BY <1>1, <2>1, <3>1 DEF Learn
        <4>2. /\ request.type = "dynamic" /\ request.action \in {"mount", "unmount"}
          BY <3>1 DEF Shows
        <4>3. QED
          BY <1>5, <2>1, <4>1, <4>2 DEF IsSo
      <3>2. CASE ~ Shows(request)
        <4>1. toldShown \in {None, container}
          BY <3>2 DEF IInv, Told
        <4>2. \/ /\ toldShown' = <<request.proxy.of>>
                 /\ request.type = "get" /\ request.action = "isConnected" /\ answer.value
              \/ toldShown' = toldShown
          BY <1>1, <2>1, <3>2 DEF Learn
        <4>3. QED
          BY <1>5, <2>1, <4>1, <4>2 DEF IsSo
      <3>3. QED
        BY <3>1, <3>2
    <2>2. CASE ~ answer.ok
      BY <1>1, <2>2 DEF IInv, Told
    <2>3. QED
      BY <2>1, <2>2
  <1>10. /\ toldSrc' \in [Webviews -> Sources \cup {None}]
         /\ \A w \in Webviews : toldSrc'[w] \in {None, src[w]}
    <2>1. toldSrc \in [Webviews -> Sources \cup {None}] /\ src \in [Webviews -> Sources]
      BY DEF IInv, TypeOK
    <2>2. CASE answer.ok
      <3>1. CASE SetsSrc(request)
        <4>1. /\ toldSrc' = [toldSrc EXCEPT ![request.proxy.of] = request.value]
              /\ request.proxy.of \in Webviews /\ src[request.proxy.of] = request.value
          BY <1>1, <1>4, <1>5, <2>2, <3>1, RequestChanges DEF Learn, IsSo
        <4>2. \A w \in Webviews : w # request.proxy.of => toldSrc[w] \in {None, src[w]}
          BY DEF IInv, Told
        <4>3. QED
          BY <2>1, <4>1, <4>2
      <3>2. CASE ~ SetsSrc(request) /\ ReadsSrc(request)
        <4>1. /\ toldSrc' = [toldSrc EXCEPT ![request.proxy.of] = answer.value]
              /\ request.proxy.of \in Webviews /\ src[request.proxy.of] = answer.value
          BY <1>1, <1>4, <1>5, <2>2, <3>2, RequestChanges DEF Learn, IsSo
        <4>2. \A w \in Webviews : toldSrc[w] \in {None, src[w]}
          BY <3>2 DEF IInv, Told
        <4>3. QED
          BY <2>1, <4>1, <4>2
      <3>3. CASE ~ SetsSrc(request) /\ ~ ReadsSrc(request)
        <4>1. toldSrc' = toldSrc
          BY <1>1, <2>2, <3>3 DEF Learn
        <4>2. QED
          BY <2>1, <3>3, <4>1 DEF IInv, Told
      <3>4. QED
        BY <3>1, <3>2, <3>3
    <2>3. CASE ~ answer.ok
      BY <1>1, <2>1, <2>3 DEF IInv, Told
    <2>4. QED
      BY <2>2, <2>3
  <1>11. Told'
    BY <1>2, <1>9, <1>10 DEF Told
  <1>12. TypeOK'
    <2>1. proxies' \subseteq ProxyType
      BY <1>7 DEF Known
    <2>2. QED
      BY <1>1, <1>2, <1>10, <2>1 DEF IInv, TypeOK
  <1>13. QED
    BY <1>6, <1>8, <1>11, <1>12 DEF IInv

LEMMA TimeOutKeeps ==
    ASSUME IInv, TimeOut
    PROVE  IInv'
  <1>1. /\ request # None /\ request' = None
        /\ answer = None /\ answer' = None /\ queue' = queue /\ proxies' = proxies
        /\ UNCHANGED serverVars
        /\ toldShown' = IF Shows(request) THEN None ELSE toldShown
        /\ toldSrc' = IF SetsSrc(request) THEN [toldSrc EXCEPT ![request.proxy.of] = None]
                      ELSE toldSrc
    BY DEF TimeOut, Forget
  <1>2. /\ table' = table /\ webview' = webview /\ container' = container /\ src' = src
    BY <1>1 DEF serverVars
  <1>3. /\ queue # <<>> /\ queue[Len(queue)] = request
        /\ request \in RequestType /\ KnownRequest(request)
    BY <1>1 DEF IInv, LastIsWaitedFor, TypeOK, ProxiesKnown
  <1>4. /\ toldSrc \in [Webviews -> Sources \cup {None}]
        /\ SetsSrc(request) => request.proxy.of \in Webviews
    BY <1>3, RequestChanges DEF IInv, TypeOK
  <1>5. /\ toldSrc' \in [Webviews -> Sources \cup {None}]
        /\ \A w \in Webviews : toldSrc'[w] \in {None, toldSrc[w]}
        /\ SetsSrc(request) => toldSrc'[request.proxy.of] = None
        /\ \A i \in DOMAIN queue : SetsSrc(queue[i]) => queue[i].proxy.of \in Webviews
    <2>1. \A i \in DOMAIN queue : queue[i] \in RequestType /\ KnownRequest(queue[i])
      BY DEF IInv, TypeOK, ProxiesKnown
    <2>2. \A i \in DOMAIN queue : SetsSrc(queue[i]) => queue[i].proxy.of \in Webviews
      BY <2>1, RequestChanges
    <2>3. QED
      BY <1>1, <1>4, <2>2
  <1>6. /\ TableOK' /\ PageOK'
        /\ \A p : Known(p) => Known(p)'
        /\ \A r : KnownRequest(r) => KnownRequest(r)'
    BY <1>1, ServerStays
  <1>7. ProxiesKnown' /\ LastIsWaitedFor' /\ AnswerIsSo'
    BY <1>1, <1>6 DEF IInv, ProxiesKnown, LastIsWaitedFor, AnswerIsSo
  <1>8. UntoldWhilePending'
    <2>1. ASSUME NEW i \in DOMAIN queue
          PROVE  /\ Shows(queue[i]) => toldShown' = None
                 /\ SetsSrc(queue[i]) => toldSrc'[queue[i].proxy.of] = None
      <3>1. CASE i = Len(queue)
        BY <1>1, <1>3, <1>5, <3>1
      <3>2. CASE i # Len(queue)
        <4>1. /\ Shows(queue[i]) => toldShown = None
              /\ SetsSrc(queue[i]) => toldSrc[queue[i].proxy.of] = None
          BY <3>2 DEF IInv, UntoldWhilePending
        <4>2. QED
          BY <1>1, <1>5, <4>1
      <3>3. QED
        BY <3>1, <3>2
    <2>2. QED
      BY <1>1, <2>1 DEF UntoldWhilePending, Shows, SetsSrc
  <1>9. Told'
    <2>1. toldShown \in {None, container} /\ \A w \in Webviews : toldSrc[w] \in {None, src[w]}
      BY <1>1 DEF IInv, Told
    <2>2. QED
      BY <1>1, <1>2, <1>5, <2>1 DEF Told
  <1>10. TypeOK'
    BY <1>1, <1>2, <1>5 DEF IInv, TypeOK
  <1>11. QED
    BY <1>6, <1>7, <1>8, <1>9, <1>10 DEF IInv

LEMMA RestartKeeps ==
    ASSUME IInv, Restart
    PROVE  IInv'
  <1>1. /\ request' = None /\ answer' = None /\ queue = <<>> /\ queue' = queue /\ proxies' = {}
        /\ UNCHANGED serverVars
        /\ toldShown' = None /\ toldSrc' = [w \in Webviews |-> None]
    BY DEF Restart
  <1>2. /\ table' = table /\ webview' = webview /\ container' = container /\ src' = src
    BY <1>1 DEF serverVars
  <1>3. TableOK' /\ PageOK'
    BY <1>1, ServerStays
  <1>4. ProxiesKnown' /\ LastIsWaitedFor' /\ UntoldWhilePending' /\ AnswerIsSo'
    BY <1>1 DEF ProxiesKnown, LastIsWaitedFor, UntoldWhilePending, AnswerIsSo
  <1>5. Told' /\ TypeOK'
    BY <1>1, <1>2 DEF IInv, Told, TypeOK
  <1>6. QED
    BY <1>3, <1>4, <1>5 DEF IInv

-----------------------------------------------------------------------------
(* The server's steps.                                                     *)

\* What a handler that answers a to the oldest request req must see to: that what it
\* says is so, that it changes what is told of only as req asks for, and that proxies
\* still name their objects.
LEMMA Handled ==
    ASSUME IInv, NEW types, Handle(types), NEW req, req = Head(queue), NEW a \in AnswerType, Reply(a),
           \A p : Known(p) => Known(p)',
           container' = container \/ (a.ok /\ Shows(req)),
           \A w \in Webviews : src'[w] = src[w] \/ (a.ok /\ SetsSrc(req) /\ req.proxy.of = w),
           a.ok => IsSo(req, a)'
    PROVE  /\ ProxiesKnown' /\ LastIsWaitedFor' /\ UntoldWhilePending' /\ Told' /\ AnswerIsSo'
           /\ queue' \in Seq(RequestType) /\ request' \in RequestType \cup {None}
           /\ proxies' \subseteq ProxyType /\ toldSrc' \in [Webviews -> Sources \cup {None}]
  <1>1. /\ queue # <<>> /\ queue' = Tail(queue)
        /\ request' = request /\ proxies' = proxies
        /\ toldShown' = toldShown /\ toldSrc' = toldSrc
    BY DEF Handle, clientVars
  <1>2. /\ queue \in Seq(RequestType) /\ request \in RequestType \cup {None}
        /\ proxies \subseteq ProxyType /\ toldSrc \in [Webviews -> Sources \cup {None}]
    BY DEF IInv, TypeOK
  <1>3. /\ Len(queue) \in Nat /\ Len(queue) >= 1
        /\ req = queue[1] /\ 1 \in DOMAIN queue
        /\ queue' \in Seq(RequestType) /\ Len(queue') = Len(queue) - 1
        /\ DOMAIN queue = 1 .. Len(queue) /\ DOMAIN queue' = 1 .. Len(queue) - 1
        /\ \A i \in DOMAIN queue' : i + 1 \in DOMAIN queue /\ queue'[i] = queue[i + 1]
        /\ queue' = <<>> <=> Len(queue) = 1
    BY <1>1, <1>2, QueueTail
  <1>4. answer = None /\ a # None
    BY <1>1, Answers DEF IInv, LastIsWaitedFor
  <1>5. \A r : KnownRequest(r) => KnownRequest(r)'
    BY DEF KnownRequest
  <1>6. ProxiesKnown'
    BY <1>1, <1>3, <1>5 DEF IInv, ProxiesKnown
  <1>7. UntoldWhilePending'
    <2>1. ASSUME NEW i \in DOMAIN queue', i # Len(queue') \/ request' = None
          PROVE  /\ i + 1 \in DOMAIN queue /\ (i + 1 # Len(queue) \/ request = None)
                 /\ queue'[i] = queue[i + 1]
      BY <1>1, <1>3, <2>1
    <2>2. QED
      BY <1>1, <2>1 DEF IInv, UntoldWhilePending, Shows, SetsSrc
  <1>8. CASE request # None /\ Len(queue) = 1
    <2>1. answer' = a /\ queue' = <<>> /\ request = req
      BY <1>1, <1>3, <1>4, <1>8 DEF Reply, IInv, LastIsWaitedFor
    <2>2. LastIsWaitedFor'
      BY <1>1, <1>4, <1>8, <2>1 DEF LastIsWaitedFor
    <2>3. AnswerIsSo'
      BY <1>1, <2>1 DEF AnswerIsSo
    <2>4. toldShown \in {None, container} /\ \A w \in Webviews : toldSrc[w] \in {None, src[w]}
      BY <1>4 DEF IInv, Told
    <2>5. Told'
      BY <1>1, <1>4, <2>1, <2>4 DEF Told, Shows, SetsSrc
    <2>6. QED
      BY <1>1, <1>2, <1>3, <1>6, <1>7, <2>2, <2>3, <2>5
  <1>9. CASE ~ (request # None /\ Len(queue) = 1)
    <2>1. answer' = None
      BY <1>4, <1>9 DEF Reply
    <2>2. LastIsWaitedFor'
      <3>1. request # None => Len(queue) > 1 /\ queue[Len(queue)] = request
        BY <1>1, <1>3, <1>4, <1>9 DEF IInv, LastIsWaitedFor
      <3>2. request # None => queue' # <<>> /\ queue'[Len(queue')] = request
        BY <1>3, <3>1
      <3>3. QED
        BY <1>1, <2>1, <3>2 DEF LastIsWaitedFor
    <2>3. AnswerIsSo'
      BY <2>1 DEF AnswerIsSo
    <2>4. toldShown \in {None, container} /\ \A w \in Webviews : toldSrc[w] \in {None, src[w]}
      BY <1>4 DEF IInv, Told
    <2>5. /\ Shows(req) => toldShown = None
          /\ SetsSrc(req) => toldSrc[req.proxy.of] = None
      BY <1>3, <1>9 DEF IInv, UntoldWhilePending
    <2>6. Told'
      BY <1>1, <2>4, <2>5 DEF Told
    <2>7. QED
      BY <1>1, <1>2, <1>3, <1>6, <1>7, <2>2, <2>3, <2>6
  <1>10. QED
    BY <1>8, <1>9

\* Registering adds an id, and constructing first takes those of other Controllers away.
LEMMA Registers ==
    ASSUME IInv, table.next <= MaxId, NEW x \in Instances,
           \/ table' = SetInstance(table, x)
           \/ x \in Controllers /\ table' = Registered(x)
    PROVE  /\ table'.next = table.next + 1 /\ table'.next \in 1 .. MaxId + 1
           /\ DOMAIN table'.map \subseteq DOMAIN table.map \cup {table.next}
           /\ table.next \in DOMAIN table'.map /\ table'.map[table.next] = x
           /\ \A id \in DOMAIN table'.map \ {table.next} : table'.map[id] = table.map[id]
           /\ table' = Registered(x) =>
                \A id \in DOMAIN table'.map \ {table.next} : table'.map[id] \notin Controllers
           /\ DOMAIN table'.map \subseteq 1 .. table'.next - 1
           /\ \A id \in DOMAIN table'.map : table'.map[id] \in Instances
           /\ \A p : Known(p) => Known(p)'
           /\ Reference(x) \in ProxyType
           /\ \A p : p = Reference(x) => Known(p)'
  <1>1. PICK d : d = RemoveInstanceOfType(table, Controllers)
    OBVIOUS
  <1>2. /\ d.next = table.next
        /\ DOMAIN d.map = {id \in DOMAIN table.map : table.map[id] \notin Controllers}
        /\ \A id \in DOMAIN d.map : d.map[id] = table.map[id]
    BY <1>1 DEF RemoveInstanceOfType, IdsOfType, Without, Restrict
  <1>3. \A t : /\ SetInstance(t, x).next = t.next + 1
               /\ DOMAIN SetInstance(t, x).map = DOMAIN t.map \cup {t.next}
               /\ SetInstance(t, x).map[t.next] = x
               /\ \A id \in DOMAIN t.map \ {t.next} : SetInstance(t, x).map[id] = t.map[id]
    BY DEF SetInstance, With
  <1>4. Registered(x) = SetInstance(d, x)
    BY <1>1 DEF Registered
  <1>5. /\ table.next \in 1 .. MaxId + 1 /\ MaxId \in Nat
        /\ DOMAIN table.map \subseteq 1 .. table.next - 1
        /\ \A id \in DOMAIN table.map : table.map[id] \in Instances
    BY RequestsAssumption DEF IInv, TypeOK
  <1>6. /\ table'.next = table.next + 1
        /\ DOMAIN table'.map \subseteq DOMAIN table.map \cup {table.next}
        /\ table.next \in DOMAIN table'.map /\ table'.map[table.next] = x
        /\ \A id \in DOMAIN table'.map \ {table.next} : table'.map[id] = table.map[id]
    <2>1. CASE table' = SetInstance(table, x)
      BY <1>3, <2>1
    <2>2. CASE table' = Registered(x)
      <3>1. /\ table'.next = d.next + 1 /\ DOMAIN table'.map = DOMAIN d.map \cup {d.next}
            /\ table'.map[d.next] = x
            /\ \A id \in DOMAIN d.map \ {d.next} : table'.map[id] = d.map[id]
        BY <1>3, <1>4, <2>2
      <3>2. QED
        BY <1>2, <3>1
    <2>3. QED
      BY <2>1, <2>2
  <1>7. table' = Registered(x) =>
          \A id \in DOMAIN table'.map \ {table.next} : table'.map[id] \notin Controllers
    <2>1. ASSUME table' = Registered(x)
          PROVE  /\ DOMAIN table'.map = DOMAIN d.map \cup {d.next}
                 /\ \A id \in DOMAIN d.map \ {d.next} : table'.map[id] = d.map[id]
      BY <1>3, <1>4, <2>1
    <2>2. QED
      BY <1>2, <2>1
  <1>8. table'.next \in 1 .. MaxId + 1
    BY <1>5, <1>6
  <1>9. DOMAIN table'.map \subseteq 1 .. table'.next - 1
    BY <1>5, <1>6
  <1>10. \A id \in DOMAIN table'.map : table'.map[id] \in Instances
    BY <1>5, <1>6
  <1>11. \A p : Known(p) => Known(p)'
    <2>1. ASSUME NEW p, Known(p)
          PROVE  Known(p)'
      <3>1. p \in ProxyType /\ p.id < table.next /\ p.id \in Nat
        BY <1>5, <2>1 DEF Known, ProxyType
      <3>2. p.id \in DOMAIN table'.map => p.id \in DOMAIN table.map /\ table'.map[p.id] = table.map[p.id]
        BY <1>5, <1>6, <3>1
      <3>3. p.id < table'.next
        BY <1>5, <1>6, <3>1
      <3>4. QED
        BY <2>1, <3>1, <3>2, <3>3 DEF Known
    <2>2. QED
      BY <2>1
  <1>12. /\ Reference(x) \in ProxyType
         /\ Reference(x).id = table.next /\ Reference(x).of = x
    BY <1>5 DEF Reference, ProxyType
  <1>13. \A p : p = Reference(x) => Known(p)'
    <2>1. ASSUME NEW p, p = Reference(x)
          PROVE  Known(p)'
      <3>1. p \in ProxyType /\ p.id = table.next /\ p.of = x /\ table.next < table'.next
        BY <1>5, <1>6, <1>12, <2>1
      <3>2. QED
        BY <1>6, <3>1 DEF Known
    <2>2. QED
      BY <2>1
  <1>14. QED
    BY <1>6, <1>7, <1>8, <1>9, <1>10, <1>11, <1>12, <1>13

\* Whoever handles a request was sent a known one.
LEMMA HeadIsKnown ==
    ASSUME IInv, NEW types, Handle(types)
    PROVE  Head(queue) \in RequestType /\ KnownRequest(Head(queue)) /\ Head(queue).type \in types
  <1>1. queue # <<>> /\ queue \in Seq(RequestType) /\ Head(queue).type \in types
    BY DEF Handle, IInv, TypeOK
  <1>2. Head(queue) \in RequestType /\ Head(queue) = queue[1] /\ 1 \in DOMAIN queue
    BY <1>1, QueueTail
  <1>3. QED
    BY <1>1, <1>2 DEF IInv, ProxiesKnown

LEMMA HandleConstructorKeeps ==
    ASSUME IInv, HandleConstructor
    PROVE  IInv'
  <1>1. /\ Handle({"constructor"}) /\ table.next <= MaxId
        /\ container' = container /\ src' = src
    BY DEF HandleConstructor
  <1>2. PICK c \in Controllers \ DOMAIN webview :
          /\ webview' = With(webview, c, Webview(c))
          /\ table' = Registered(c)
          /\ Reply(Result(Reference(c)))
    BY DEF HandleConstructor
  <1>3. c \in Instances
    BY RequestsAssumption
  <1>4. /\ table'.next = table.next + 1 /\ table'.next \in 1 .. MaxId + 1
        /\ DOMAIN table'.map \subseteq DOMAIN table.map \cup {table.next}
        /\ table.next \in DOMAIN table'.map /\ table'.map[table.next] = c
        /\ \A id \in DOMAIN table'.map \ {table.next} : table'.map[id] \notin Controllers
        /\ DOMAIN table'.map \subseteq 1 .. table'.next - 1
        /\ \A id \in DOMAIN table'.map : table'.map[id] \in Instances
        /\ \A p : Known(p) => Known(p)'
        /\ Reference(c) \in ProxyType
        /\ \A p : p = Reference(c) => Known(p)'
    BY <1>1, <1>2, <1>3, Registers
  <1>5. /\ DOMAIN webview' = DOMAIN webview \cup {c} /\ webview'[c] = Webview(c)
        /\ \A d \in DOMAIN webview : webview'[d] = webview[d]
    BY <1>2 DEF With
  <1>6. Webview(c) # None
    BY <1>2, RequestsAssumption, NoneAssumption DEF Webviews
  <1>7. \A id \in DOMAIN table'.map : table'.map[id] \in Controllers => table'.map[id] = c
    BY <1>4
  <1>8. TableOK'
    BY <1>5, <1>7 DEF TableOK
  <1>9. PageOK'
    BY <1>1, <1>5, <1>6, <1>7 DEF IInv, PageOK, OneShown
  <1>10. PICK req : req = Head(queue)
    OBVIOUS
  <1>11. PICK a : a = Result(Reference(c))
    OBVIOUS
  <1>12. a \in AnswerType /\ a.value = Reference(c)
    BY <1>4, <1>11, Answers
  <1>13. req.type = "constructor"
    BY <1>1, <1>10, HeadIsKnown
  <1>14. IsSo(req, a)'
    BY <1>4, <1>12, <1>13 DEF IsSo, GivesProxy, SetsSrc, ReadsSrc
  <1>15. /\ ProxiesKnown' /\ LastIsWaitedFor' /\ UntoldWhilePending' /\ Told' /\ AnswerIsSo'
         /\ queue' \in Seq(RequestType) /\ request' \in RequestType \cup {None}
         /\ proxies' \subseteq ProxyType /\ toldSrc' \in [Webviews -> Sources \cup {None}]
    BY <1>1, <1>2, <1>4, <1>10, <1>11, <1>12, <1>14, Handled
  <1>16. TypeOK'
    <2>1. /\ DOMAIN webview' \subseteq Controllers
          /\ \A d \in DOMAIN webview' : webview'[d] \in {Webview(d), None}
      BY <1>5 DEF IInv, TypeOK
    <2>2. QED
      BY <1>1, <1>4, <1>15, <2>1 DEF IInv, TypeOK
  <1>17. QED
    BY <1>8, <1>9, <1>15, <1>16 DEF IInv

\* The types of the server's objects.
ServerTypeOK ==
    /\ table.next \in 1 .. MaxId + 1
    /\ DOMAIN table.map \subseteq 1 .. table.next - 1
    /\ \A id \in DOMAIN table.map : table.map[id] \in Instances
    /\ DOMAIN webview \subseteq Controllers
    /\ \A c \in DOMAIN webview : webview[c] \in {Webview(c), None}
    /\ container \in Seq(Webviews)
    /\ src \in [Webviews -> Sources]

\* A handler of methods and properties that does so keeps the invariant.
LEMMA HandledWell ==
    ASSUME IInv, NEW types, Handle(types), NEW req, req = Head(queue),
           ServerTypeOK', TableOK', PageOK',
           \A p : Known(p) => Known(p)',
           \E a \in AnswerType :
             /\ Reply(a)
             /\ container' = container \/ (a.ok /\ Shows(req))
             /\ \A w \in Webviews :
                  src'[w] = src[w] \/ (a.ok /\ SetsSrc(req) /\ req.proxy.of = w)
             /\ a.ok => IsSo(req, a)'
    PROVE  IInv'
  <1>1. PICK a \in AnswerType :
          /\ Reply(a)
          /\ container' = container \/ (a.ok /\ Shows(req))
          /\ \A w \in Webviews :
               src'[w] = src[w] \/ (a.ok /\ SetsSrc(req) /\ req.proxy.of = w)
          /\ a.ok => IsSo(req, a)'
    OBVIOUS
  <1>2. /\ ProxiesKnown' /\ LastIsWaitedFor' /\ UntoldWhilePending' /\ Told' /\ AnswerIsSo'
        /\ queue' \in Seq(RequestType) /\ request' \in RequestType \cup {None}
        /\ proxies' \subseteq ProxyType /\ toldSrc' \in [Webviews -> Sources \cup {None}]
    BY <1>1, Handled
  <1>3. TypeOK'
    BY <1>2 DEF TypeOK, ServerTypeOK
  <1>4. QED
    BY <1>2, <1>3 DEF IInv

\* The target of a known request is the object its proxy stands for, or none.
LEMMA Targets ==
    ASSUME IInv, NEW req \in RequestType, KnownRequest(req), req.type # "constructor",
           Target(req) # None
    PROVE  /\ Target(req) = req.proxy.of /\ req.proxy.of \in Instances
           /\ \E id \in DOMAIN table.map : table.map[id] = req.proxy.of
  <1>1. Known(req.proxy) /\ req.proxy.of \in Instances
    BY RequestAims
  <1>2. req.proxy.id \in DOMAIN table.map /\ Target(req) = table.map[req.proxy.id]
    BY DEF Target
  <1>3. QED
    BY <1>1, <1>2 DEF Known

\* The page while it shows one webview at most.
LEMMA Page ==
    ASSUME container \in Seq(Webviews), OneShown, NEW w \in Webviews
    PROVE  /\ container' = Append(WithoutVisited(container), w) => container' = <<w>>
           /\ WithoutChild(w) => container' = <<>>
           /\ IsShown(w) => container = <<w>>
           /\ container = <<w>> => IsShown(w)
  <1>1. Len(container) \in {0, 1} /\ DOMAIN container = 1 .. Len(container)
    <2>1. Len(container) \in Nat /\ DOMAIN container = 1 .. Len(container)
      OBVIOUS
    <2>2. Len(container) <= 1
      BY DEF OneShown
    <2>3. QED
      BY <2>1, <2>2
  <1>2. WithoutVisited(container) = <<>>
    <2>1. Len(container) \div 2 = 0
      BY <1>1
    <2>2. WithoutVisited(container) = [i \in 1 .. 0 |-> container[2 * i]]
      BY <2>1 DEF WithoutVisited
    <2>3. QED
      BY <2>2
  <1>3. container' = Append(WithoutVisited(container), w) => container' = <<w>>
    BY <1>2
  <1>4. IsShown(w) => container = <<w>>
    BY <1>1 DEF IsShown
  <1>5. container = <<w>> => IsShown(w)
    BY DEF IsShown
  <1>6. WithoutChild(w) => container' = <<>>
    <2>1. ASSUME NEW i \in DOMAIN container
          PROVE  SubSeq(container, 1, i - 1) \o SubSeq(container, i + 1, Len(container)) = <<>>
      <3>1. i = 1 /\ Len(container) = 1
        BY <1>1, <2>1
      <3>2. SubSeq(container, 1, 0) = <<>> /\ SubSeq(container, 2, 1) = <<>>
        OBVIOUS
      <3>3. <<>> \o <<>> = <<>>
        OBVIOUS
      <3>4. QED
        BY <3>1, <3>2, <3>3
    <2>2. QED
      BY <2>1 DEF WithoutChild
  <1>7. QED
    BY <1>3, <1>4, <1>5, <1>6

\* The types of the server's objects are part of the invariant.
LEMMA ServerTyped ==
    ASSUME IInv
    PROVE  ServerTypeOK
  BY DEF IInv, TypeOK, ServerTypeOK

\* A registered Controller was made, and is the only one.
LEMMA SoleController ==
    ASSUME IInv, NEW c \in Controllers, \E id \in DOMAIN table.map : table.map[id] = c
    PROVE  /\ c \in DOMAIN webview /\ webview[c] \in {Webview(c), None}
           /\ Webview(c) \in Webviews /\ Webview(c) # None
           /\ \A id \in DOMAIN table.map : table.map[id] \in Controllers => table.map[id] = c
           /\ webview[c] = None => container = <<>>
  <1>1. c \in DOMAIN webview
    BY DEF IInv, TableOK
  <1>2. Webview(c) \in Webviews /\ Webview(c) # None
    BY RequestsAssumption, NoneAssumption DEF Webviews
  <1>3. webview[c] \in {Webview(c), None}
    BY <1>1, ServerTyped DEF ServerTypeOK
  <1>4. QED
    BY <1>1, <1>2, <1>3 DEF IInv, TableOK, PageOK

\* mount() and unmount(), of the registered Controller.
LEMMA ControllerMethodKeeps ==
    ASSUME IInv, NEW req \in RequestType, KnownRequest(req), req.type = "dynamic",
           NEW c \in Controllers, c = req.proxy.of, \E id \in DOMAIN table.map : table.map[id] = c,
           UNCHANGED <<table, src>>,
           \/ req.action = "mount" /\ Mount(c) /\ UNCHANGED webview
           \/ req.action = "unmount" /\ Unmount(c)
    PROVE  /\ ServerTypeOK' /\ TableOK' /\ PageOK'
           /\ \E a \in AnswerType :
                /\ Reply(a)
                /\ container' = container \/ (a.ok /\ Shows(req))
                /\ a.ok => IsSo(req, a)'
  <1>1. /\ c \in DOMAIN webview /\ webview[c] \in {Webview(c), None}
        /\ Webview(c) \in Webviews /\ Webview(c) # None
        /\ \A id \in DOMAIN table.map : table.map[id] \in Controllers => table.map[id] = c
        /\ webview[c] = None => container = <<>>
    BY SoleController
  <1>2. ServerTypeOK /\ OneShown
    BY ServerTyped DEF IInv, PageOK
  <1>3. /\ Error \in AnswerType /\ ~ Error.ok
        /\ Result(None) \in AnswerType /\ Result(None).ok /\ Result(None).value = None
    BY Answers
  <1>4. PICK a : a = Result(None)
    OBVIOUS
  <1>5. CASE \/ req.action = "mount" /\ Mount(c) /\ webview[c] # None
             \/ req.action = "unmount" /\ Unmount(c) /\ (webview[c] = None \/ IsShown(webview[c]))
    <2>1. /\ Reply(a)
          /\ DOMAIN webview' = DOMAIN webview
          /\ \A d \in DOMAIN webview : webview'[d] \in {webview[d], None}
          /\ \/ /\ req.action = "mount"
                /\ container' = Append(WithoutVisited(container), Webview(c))
                /\ webview' = webview /\ webview[c] # None
             \/ req.action = "unmount" /\ webview[c] # None /\ WithoutChild(Webview(c))
             \/ req.action = "unmount" /\ webview[c] = None /\ container' = container
      BY <1>1, <1>4, <1>5 DEF Mount, Unmount
    <2>2. \/ req.action = "mount" /\ container' = <<Webview(c)>> /\ webview' = webview /\ webview[c] # None
          \/ req.action = "unmount" /\ container' = <<>>
      <3>1. container \in Seq(Webviews)
        BY <1>2 DEF ServerTypeOK
      <3>2. QED
        BY <1>1, <1>2, <2>1, <3>1, Page
    <2>3. container' \in Seq(Webviews) /\ Len(container') <= 1
      <3>1. <<>> \in Seq(Webviews) /\ Len(<<>>) <= 1
        OBVIOUS
      <3>2. <<Webview(c)>> \in Seq(Webviews) /\ Len(<<Webview(c)>>) <= 1
        BY <1>1
      <3>3. QED
        BY <2>2, <3>1, <3>2
    <2>4. ServerTypeOK' /\ TableOK'
      BY <1>2, <2>1, <2>3 DEF IInv, ServerTypeOK, TableOK
    <2>5. PageOK'
      <3>1. ASSUME NEW id \in DOMAIN table.map, table.map[id] \in Controllers,
                   webview'[table.map[id]] = None
            PROVE  container' = <<>>
        BY <1>1, <2>2, <3>1
      <3>2. QED
        BY <2>3, <3>1 DEF PageOK, OneShown
    <2>6. IsSo(req, a)'
      BY <2>2 DEF IsSo, GivesProxy, SetsSrc, ReadsSrc
    <2>7. Shows(req)
      BY <1>5 DEF Shows
    <2>8. QED
      BY <1>3, <1>4, <2>1, <2>4, <2>5, <2>6, <2>7
  <1>6. CASE ~ \/ req.action = "mount" /\ Mount(c) /\ webview[c] # None
               \/ req.action = "unmount" /\ Unmount(c) /\ (webview[c] = None \/ IsShown(webview[c]))
    <2>1. Reply(Error) /\ container' = container /\ webview' = webview
      BY <1>6 DEF Mount, Unmount
    <2>2. TableOK' /\ PageOK' /\ ServerTypeOK'
      BY <1>2, <2>1, ServerStays DEF serverVars, ServerTypeOK
    <2>3. QED
      BY <1>3, <2>1, <2>2
  <1>7. QED
    BY <1>5, <1>6

LEMMA HandleDynamicKeeps ==
    ASSUME IInv, HandleDynamic
    PROVE  IInv'
  <1>1. Handle({"dynamic"}) /\ table' = table
    BY DEF HandleDynamic
  <1>2. PICK req : req = Head(queue)
    OBVIOUS
  <1>3. req \in RequestType /\ KnownRequest(req) /\ req.type = "dynamic"
    BY <1>1, <1>2, HeadIsKnown
  <1>4. PICK x : x = Target(req)
    OBVIOUS
  <1>5. x # None => x = req.proxy.of /\ \E id \in DOMAIN table.map : table.map[id] = x
    BY <1>3, <1>4, Targets
  <1>6. \A p : Known(p) => Known(p)'
    BY <1>1 DEF Known
  <1>7. \A y \in Controllers \cup Webviews : y # None
    BY RequestsAssumption, NoneAssumption
  <1>8. CASE /\ x \in Controllers /\ UNCHANGED src
             /\ \/ req.action = "mount" /\ Mount(x) /\ UNCHANGED webview
                \/ req.action = "unmount" /\ Unmount(x)
    <2>1. /\ ServerTypeOK' /\ TableOK' /\ PageOK'
          /\ \E a \in AnswerType :
               /\ Reply(a)
               /\ container' = container \/ (a.ok /\ Shows(req))
               /\ a.ok => IsSo(req, a)'
      BY <1>1, <1>3, <1>5, <1>7, <1>8, ControllerMethodKeeps
    <2>2. \E a \in AnswerType :
            /\ Reply(a)
            /\ container' = container \/ (a.ok /\ Shows(req))
            /\ \A w \in Webviews :
                 src'[w] = src[w] \/ (a.ok /\ SetsSrc(req) /\ req.proxy.of = w)
            /\ a.ok => IsSo(req, a)'
      BY <1>8, <2>1
    <2>3. QED
      BY <1>1, <1>2, <1>6, <2>1, <2>2, HandledWell
  <1>9. CASE x \in Webviews /\ ElementMethod(x) /\ UNCHANGED <<webview, container>>
    <2>1. x = req.proxy.of /\ req.action \notin {"mount", "unmount"}
          /\ (req.action = "setAttribute" => req.value \in Sources)
      BY <1>3, <1>5, <1>7, <1>9, RequestAims
    <2>2. src \in [Webviews -> Sources]
      BY ServerTyped DEF ServerTypeOK
    <2>3. PICK a \in AnswerType :
            /\ Reply(a) /\ a.ok
            /\ \/ /\ req.action = "setAttribute"
                  /\ src' = [src EXCEPT ![x] = req.value]
               \/ /\ req.action = "getAttribute"
                  /\ src' = src /\ a.value = src[x]
               \/ /\ req.action \notin {"setAttribute", "getAttribute"}
                  /\ src' = src
      <3>1. /\ \A v \in {None} \cup BOOLEAN \cup Sources \cup ProxyType :
                 Result(v) \in AnswerType /\ Result(v).ok /\ Result(v).value = v
            /\ src[x] \in Sources
        BY <1>9, <2>2, Answers
      <3>2. CASE req.action = "setAttribute"
        BY <1>2, <1>9, <3>1, <3>2 DEF ElementMethod
      <3>3. CASE req.action = "getAttribute"
        BY <1>2, <1>9, <3>1, <3>3 DEF ElementMethod
      <3>4. CASE req.action \notin {"setAttribute", "getAttribute"}
        <4>1. TRUE \in {None} \cup BOOLEAN \cup Sources \cup ProxyType
          OBVIOUS
        <4>2. Reply(Result(TRUE)) /\ src' = src
          BY <1>2, <1>9, <3>4 DEF ElementMethod
        <4>3. Result(TRUE) \in AnswerType /\ Result(TRUE).ok
          BY <3>1, <4>1
        <4>4. QED
          BY <3>4, <4>2, <4>3
      <3>5. QED
        BY <3>2, <3>3, <3>4
    <2>4. /\ src' \in [Webviews -> Sources]
          /\ req.action = "setAttribute" => src'[x] = req.value
          /\ \A w \in Webviews : src'[w] = src[w] \/ (req.action = "setAttribute" /\ w = x)
      BY <1>9, <2>1, <2>2, <2>3
    <2>5. ServerTypeOK' /\ TableOK' /\ PageOK'
      BY <1>1, <1>9, <2>4, ServerTyped DEF IInv, ServerTypeOK, TableOK, PageOK, OneShown
    <2>6. IsSo(req, a)'
      BY <1>3, <2>1, <2>3, <2>4 DEF IsSo, GivesProxy, SetsSrc, ReadsSrc
    <2>7. \A w \in Webviews : src'[w] = src[w] \/ (a.ok /\ SetsSrc(req) /\ req.proxy.of = w)
      BY <1>3, <2>1, <2>3, <2>4 DEF SetsSrc
    <2>8. QED
      BY <1>1, <1>2, <1>6, <1>9, <2>3, <2>5, <2>6, <2>7, HandledWell
  <1>10. CASE x = None /\ Reply(Error) /\ UNCHANGED <<webview, container, src>>
    <2>1. ServerTypeOK' /\ TableOK' /\ PageOK'
      BY <1>1, <1>10, ServerTyped, ServerStays DEF serverVars, ServerTypeOK
    <2>2. QED
      BY <1>1, <1>2, <1>6, <1>10, <2>1, Answers, HandledWell
  <1>11. QED
    BY <1>2, <1>4, <1>8, <1>9, <1>10 DEF HandleDynamic

LEMMA HandlePropertyKeeps ==
    ASSUME IInv, HandleProperty
    PROVE  IInv'
  <1>1. Handle({"get", "set"}) /\ webview' = webview /\ container' = container
    BY DEF HandleProperty
  <1>2. PICK req : req = Head(queue)
    OBVIOUS
  <1>3. req \in RequestType /\ KnownRequest(req) /\ req.type \in {"get", "set"}
    BY <1>1, <1>2, HeadIsKnown
  <1>4. PICK x : x = Target(req)
    OBVIOUS
  <1>5. x # None => x = req.proxy.of /\ \E id \in DOMAIN table.map : table.map[id] = x
    BY <1>3, <1>4, Targets
  <1>6. \A y \in Controllers \cup Webviews : y # None
    BY RequestsAssumption, NoneAssumption
  <1>7. ServerTypeOK
    BY ServerTyped
  <1>8. CASE x \in Controllers /\ ControllerProperty(x) /\ UNCHANGED src
    <2>1. /\ x \in DOMAIN webview /\ webview[x] \in {Webview(x), None} /\ Webview(x) \in Webviews
      BY <1>5, <1>6, <1>8, SoleController
    <2>2. req.type = "get" /\ req.action = "webview"
      BY <1>3, <1>5, <1>6, <1>8, RequestAims
    <2>3. CASE webview[x] = None
      <3>1. Reply(Result(None)) /\ table' = table
        BY <1>8, <2>3 DEF ControllerProperty
      <3>2. ServerTypeOK' /\ TableOK' /\ PageOK' /\ \A p : Known(p) => Known(p)'
        BY <1>1, <1>7, <1>8, <3>1, ServerStays DEF serverVars, ServerTypeOK
      <3>3. PICK a : a = Result(None)
        OBVIOUS
      <3>4. a \in AnswerType /\ a.value = None
        BY <3>3, Answers
      <3>5. IsSo(req, a)'
        BY <2>2, <3>4 DEF IsSo, GivesProxy, SetsSrc, ReadsSrc
      <3>6. QED
        BY <1>1, <1>2, <1>8, <3>1, <3>2, <3>3, <3>4, <3>5, HandledWell
    <2>4. CASE webview[x] # None
      <3>1. /\ table.next <= MaxId /\ table' = SetInstance(table, Webview(x))
            /\ Reply(Result(Reference(Webview(x))))
        BY <1>8, <2>1, <2>4 DEF ControllerProperty
      <3>2. Webview(x) \in Instances /\ Webview(x) \notin Controllers
        BY <2>1, RequestsAssumption
      <3>3. /\ table'.next = table.next + 1 /\ table'.next \in 1 .. MaxId + 1
            /\ DOMAIN table'.map \subseteq DOMAIN table.map \cup {table.next}
            /\ table.next \in DOMAIN table'.map /\ table'.map[table.next] = Webview(x)
            /\ \A id \in DOMAIN table'.map \ {table.next} : table'.map[id] = table.map[id]
            /\ DOMAIN table'.map \subseteq 1 .. table'.next - 1
            /\ \A id \in DOMAIN table'.map : table'.map[id] \in Instances
            /\ \A p : Known(p) => Known(p)'
            /\ Reference(Webview(x)) \in ProxyType
            /\ \A p : p = Reference(Webview(x)) => Known(p)'
        BY <3>1, <3>2, Registers
      <3>4. \A id \in DOMAIN table'.map : table'.map[id] \in Controllers =>
              id \in DOMAIN table.map /\ table'.map[id] = table.map[id]
        BY <3>2, <3>3
      <3>5. TableOK'
        BY <1>1, <3>4 DEF IInv, TableOK
      <3>6. PageOK'
        BY <1>1, <3>4 DEF IInv, PageOK, OneShown
      <3>7. ServerTypeOK'
        BY <1>1, <1>7, <1>8, <3>3 DEF ServerTypeOK
      <3>8. PICK a : a = Result(Reference(Webview(x)))
        OBVIOUS
      <3>9. a \in AnswerType /\ a.value = Reference(Webview(x))
        BY <3>3, <3>8, Answers
      <3>10. IsSo(req, a)'
        BY <2>2, <3>3, <3>9 DEF IsSo, SetsSrc, ReadsSrc
      <3>11. QED
        BY <1>1, <1>2, <1>8, <3>1, <3>3, <3>5, <3>6, <3>7, <3>8, <3>9, <3>10, HandledWell
    <2>5. QED
      BY <2>3, <2>4
  <1>9. CASE x \in Webviews /\ ElementProperty(x) /\ UNCHANGED table
    <2>1. /\ x = req.proxy.of
          /\ \/ req.type = "get" /\ req.action \in {"src", "isConnected"}
             \/ req.type = "set" /\ req.value \in Sources
      BY <1>3, <1>5, <1>6, <1>9, RequestAims
    <2>2. \A p : Known(p) => Known(p)'
      BY <1>9 DEF Known
    <2>3. src \in [Webviews -> Sources] /\ container \in Seq(Webviews)
      BY <1>7 DEF ServerTypeOK
    <2>4. \A v \in {None} \cup BOOLEAN \cup Sources \cup ProxyType :
            Result(v) \in AnswerType /\ Result(v).ok /\ Result(v).value = v
      BY Answers
    <2>5. CASE req.type = "set"
      <3>1. src' = [src EXCEPT ![x] = req.value] /\ Reply(Result(None))
        BY <1>2, <1>9, <2>5 DEF ElementProperty
      <3>2. /\ src' \in [Webviews -> Sources] /\ src'[x] = req.value
            /\ \A w \in Webviews : w # x => src'[w] = src[w]
        BY <1>9, <2>1, <2>3, <2>5, <3>1
      <3>3. ServerTypeOK' /\ TableOK' /\ PageOK'
        BY <1>1, <1>7, <1>9, <3>2 DEF IInv, ServerTypeOK, TableOK, PageOK, OneShown
      <3>4. PICK a : a = Result(None)
        OBVIOUS
      <3>5. a \in AnswerType /\ a.ok
        BY <2>4, <3>4
      <3>6. IsSo(req, a)'
        BY <2>1, <2>5, <3>2 DEF IsSo, GivesProxy, SetsSrc, ReadsSrc
      <3>7. SetsSrc(req) /\ \A w \in Webviews : src'[w] = src[w] \/ w = req.proxy.of
        BY <2>1, <2>5, <3>2 DEF SetsSrc
      <3>8. QED
        BY <1>1, <1>2, <2>2, <3>1, <3>3, <3>4, <3>5, <3>6, <3>7, HandledWell
    <2>6. CASE req.type = "get"
      <3>1. PICK v : v = IF req.action = "src" THEN src[x] ELSE IsShown(x)
        OBVIOUS
      <3>2. src' = src /\ Reply(Result(v))
        BY <1>2, <1>9, <2>6, <3>1 DEF ElementProperty
      <3>3. v \in {None} \cup BOOLEAN \cup Sources \cup ProxyType
        <4>1. src[x] \in Sources
          BY <1>9, <2>3
        <4>2. IsShown(x) \in BOOLEAN
          BY DEF IsShown
        <4>3. QED
          BY <3>1, <4>1, <4>2
      <3>4. PICK a : a = Result(v)
        OBVIOUS
      <3>5. a \in AnswerType /\ a.ok /\ a.value = v
        BY <2>4, <3>3, <3>4
      <3>6. ServerTypeOK' /\ TableOK' /\ PageOK'
        BY <1>1, <1>7, <1>9, <3>2, ServerStays DEF serverVars, ServerTypeOK
      <3>7. req.action = "isConnected" /\ v => container = <<x>>
        <4>1. IsShown(x) => container = <<x>>
          BY <1>9, <2>3, Page DEF IInv, PageOK
        <4>2. QED
          BY <3>1, <4>1
      <3>8. IsSo(req, a)'
        BY <1>1, <2>1, <2>6, <3>1, <3>2, <3>5, <3>7 DEF IsSo, GivesProxy, SetsSrc, ReadsSrc
      <3>9. QED
        BY <1>1, <1>2, <2>2, <3>2, <3>4, <3>5, <3>6, <3>8, HandledWell
    <2>7. QED
      BY <2>1, <2>5, <2>6
  <1>10. CASE x = None /\ Reply(Error) /\ UNCHANGED <<table, src>>
    <2>1. ServerTypeOK' /\ TableOK' /\ PageOK' /\ \A p : Known(p) => Known(p)'
      BY <1>1, <1>7, <1>10, ServerStays DEF serverVars, ServerTypeOK
    <2>2. QED
      BY <1>1, <1>2, <1>10, <2>1, Answers, HandledWell
  <1>11. QED
    BY <1>2, <1>4, <1>8, <1>9, <1>10 DEF HandleProperty

-----------------------------------------------------------------------------
(* The theorems.                                                           *)

\* The invariant is inductive.
LEMMA NextKeeps ==
    ASSUME IInv, [Next]_vars
    PROVE  IInv'
  <1>1. CASE Construct \/ CallMethod \/ GetProperty \/ SetProperty
    BY <1>1, CallsAim, CallKeeps
  <1>2. CASE TakeAnswer
    BY <1>2, TakeAnswerKeeps
  <1>3. CASE TimeOut
    BY <1>3, TimeOutKeeps
  <1>4. CASE Restart
    BY <1>4, RestartKeeps
  <1>5. CASE HandleConstructor
    BY <1>5, HandleConstructorKeeps
  <1>6. CASE HandleDynamic
    BY <1>6, HandleDynamicKeeps
  <1>7. CASE HandleProperty
    BY <1>7, HandlePropertyKeeps
  <1>8. CASE UNCHANGED vars
    <2>1. UNCHANGED serverVars /\ UNCHANGED clientVars /\ queue' = queue /\ answer' = answer
      BY <1>8 DEF vars
    <2>2. /\ request' = request /\ proxies' = proxies
          /\ toldShown' = toldShown /\ toldSrc' = toldSrc
          /\ table' = table /\ webview' = webview /\ container' = container /\ src' = src
      BY <2>1 DEF serverVars, clientVars
    <2>3. /\ TableOK' /\ PageOK'
          /\ \A p : Known(p) => Known(p)'
          /\ \A r : KnownRequest(r) => KnownRequest(r)'
          /\ \A r, a : IsSo(r, a) => IsSo(r, a)'
      BY <2>1, ServerStays
    <2>4. TypeOK' /\ ProxiesKnown'
      BY <2>1, <2>2, <2>3 DEF IInv, TypeOK, ProxiesKnown
    <2>5. LastIsWaitedFor' /\ UntoldWhilePending'
      BY <2>1, <2>2 DEF IInv, LastIsWaitedFor, UntoldWhilePending, Shows, SetsSrc
    <2>6. Told' /\ AnswerIsSo'
      BY <2>1, <2>2, <2>3 DEF IInv, Told, AnswerIsSo, Shows, SetsSrc
    <2>7. QED
      BY <2>3, <2>4, <2>5, <2>6 DEF IInv
  <1>9. QED
    BY <1>1, <1>2, <1>3, <1>4, <1>5, <1>6, <1>7, <1>8 DEF Next

LEMMA Invariant == Spec => []IInv
  BY InitInv, NextKeeps, PTL DEF Spec

\* Every variable has its type (server.ts, controller.ts, base_client.cc).
THEOREM Typed == Spec => []TypeOK
  <1>1. IInv => TypeOK
    BY DEF IInv
  <1>2. QED
    BY <1>1, Invariant, PTL

\* One webview is shown at most (controller.ts:20-35), though mount() empties the page
\* by removing from the list it iterates over.
THEOREM OneIsShown == Spec => []OneShown
  <1>1. IInv => OneShown
    BY DEF IInv, PageOK
  <1>2. QED
    BY <1>1, Invariant, PTL

\* What the application was told of the page and of an element's src is so while it
\* makes no call, however late what timed out is handled.
THEOREM WhatWasToldIsSo == Spec => []ToldIsSo
  <1>1. IInv => ToldIsSo
    BY DEF IInv, Told, LastIsWaitedFor, ToldIsSo
  <1>2. QED
    BY <1>1, Invariant, PTL

\* A call that fails with an answer has changed none of the server's objects: every
\* handler that answers with the error leaves them alone.
THEOREM FailureChangesNothing == Spec => FailedChangedNothing
  <1>1. ASSUME [Next]_vars, answer = None, answer' = Error
        PROVE  UNCHANGED serverVars
    <2>1. Error # None /\ \A v : Result(v) # Error
      <3>1. Error # None
        BY Answers
      <3>2. \A v : Result(v).ok = TRUE
        BY DEF Result
      <3>3. QED
        BY <3>1, <3>2, Answers
    <2>2. \A v : ~ Reply(Result(v))
      BY <1>1, <2>1 DEF Reply
    <2>3. CASE Construct \/ CallMethod \/ GetProperty \/ SetProperty
      <3>1. \E req : Call(req)
        BY <2>3 DEF Construct, CallMethod, GetProperty, SetProperty,
                    sendConstructorToServerSync, sendToServerSync, getProperty, setProperty
      <3>2. QED
        BY <3>1 DEF Call
    <2>4. CASE TakeAnswer \/ TimeOut \/ Restart
      BY <2>4 DEF TakeAnswer, TimeOut, Restart
    <2>5. CASE HandleConstructor
      BY <2>2, <2>5 DEF HandleConstructor
    <2>6. CASE HandleDynamic
      BY <2>2, <2>6 DEF HandleDynamic, Mount, Unmount, ElementMethod, serverVars
    <2>7. CASE HandleProperty
      BY <2>2, <2>7 DEF HandleProperty, ControllerProperty, ElementProperty, serverVars
    <2>8. CASE UNCHANGED vars
      BY <2>8 DEF vars
    <2>9. QED
      BY <1>1, <2>3, <2>4, <2>5, <2>6, <2>7, <2>8 DEF Next
  <1>2. QED
    BY <1>1, PTL DEF Spec, FailedChangedNothing

=============================================================================
