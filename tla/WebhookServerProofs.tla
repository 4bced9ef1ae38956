-------------------------- MODULE WebhookServerProofs --------------------------
(***************************************************************************)
(* Proofs about WebhookServer: its processes do nothing to their engines   *)
(* that IncidentEngine does not describe, so that what is proved of the    *)
(* engine holds of the server; and a 200 is true.                          *)
(***************************************************************************)
EXTENDS WebhookServer, IncidentEngineProofs

Fields == [fp : Fingerprint, type : EventType \cup {Absent},
           severity : Severity \cup {"fatal", Absent}, delay : Nat]

Status == {NoAnswer, 200, 400, 401, 404, 415}

Work == [route : Routes \cup {"none"}, todo : Seq(Item), done : Seq(Item)]

ServerInv ==
  /\ request \in [Server -> Work]
  /\ named \in [Server -> SUBSET Place]
  /\ answer \in [Server -> Status]
  /\ arrivals \in Nat
  /\ \A s \in Server : request[s].todo # <<>> => request[s].route \in Routes

\* Whatever a route makes of the fields of an item is an event.
LEMMA NormalType ==
  ASSUME NEW route \in Routes, NEW item \in Item, item # Malformed
  PROVE  Normal(route, item) \in Event
<1>1. item \in Fields
  BY DEF Item, Fields
<1>2. /\ item.fp \in Fingerprint /\ item.delay \in Nat
      /\ Given(item.type, "error.log") \in EventType
      /\ \A default \in Severity : Given(item.severity, default) \in Severity \cup {"fatal"}
      /\ SentrySeverity(item.severity) \in Severity
  BY <1>1 DEF Fields, Given, EventType, Severity, SentrySeverity
<1>3. /\ {"manual", "alert.webhook", "uncaught_exception"} \subseteq EventType
      /\ {"high", "error"} \subseteq Severity
  BY DEF EventType, Severity
<1>4. CASE route \in {"events", "custom"}
  BY <1>2, <1>3, <1>4 DEF Normal, Event
<1>5. CASE route = "incidents"
  BY <1>2, <1>3, <1>5 DEF Normal, Event
<1>6. CASE route = "sentry"
  BY <1>2, <1>3, <1>6 DEF Normal, Event
<1>7. CASE route = "datadog"
  BY <1>2, <1>3, <1>7 DEF Normal, Event
<1>8. CASE route = "alertmanager"
  BY <1>2, <1>3, <1>8 DEF Normal, Event
<1>9. CASE route = "otel"
  BY <1>2, <1>3, <1>9 DEF Normal, Event
<1> QED
  BY <1>4, <1>5, <1>6, <1>7, <1>8, <1>9 DEF Routes

\* Each step of the composed processes is a step of the engines, or none.
LEMMA StepsOfEngine ==
  ASSUME ServerInv, ServerNext
  PROVE  [Next]_engineVars
<1>1. ASSUME NEW s \in Server, Receive(s) \/ Serve(s) \/ RestartServer(s)
      PROVE  [Next]_engineVars
  <2>0. s \in Engine
    BY ServerAssumption
  <2>1. CASE Receive(s) \/ Answer(s) \/ FailToRead(s) \/ PassOver(s)
    BY <2>1 DEF Receive, Answer, FailToRead, PassOver
  <2>2. CASE Handle(s)
    <3>1. request[s].todo \in Seq(Item) /\ request[s].todo # <<>>
      BY <2>2 DEF ServerInv, Work, Handle
    <3>2. NextItem(s) \in Item /\ NextItem(s) # Malformed /\ request[s].route \in Routes
      BY <2>2, <3>1, HeadTailProperties DEF ServerInv, NextItem, Handle
    <3>3. Normal(request[s].route, NextItem(s)) \in Event
      BY <3>2, NormalType
    <3>4. (request[s].route = "incidents") \in BOOLEAN
      OBVIOUS
    <3> QED
      BY <2>0, <2>2, <3>3, <3>4 DEF Handle, Next
  <2>3. CASE SaveHandled(s) \/ FailToSave(s) \/ RestartServer(s)
    BY <2>0, <2>3 DEF SaveHandled, FailToSave, RestartServer, Next
  <2> QED
    BY <1>1, <2>1, <2>2, <2>3 DEF Serve
<1>2. ASSUME NEW e \in Engine \ Server, Observe(e) \/ RunObserver(e)
      PROVE  [Next]_engineVars
  BY <1>2, ServerAssumption DEF Observe, RunObserver, Next
<1>3. CASE Environment
  BY <1>3 DEF Environment, Next
<1> QED
  BY <1>1, <1>2, <1>3 DEF ServerNext

LEMMA ServerInvInit == ServerInit => ServerInv
<1> SUFFICES ASSUME ServerInit PROVE ServerInv
  OBVIOUS
<1>1. NoRequest \in Work /\ NoRequest.todo = <<>>
  BY DEF NoRequest, Work
<1> QED
  BY <1>1 DEF ServerInit, ServerInv, NoAnswer, Status

LEMMA ReplyKeeps ==
  ASSUME ServerInv, NEW s \in Server, NEW status \in Status, Reply(s, status),
         Place \subseteq Place', arrivals' \in Nat
  PROVE  ServerInv'
<1>1. NoRequest \in Work /\ NoRequest.todo = <<>>
  BY DEF NoRequest, Work
<1>2. request' \in [Server -> Work] /\ answer' \in [Server -> Status]
  BY <1>1 DEF Reply, ServerInv
<1>3. named' \in [Server -> SUBSET Place']
  BY DEF Reply, ServerInv
<1>4. \A o \in Server : request'[o].todo # <<>> => request'[o].route \in Routes
  BY <1>1 DEF Reply, ServerInv
<1> QED
  BY <1>2, <1>3, <1>4 DEF ServerInv

LEMMA ServeKeeps ==
  ASSUME ServerInv, TypeOK, NEW s \in Server, Receive(s) \/ Serve(s) \/ RestartServer(s),
         Place \subseteq Place'
  PROVE  ServerInv'
<1>0. /\ request[s] \in Work /\ request[s].todo \in Seq(Item) /\ request[s].done \in Seq(Item)
      /\ named[s] \subseteq Place /\ s \in Engine
  BY ServerAssumption DEF ServerInv, Work
<1>1. CASE Receive(s)
  <2>1. PICK r \in Request : Refuse(s, r) \/ Accept(s, r)
    BY <1>1 DEF Receive
  <2>2. arrivals' \in Nat
    BY <1>1 DEF Receive, ServerInv
  <2>3. CASE Refuse(s, r)
    <3>1. Refusals(r) \subseteq Status
      BY DEF Refusals, Status
    <3> QED
      BY <2>2, <2>3, <3>1, ReplyKeeps DEF Refuse
  <2>4. CASE Accept(s, r)
    <3> DEFINE work == [route |-> r.route, todo |-> r.items, done |-> <<>>]
    <3>1. work \in Work /\ work.route \in Routes
      BY ServerAssumption DEF Work
    <3>2. request' = [request EXCEPT ![s] = work]
      BY <2>4 DEF Accept
    <3> HIDE DEF work
    <3>3. /\ request' \in [Server -> Work]
          /\ \A o \in Server : request'[o].todo # <<>> => request'[o].route \in Routes
      BY <3>1, <3>2 DEF ServerInv
    <3>4. named' \in [Server -> SUBSET Place'] /\ answer' \in [Server -> Status]
      BY <2>4 DEF Accept, ServerInv, Status
    <3> QED
      BY <2>2, <3>3, <3>4 DEF ServerInv
  <2> QED
    BY <2>1, <2>3, <2>4
<1>2. CASE Handle(s) \/ PassOver(s)
  <2>1. /\ request[s].todo # <<>> /\ NextItem(s) \in Item /\ Tail(request[s].todo) \in Seq(Item)
    BY <1>0, <1>2, HeadTailProperties DEF Handle, PassOver, NextItem
  <2>2. Append(request[s].done, NextItem(s)) \in Seq(Item)
    BY <1>0, <2>1, AppendProperties
  <2>3. request[s].route \in Routes
    BY <2>1 DEF ServerInv
  <2>4. PICK work \in Work : /\ request' = [request EXCEPT ![s] = work]
                             /\ work.route \in Routes
    <3>1. CASE Handle(s)
      <4> DEFINE work == [request[s] EXCEPT !.todo = Tail(@), !.done = Append(@, NextItem(s))]
      <4>1. work \in Work /\ work.route \in Routes
        BY <1>0, <2>1, <2>2, <2>3 DEF Work
      <4>2. request' = [request EXCEPT ![s] = work]
        BY <3>1 DEF Handle, Take, ServerInv
      <4> QED
        BY <4>1, <4>2
    <3>2. CASE PassOver(s)
      <4> DEFINE work == [request[s] EXCEPT !.todo = Tail(@)]
      <4>1. work \in Work /\ work.route \in Routes
        BY <1>0, <2>1, <2>3 DEF Work
      <4>2. request' = [request EXCEPT ![s] = work]
        BY <3>2 DEF PassOver, ServerInv
      <4> QED
        BY <4>1, <4>2
    <3> QED
      BY <1>2, <3>1, <3>2
  <2>5. /\ request' \in [Server -> Work]
        /\ \A o \in Server : request'[o].todo # <<>> => request'[o].route \in Routes
    BY <2>4 DEF ServerInv
  <2>6. UNCHANGED <<named, answer, arrivals>>
    BY <1>2 DEF Handle, PassOver
  <2> QED
    BY <2>5, <2>6 DEF ServerInv
<1>3. CASE SaveHandled(s)
  <2>1. UNCHANGED <<request, answer, arrivals>>
    BY <1>3 DEF SaveHandled
  <2>2. named' \in [Server -> SUBSET Place']
    <3>1. CASE named' = named
      BY <3>1 DEF ServerInv
    <3>2. CASE named' = [named EXCEPT ![s] = @ \cup {pending[s].at}] /\ pending'[s] = Nothing
      <4>1. pending[s].do = "fill"
        <5>1. CASE OpenNew(s)
          <6>1. pending'[s].do = "fill"
            BY <1>0, <5>1 DEF OpenNew, Saved
          <6> QED
            BY <3>2, <6>1 DEF Nothing
        <5>2. CASE OpenCounted(s)
          <6>1. pending'[s].do = "fill"
            BY <1>0, <5>2 DEF OpenCounted, Saved
          <6> QED
            BY <3>2, <6>1 DEF Nothing
        <5>3. CASE Fill(s)
          BY <5>3 DEF Fill
        <5> QED
          BY <1>3, <5>1, <5>2, <5>3 DEF SaveHandled, Save
      <4>2. pending[s].at \in Place
        BY <1>0, <4>1, PlanKinds DEF TypeOK, Filling
      <4> QED
        BY <3>2, <4>2 DEF ServerInv
    <3> QED
      BY <1>3, <3>1, <3>2 DEF SaveHandled
  <2> QED
    BY <2>1, <2>2 DEF ServerInv
<1>4. CASE Answer(s) \/ FailToRead(s) \/ FailToSave(s)
  <2>1. arrivals' \in Nat /\ \E status \in Status : Reply(s, status)
    BY <1>4 DEF Answer, FailToRead, FailToSave, ServerInv, Status
  <2> QED
    BY <2>1, ReplyKeeps
<1>5. CASE RestartServer(s)
  <2>1. NoRequest \in Work /\ NoRequest.todo = <<>>
    BY DEF NoRequest, Work
  <2>2. UNCHANGED <<answer, arrivals>> /\ named' \in [Server -> SUBSET Place']
    BY <1>5 DEF RestartServer, ServerInv
  <2>3. /\ request' \in [Server -> Work]
        /\ \A o \in Server : request'[o].todo # <<>> => request'[o].route \in Routes
    BY <1>5, <2>1 DEF RestartServer, ServerInv
  <2> QED
    BY <2>2, <2>3 DEF ServerInv
<1> QED
  BY <1>1, <1>2, <1>3, <1>4, <1>5 DEF Serve

LEMMA ServerInvKept ==
  ASSUME ServerInv, TypeOK, RateInv, [ServerNext]_vars
  PROVE  ServerInv' /\ [Next]_engineVars
<1>1. CASE ServerNext
  <2>1. [Next]_engineVars
    BY <1>1, StepsOfEngine
  <2>2. Place \subseteq Place'
    BY <2>1, StoreStaysAlike
  <2>3. CASE \E s \in Server : Receive(s) \/ Serve(s) \/ RestartServer(s)
    BY <2>1, <2>2, <2>3, ServeKeeps
  <2>4. CASE UNCHANGED <<request, named, answer>> /\ arrivals' \in Nat
    BY <2>1, <2>2, <2>4 DEF ServerInv
  <2>5. CASE (\E e \in Engine \ Server : Observe(e) \/ RunObserver(e)) \/ Environment
    <3>1. UNCHANGED <<request, named, answer>>
      BY <2>5 DEF Observe, RunObserver, Environment, serverVars
    <3>2. arrivals' = arrivals \/ arrivals' = arrivals + 1
      BY <2>5 DEF Observe, RunObserver, Environment, serverVars
    <3> QED
      BY <2>4, <3>1, <3>2 DEF ServerInv
  <2> QED
    BY <1>1, <2>3, <2>5 DEF ServerNext
<1>2. CASE UNCHANGED vars
  <2>1. UNCHANGED engineVars /\ UNCHANGED serverVars
    BY <1>2 DEF vars
  <2>2. Place' = Place
    BY <2>1 DEF engineVars, Place
  <2> QED
    BY <2>1, <2>2 DEF serverVars, ServerInv
<1> QED
  BY <1>1, <1>2

LEMMA ServerSteps ==
  ServerSpec => [](TypeOK /\ RateInv /\ ServerInv) /\ [][Next]_engineVars
<1> DEFINE Inv == TypeOK /\ RateInv /\ ServerInv
<1>1. ServerInit => Inv
  BY ServerInvInit, InitType, InitRate DEF ServerInit
<1>2. Inv /\ [ServerNext]_vars => Inv' /\ [Next]_engineVars
  BY ServerInvKept, NextKeepsType, NextKeepsRate
<1> QED
  BY <1>1, <1>2, PTL DEF ServerSpec

\* A webhook server, and any number of processes beside it, use their engines as
\* IncidentEngine says.
THEOREM ServersImplementEngine == ServerSpec => Spec
<1>1. ServerInit => Init
  BY DEF ServerInit
<1> QED
  BY <1>1, ServerSteps, PTL DEF ServerSpec, Spec

\* The variables of the server keep their types.
THEOREM ServerTypesHold == ServerSpec => []ServerTypeOK
<1>1. TypeOK /\ ServerInv => ServerTypeOK
  BY DEF ServerInv, ServerTypeOK, Work, Status, Place
<1> QED
  BY <1>1, ServerSteps, PTL

\* What holds of the engines holds behind the HTTP intake.
THEOREM ServersKeepEnginePromises ==
  ServerSpec =>
    /\ []TriggersSeeWholeWindow /\ []RateIsKept /\ NoDuplicateOpen
    /\ IsFiniteSet(Engine) => []DuplicatesBounded
<1>1. ServerSpec => []TriggersSeeWholeWindow /\ []RateIsKept /\ NoDuplicateOpen
  BY ServersImplementEngine, RulesMissNothing, LimitIsKept, DuplicatesComeFromRaces
<1>2. ASSUME IsFiniteSet(Engine)
      PROVE  ServerSpec => []DuplicatesBounded
  BY <1>2, ServersImplementEngine, DuplicatesDoNotAddUp
<1> QED
  BY <1>1, <1>2

-----------------------------------------------------------------------------
(***************************************************************************)
(* A 200 is true.                                                          *)
(***************************************************************************)
EventOf(s, k) == Normal(request[s].route, request[s].done[k])

\* An event that asks for nothing more.
Excused(s, ev) ==
  /\ request[s].route # "incidents"
  /\ ev.fp \in Noise \/ ~FiresAtOnce(ev) \/ Len(created[s]) >= RateLimit

Settled(s, k) == EventOf(s, k).fp \in NamedFailures(s) \/ Excused(s, EventOf(s, k))

\* The last event may still be on its way to the store, or have failed to get there.
InHand(s, k) ==
  /\ k = Len(request[s].done)
  /\ \/ /\ pending[s].do \in {"create", "open", "fill"}
        /\ pending[s].inc.fp = EventOf(s, k).fp
     \/ pending[s] = Throw

Accounted(s) == \A k \in DOMAIN request[s].done : Settled(s, k) \/ InHand(s, k)

AnswerInv == \A s \in Server : Accounted(s)

\* Whether a rule fires at once depends on nothing but the event and the rule.
LEMMA FiresAtOnceIsFixed ==
  ASSUME NEW ev
  PROVE  /\ FiresAtOnce(ev)' <=> FiresAtOnce(ev)
         /\ FiresAtOnce(ev) => \A log : Triggered(ev, log)
<1>1. ASSUME NEW rule \in Rule, NEW log,
             rule.type \in {"uncaught_exception", "process_crash", "alert_webhook"}
      PROVE  /\ Fires(rule, ev, log) <=>
                  \/ rule.type # "alert_webhook" /\ ev.type = rule.type
                  \/ /\ rule.type = "alert_webhook"
                     /\ ev.type = "alert.webhook" /\ ev.severity \in rule.severities
             /\ Fires(rule, ev, log)' <=>
                  \/ rule.type # "alert_webhook" /\ ev.type = rule.type
                  \/ /\ rule.type = "alert_webhook"
                     /\ ev.type = "alert.webhook" /\ ev.severity \in rule.severities
  BY <1>1 DEF Fires, Windowed
<1>2. FiresAtOnce(ev)' <=> FiresAtOnce(ev)
  BY <1>1 DEF FiresAtOnce
<1>3. ASSUME FiresAtOnce(ev), NEW log
      PROVE  Triggered(ev, log)
  <2>1. PICK rule \in Rule :
          /\ rule.type \in {"uncaught_exception", "process_crash", "alert_webhook"}
          /\ Fires(rule, ev, <<>>)
    BY <1>3 DEF FiresAtOnce
  <2>2. Fires(rule, ev, log)
    BY <1>1, <2>1
  <2> QED
    BY <2>2 DEF Triggered
<1> QED
  BY <1>2, <1>3

\* What is settled stays so while the request lasts.
LEMMA SettledStays ==
  ASSUME TypeOK, RateInv, ServerInv, [Next]_engineVars, NEW s \in Server,
         NEW k, Settled(s, k),
         request'[s].route = request[s].route, request'[s].done[k] = request[s].done[k],
         named[s] \subseteq named'[s], Len(created'[s]) >= Len(created[s]),
         Len(created'[s]) \in Nat
  PROVE  Settled(s, k)'
<1>1. EventOf(s, k)' = EventOf(s, k)
  BY DEF EventOf, Normal
<1>2. named[s] \subseteq Place /\ Len(created[s]) \in Nat /\ RateLimit \in Nat
  BY ServerAssumption, EngineAssumption, LenProperties DEF ServerInv, TypeOK
<1>3. NamedFailures(s) \subseteq NamedFailures(s)'
  BY <1>2, StoreStaysAlike DEF NamedFailures, Alike
<1>4. FiresAtOnce(EventOf(s, k))' <=> FiresAtOnce(EventOf(s, k))
  BY <1>1, FiresAtOnceIsFixed
<1>5. Len(created[s]) >= RateLimit => Len(created'[s]) >= RateLimit
  BY <1>2
<1> QED
  BY <1>1, <1>3, <1>4, <1>5 DEF Settled, Excused

\* What is about to be saved for s is the same, whoever has been told of another save.
SamePlan(s) ==
  /\ pending'[s].do = pending[s].do
  /\ pending[s].do \in {"create", "open", "fill"} => pending'[s].inc = pending[s].inc
  /\ pending[s] = Throw => pending'[s] = Throw

LEMMA OthersLeaveAlone ==
  ASSUME TypeOK, NEW e \in Engine, NEW s \in Engine, s # e,
         \/ \E ev \in Event, force \in BOOLEAN : Ingest(e, ev, force)
         \/ Save(e) \/ Restart(e) \/ Die(e) \/ Catch(e)
  PROVE  created'[s] = created[s] /\ SamePlan(s)
<1>1. CASE \E ev \in Event, force \in BOOLEAN : Ingest(e, ev, force)
  <2>1. pending'[s] = pending[s] /\ created' = created
    BY <1>1 DEF Ingest, TypeOK
  <2> QED
    BY <2>1 DEF SamePlan
<1>2. CASE Save(e)
  <2>1. \E at, next : pending' = Saved(e, at, next)
    BY <1>2 DEF Save, OpenNew, OpenCounted, Fill
  <2>2. SamePlan(s)
    BY <2>1, Told DEF SamePlan
  <2>3. created'[s] = created[s]
    BY <1>2 DEF Save, OpenNew, OpenCounted, Fill, TypeOK
  <2> QED
    BY <2>2, <2>3
<1>3. CASE Restart(e) \/ Die(e) \/ Catch(e)
  <2>1. pending'[s] = pending[s] /\ created'[s] = created[s]
    BY <1>3 DEF Restart, Die, Catch, Forget, TypeOK
  <2> QED
    BY <2>1 DEF SamePlan
<1> QED
  BY <1>1, <1>2, <1>3

LEMMA AccountedStays ==
  ASSUME TypeOK, RateInv, ServerInv, [Next]_engineVars, NEW s \in Server, Accounted(s),
         request'[s].route = request[s].route, request'[s].done = request[s].done,
         named'[s] = named[s], created'[s] = created[s], SamePlan(s)
  PROVE  Accounted(s)'
<1> SUFFICES ASSUME NEW k \in DOMAIN request[s].done
             PROVE  Settled(s, k)' \/ InHand(s, k)'
  BY DEF Accounted
<1>1. Len(created[s]) \in Nat /\ Len(created'[s]) >= Len(created[s])
  BY ServerAssumption, LenProperties DEF TypeOK
<1>2. CASE Settled(s, k)
  BY <1>1, <1>2, SettledStays
<1>3. CASE InHand(s, k)
  <2>1. EventOf(s, k)' = EventOf(s, k)
    BY DEF EventOf, Normal
  <2> QED
    BY <1>3, <2>1 DEF InHand, SamePlan
<1> QED
  BY <1>2, <1>3 DEF Accounted

LEMMA HandleAccounts ==
  ASSUME TypeOK, RateInv, ServerInv, [Next]_engineVars, NEW s \in Server, Accounted(s),
         Handle(s)
  PROVE  Accounted(s)'
<1>0. /\ request[s] \in Work /\ s \in Engine /\ request[s].done \in Seq(Item)
      /\ request[s].todo \in Seq(Item) /\ request[s].todo # <<>>
      /\ pending[s] = Nothing
  BY ServerAssumption DEF ServerInv, Work, Handle, Ingest
<1>1. NextItem(s) \in Item
  BY <1>0, HeadTailProperties DEF NextItem
<1>a. PICK l, ev, log : /\ l = Len(request[s].done) + 1
                       /\ ev = Normal(request[s].route, NextItem(s))
                       /\ log = Pruned(NewLog(s, ev))
  OBVIOUS
<1>2. request'[s] = [request[s] EXCEPT !.todo = Tail(@), !.done = Append(@, NextItem(s))]
  BY DEF Handle, Take, ServerInv
<1>3. request'[s].route = request[s].route
      /\ request'[s].done = Append(request[s].done, NextItem(s))
  BY <1>0, <1>2 DEF Work
<1>4. /\ request'[s].done \in Seq(Item) /\ Len(request'[s].done) = l
      /\ \A k \in 1 .. Len(request[s].done) : request'[s].done[k] = request[s].done[k]
      /\ request'[s].done[l] = NextItem(s)
      /\ DOMAIN request'[s].done = 1 .. l /\ DOMAIN request[s].done = 1 .. Len(request[s].done)
      /\ Len(request[s].done) \in Nat
  BY <1>0, <1>1, <1>3, <1>a, AppendProperties, LenProperties
<1>5. UNCHANGED <<created, named, store, now, deployed>>
  BY DEF Handle, Ingest
<1>6. ASSUME NEW k \in 1 .. Len(request[s].done)
      PROVE  Settled(s, k)'
  <2>1. Settled(s, k)
    BY <1>0, <1>4, <1>6 DEF Accounted, InHand, Nothing, Throw
  <2>2. Len(created[s]) \in Nat /\ Len(created'[s]) >= Len(created[s])
    BY <1>0, <1>5, LenProperties DEF TypeOK
  <2> QED
    BY <1>3, <1>4, <1>5, <2>1, <2>2, SettledStays
<1>7. EventOf(s, l)' = ev
  BY <1>3, <1>4, <1>a DEF EventOf, Normal
<1>8. \/ request[s].route # "incidents" /\ ev.fp \in Noise
      \/ request[s].route # "incidents" /\ (~Triggered(ev, log) \/ RateLimited(s))
      \/ \E next \in {Throw} \cup Found(s, ev, request[s].route = "incidents") :
           pending' = [pending EXCEPT ![s] = next]
  BY <1>a DEF Handle, Ingest, NewLog, NewEntry
<1>9. Settled(s, l)' \/ InHand(s, l)'
  <2>1. CASE request[s].route # "incidents" /\ ev.fp \in Noise
    BY <1>3, <1>7, <2>1 DEF Settled, Excused
  <2>2. CASE request[s].route # "incidents" /\ (~Triggered(ev, log) \/ RateLimited(s))
    <3>1. CASE ~FiresAtOnce(ev)
      <4>1. ~(FiresAtOnce(ev)')
        BY <3>1, FiresAtOnceIsFixed
      <4> QED
        BY <1>3, <1>7, <2>2, <4>1 DEF Settled, Excused
    <3>2. CASE FiresAtOnce(ev)
      <4>1. RateLimited(s)
        BY <2>2, <3>2, FiresAtOnceIsFixed
      <4>2. /\ DOMAIN created[s] = 1 .. Len(created[s]) /\ Len(created[s]) \in Nat
            /\ OfLastHour(s) \subseteq DOMAIN created[s]
        BY <1>0, LenProperties DEF TypeOK, OfLastHour
      <4>3. IsFiniteSet(1 .. Len(created[s]))
            /\ Cardinality(1 .. Len(created[s])) = Len(created[s])
        BY <4>2, FS_Interval
      <4>4. /\ Cardinality(OfLastHour(s)) <= Len(created[s])
            /\ Cardinality(OfLastHour(s)) \in Nat
        BY <4>2, <4>3, SmallerSet
      <4>5. Len(created[s]) >= RateLimit
        BY <4>1, <4>2, <4>4, EngineAssumption DEF RateLimited
      <4> QED
        BY <1>3, <1>5, <1>7, <2>2, <4>5 DEF Settled, Excused
    <3> QED
      BY <3>1, <3>2
  <2>3. CASE \E next \in {Throw} \cup Found(s, ev, request[s].route = "incidents") :
              pending' = [pending EXCEPT ![s] = next]
    <3>1. PICK next \in {Throw} \cup Found(s, ev, request[s].route = "incidents") :
            pending'[s] = next
      BY <1>0, <2>3 DEF TypeOK
    <3>2. next # Throw => next.do \in {"create", "open"} /\ next.inc.fp = ev.fp
      <4>1. CASE OpenMatches(ev.fp) = {}
        BY <3>1, <4>1 DEF Found, NewIncident
      <4>2. ASSUME OpenMatches(ev.fp) # {}, next # Throw
            PROVE  next.do = "open" /\ next.inc.fp = ev.fp
        <5>1. PICK i \in OpenMatches(ev.fp) :
                next = [do |-> "open", at |-> i, inc |-> Counted(store[i], ev), raced |-> {}]
          BY <3>1, <4>2 DEF Found
        <5>2. store[i] \in Incident /\ store[i].fp = ev.fp
          BY LenProperties, ElementOfSeq DEF TypeOK, OpenMatches
        <5> QED
          BY <5>1, <5>2 DEF Counted, Incident
      <4> QED
        BY <4>1, <4>2
    <3>3. InHand(s, l)'
      BY <1>4, <1>7, <3>1, <3>2 DEF InHand
    <3> QED
      BY <3>3
  <2> QED
    BY <1>8, <2>1, <2>2, <2>3
<1>10. \A k \in 1 .. l : k \in 1 .. Len(request[s].done) \/ k = l
  BY <1>4, <1>a
<1> QED
  BY <1>4, <1>6, <1>9, <1>10 DEF Accounted

LEMMA SaveAccounts ==
  ASSUME TypeOK, RateInv, ServerInv, [Next]_engineVars, NEW s \in Server, Accounted(s),
         SaveHandled(s)
  PROVE  Accounted(s)'
<1>0. /\ s \in Engine /\ request' = request /\ pending[s] \in Plan
      /\ store \in Seq(Incident) /\ Place = DOMAIN store
      /\ Len(created[s]) \in Nat /\ created[s] \in Seq(Nat) /\ now \in Nat
  BY ServerAssumption, LenProperties DEF SaveHandled, TypeOK, Place
<1> SUFFICES ASSUME NEW k \in DOMAIN request[s].done
             PROVE  Settled(s, k)' \/ InHand(s, k)'
  BY <1>0 DEF Accounted
<1>1. EventOf(s, k)' = EventOf(s, k)
  BY <1>0 DEF EventOf, Normal
<1>2. named[s] \subseteq named'[s]
  BY DEF SaveHandled, ServerInv
<1>3. Len(created'[s]) >= Len(created[s]) /\ Len(created'[s]) \in Nat
  <2>1. created'[s] = created[s] \/ created'[s] = Append(created[s], now)
    BY <1>0 DEF SaveHandled, Save, OpenNew, OpenCounted, Fill, TypeOK
  <2>2. Len(Append(created[s], now)) = Len(created[s]) + 1
    BY <1>0, AppendProperties
  <2> QED
    BY <1>0, <2>1, <2>2
<1>4. CASE Settled(s, k)
  BY <1>0, <1>2, <1>3, <1>4, SettledStays
<1>5. CASE InHand(s, k)
  <2>1. pending[s].do \in {"create", "open", "fill"} /\ pending[s].inc.fp = EventOf(s, k).fp
    <3>1. pending[s].do \in {"create", "open", "fill"}
      BY DEF SaveHandled, Save, OpenNew, OpenCounted, Fill
    <3>2. pending[s] # Throw
      BY <3>1 DEF Throw
    <3> QED
      BY <1>5, <3>1, <3>2 DEF InHand
  <2>2. CASE OpenNew(s) \/ OpenCounted(s)
    <3>1. pending'[s].do = "fill" /\ pending'[s].inc = pending[s].inc
      BY <1>0, <2>2 DEF OpenNew, OpenCounted, Saved
    <3> QED
      BY <1>0, <1>1, <1>5, <2>1, <3>1 DEF InHand
  <2>3. CASE Fill(s)
    <3>1. pending'[s] = Nothing /\ pending[s].do = "fill" /\ pending[s] \in Filling
      BY <1>0, <2>3, PlanKinds DEF Fill, Saved
    <3>2. pending[s].at \in named'[s]
      BY <1>0, <3>1 DEF SaveHandled, ServerInv
    <3>3. /\ pending[s].at \in Place
          /\ Alike(store'[pending[s].at], store[pending[s].at])
          /\ Alike(pending[s].inc, store[pending[s].at])
      BY <1>0, <3>1, StoreStaysAlike DEF Filling, RateInv, PlanInv
    <3>4. store'[pending[s].at].fp = EventOf(s, k)'.fp
      BY <1>1, <2>1, <3>3 DEF Alike
    <3> QED
      BY <3>2, <3>4 DEF Settled, NamedFailures
  <2> QED
    BY <2>2, <2>3 DEF SaveHandled, Save
<1> QED
  BY <1>4, <1>5 DEF Accounted

LEMMA NothingDone ==
  ASSUME NEW s \in Server, request'[s].done = <<>>
  PROVE  Accounted(s)'
  BY DEF Accounted

LEMMA AnswerInvKept ==
  ASSUME TypeOK, RateInv, ServerInv, AnswerInv, [Next]_engineVars, [ServerNext]_vars
  PROVE  AnswerInv'
<1> SUFFICES ASSUME NEW s \in Server PROVE Accounted(s)'
  BY DEF AnswerInv
<1>0. Accounted(s) /\ s \in Engine /\ request[s] \in Work
  BY ServerAssumption DEF AnswerInv, ServerInv
<1>1. CASE Receive(s) \/ Answer(s) \/ FailToRead(s) \/ FailToSave(s) \/ RestartServer(s)
  <2>1. request'[s].done = <<>>
    BY <1>1 DEF Receive, Refuse, Accept, Answer, FailToRead, FailToSave, RestartServer,
                Reply, NoRequest, ServerInv
  <2> QED
    BY <2>1, NothingDone
<1>2. CASE PassOver(s)
  <2>1. UNCHANGED <<pending, created, named>> /\ SamePlan(s)
    BY <1>2 DEF PassOver, engineVars, SamePlan
  <2>2. request'[s] = [request[s] EXCEPT !.todo = Tail(@)]
    BY <1>2 DEF PassOver, ServerInv
  <2>3. request'[s].route = request[s].route /\ request'[s].done = request[s].done
    BY <1>0, <2>2 DEF Work
  <2> QED
    BY <1>0, <2>1, <2>3, AccountedStays
<1>3. ASSUME NEW o \in Server, o # s, Receive(o) \/ Serve(o) \/ RestartServer(o)
      PROVE  Accounted(s)'
  <2>1. request'[s] = request[s] /\ named'[s] = named[s]
    BY <1>3 DEF Receive, Refuse, Accept, Serve, Handle, Take, SaveHandled, PassOver, Answer,
                FailToRead, FailToSave, RestartServer, Reply, ServerInv
  <2>2. created'[s] = created[s] /\ SamePlan(s)
    <3>1. CASE UNCHANGED engineVars
      BY <3>1 DEF engineVars, SamePlan
    <3>2. CASE \/ \E ev \in Event, force \in BOOLEAN : Ingest(o, ev, force)
               \/ Save(o) \/ Restart(o) \/ Catch(o)
      BY <1>0, <1>3, <3>2, OthersLeaveAlone, ServerAssumption
    <3>3. CASE Handle(o)
      <4>1. NextItem(o) \in Item /\ NextItem(o) # Malformed /\ request[o].route \in Routes
        <5>1. request[o].todo \in Seq(Item) /\ request[o].todo # <<>>
          BY <3>3 DEF ServerInv, Work, Handle
        <5> QED
          BY <3>3, <5>1, HeadTailProperties DEF ServerInv, NextItem, Handle
      <4>2. Normal(request[o].route, NextItem(o)) \in Event
        BY <4>1, NormalType
      <4>3. (request[o].route = "incidents") \in BOOLEAN
        OBVIOUS
      <4> QED
        BY <3>2, <3>3, <4>2, <4>3 DEF Handle
    <3> QED
      BY <1>3, <3>1, <3>2, <3>3 DEF Receive, Serve, SaveHandled, PassOver, Answer,
                                    FailToRead, FailToSave, RestartServer
  <2> QED
    BY <1>0, <2>1, <2>2, AccountedStays
<1>4. ASSUME NEW e \in Engine \ Server, Observe(e) \/ RunObserver(e)
      PROVE  Accounted(s)'
  <2>1. request' = request /\ named' = named
    BY <1>4 DEF Observe, RunObserver, serverVars
  <2>2. \/ \E ev \in Event, force \in BOOLEAN : Ingest(e, ev, force)
        \/ Save(e) \/ Restart(e) \/ Die(e)
    BY <1>4, ServerAssumption DEF Observe, RunObserver
  <2>3. created'[s] = created[s] /\ SamePlan(s)
    BY <1>0, <2>2, OthersLeaveAlone
  <2> QED
    BY <1>0, <2>1, <2>3, AccountedStays
<1>5. CASE Environment \/ UNCHANGED vars
  <2>1. UNCHANGED <<request, named, created, pending>>
    BY <1>5 DEF Environment, RecordDeploy, Close, Tick, vars, serverVars, engineVars
  <2>2. SamePlan(s)
    BY <2>1 DEF SamePlan
  <2> QED
    BY <1>0, <2>1, <2>2, AccountedStays
<1>6. CASE Handle(s)
  BY <1>0, <1>6, HandleAccounts
<1>7. CASE SaveHandled(s)
  BY <1>0, <1>7, SaveAccounts
<1> QED
  BY <1>1, <1>2, <1>3, <1>4, <1>5, <1>6, <1>7 DEF ServerNext, Serve

\* Only Answer says 200.
LEMMA AnswersAreTrue ==
  ASSUME TypeOK, ServerInv, AnswerInv, [ServerNext]_vars, NEW s \in Server,
         answer'[s] = 200, answer[s] # 200
  PROVE  /\ request[s].todo = <<>>
         /\ \A k \in DOMAIN request[s].done : Settled(s, k)
<1>1. Answer(s)
  <2>1. \A r \in Request : Refuse(s, r) => answer'[s] # 200
    BY DEF Refuse, Refusals, Reply, ServerInv
  <2>2. \A r \in Request : Accept(s, r) => answer'[s] # 200
    BY DEF Accept, NoAnswer, ServerInv
  <2>3. FailToRead(s) \/ FailToSave(s) => answer'[s] # 200
    BY DEF FailToRead, FailToSave, Reply, ServerInv
  <2>4. ~Receive(s)
    BY <2>1, <2>2 DEF Receive
  <2>5. ASSUME NEW o \in Server, o # s, Receive(o) \/ Serve(o) \/ RestartServer(o)
        PROVE  answer'[s] = answer[s]
    BY <2>5 DEF Receive, Refuse, Accept, Serve, Handle, SaveHandled, PassOver, Answer,
                FailToRead, FailToSave, RestartServer, Reply, ServerInv
  <2>6. Handle(s) \/ SaveHandled(s) \/ PassOver(s) \/ RestartServer(s) => answer' = answer
    BY DEF Handle, SaveHandled, PassOver, RestartServer
  <2>7. ASSUME \/ \E e \in Engine \ Server : Observe(e) \/ RunObserver(e)
               \/ Environment \/ UNCHANGED vars
        PROVE  answer' = answer
    BY <2>7 DEF Observe, RunObserver, Environment, vars, serverVars
  <2> QED
    BY <2>3, <2>4, <2>5, <2>6, <2>7 DEF ServerNext, Serve
<1>2. request[s].todo = <<>> /\ pending[s] = Nothing
  BY <1>1 DEF Answer
<1>3. \A k : ~InHand(s, k)
  BY <1>2 DEF InHand, Nothing, Throw
<1> QED
  BY <1>2, <1>3 DEF AnswerInv, Accounted

LEMMA AnswerInvInit == ServerInit => AnswerInv
  BY DEF ServerInit, AnswerInv, Accounted, NoRequest

\* For every set of routes' requests, rules and limits: a 200 accounts for every event of
\* the body that it answers.
THEOREM AnswerHolds == ServerSpec => AnswerIsTrue
<1> DEFINE Inv == TypeOK /\ RateInv /\ ServerInv
           Honest == \A s \in Server :
                     answer'[s] = 200 /\ answer[s] # 200 =>
                       /\ request[s].todo = <<>>
                       /\ \A k \in DOMAIN request[s].done :
                            LET ev == Normal(request[s].route, request[s].done[k])
                            IN  \/ ev.fp \in NamedFailures(s)
                                \/ /\ request[s].route # "incidents"
                                   /\ \/ ev.fp \in Noise
                                      \/ ~FiresAtOnce(ev)
                                      \/ Len(created[s]) >= RateLimit
<1>1. ServerInit => AnswerInv
  BY AnswerInvInit
<1>2. Inv /\ AnswerInv /\ [Next]_engineVars /\ [ServerNext]_vars => AnswerInv'
  BY AnswerInvKept
<1>3. Inv /\ AnswerInv /\ [ServerNext]_vars => [Honest]_vars
  BY AnswersAreTrue DEF Settled, Excused, EventOf
<1>4. ServerSpec => []Inv /\ [][Next]_engineVars
  BY ServerSteps
<1>5. ServerSpec => [][Honest]_vars
  BY <1>1, <1>2, <1>3, <1>4, PTL DEF ServerSpec
<1> QED
  BY <1>5 DEF AnswerIsTrue

=============================================================================
