----------------------------- MODULE WebhookServer -----------------------------
(***************************************************************************)
(* buildWebhookApp of src/webhooks/server.ts, the HTTP intake of `kafuops  *)
(* agent start', composed with the engine of its process and with other    *)
(* processes that feed engines of their own (`kafuops run').               *)
(*                                                                         *)
(* A handler has no await: a process works on one request at a time.  Its  *)
(* gate is followed by the events of the body, each normalised when its    *)
(* turn comes, ingested and saved, and by the answer; the same request may *)
(* be delivered again, for its senders repeat what was not answered.       *)
(* Bodies that are no JSON never reach a handler.                          *)
(***************************************************************************)
EXTENDS IncidentEngine

CONSTANTS
  Server,      \* the engines that belong to a webhook server
  Request,     \* what is sent: the route, whether its signature or token is right,
               \* whether it is declared as JSON, and the items of its body
  SecretSet,   \* the secret is in the environment
  OtelEnabled, \* observability.opentelemetry.enabled
  Seen,        \* the events the other processes observe
  MaxArrivals  \* bound: requests and observed events

Routes == {"events", "custom", "incidents", "sentry", "datadog", "alertmanager", "otel"}

\* An item the sender's fields cannot be read from.
Malformed == [malformed |-> TRUE]

\* Fields that an item leaves out.
Absent == "absent"

Item == {Malformed} \cup
  [fp : Fingerprint, type : EventType \cup {Absent}, severity : Severity \cup {"fatal", Absent},
   delay : Nat]

\* Only two routes take several events, and two read any object as an event.
ASSUME ServerAssumption ==
  /\ Server \subseteq Engine
  /\ \A r \in Request :
       /\ r \in [route : Routes, authentic : BOOLEAN, json : BOOLEAN, items : Seq(Item)]
       /\ r.route \notin {"alertmanager", "otel"} => Len(r.items) = 1
       /\ r.route \in {"incidents", "datadog"} => r.items[1] # Malformed
  /\ SecretSet \in BOOLEAN /\ OtelEnabled \in BOOLEAN
  /\ Seen \subseteq Event
  /\ MaxArrivals \in Nat

VARIABLES
  request,  \* the request a server works on
  named,    \* the incidents it will name in its answer
  answer,   \* the status of its answer to the last one
  arrivals  \* how many requests and observed events there were

serverVars == <<request, named, answer, arrivals>>
vars == <<engineVars, serverVars>>

NoRequest == [route |-> "none", todo |-> <<>>, done |-> <<>>]

NoAnswer == 0

ServerInit ==
  /\ Init
  /\ request = [s \in Server |-> NoRequest]
  /\ named = [s \in Server |-> {}]
  /\ answer = [s \in Server |-> NoAnswer]
  /\ arrivals = 0

-----------------------------------------------------------------------------
(***************************************************************************)
(* The gates, and what the senders' fields become.                         *)
(***************************************************************************)
\* The status a gate answers with: verifySignature and verifyBearer fail closed, the
\* receiver of traces checks a token only where there is a secret.
Refusals(r) ==
  CASE r.route \in {"sentry", "datadog", "alertmanager"} ->
         IF SecretSet /\ r.authentic THEN {} ELSE {401}
    [] r.route = "otel" ->
         IF ~OtelEnabled THEN {404}
         ELSE IF ~r.json THEN {415}
         ELSE IF SecretSet /\ ~r.authentic THEN {401} ELSE {}
    [] OTHER -> {}

Given(value, default) == IF value = Absent THEN default ELSE value

SentrySeverity(level) ==
  IF level = "fatal" THEN "critical" ELSE IF level = "error" THEN "error" ELSE "warn"

\* normalizeRawEvent, sentryToEvent, datadogToEvent, alertmanagerToEvent, otelToEvents and
\* the body of /v1/incidents.  Only some of them take over the sender's time.
Normal(route, item) ==
  LET As(type, severity, delay) ==
        [fp |-> item.fp, type |-> type, severity |-> severity, delay |-> delay]
  IN  CASE route \in {"events", "custom"} ->
             As(Given(item.type, "error.log"), Given(item.severity, "error"), item.delay)
        [] route = "incidents"    -> As("manual", Given(item.severity, "high"), 0)
        [] route = "sentry"       -> As("alert.webhook", SentrySeverity(item.severity), item.delay)
        [] route = "datadog"      -> As("alert.webhook", Given(item.severity, "error"), 0)
        [] route = "alertmanager" -> As("alert.webhook", Given(item.severity, "high"), item.delay)
        [] route = "otel"         -> As("uncaught_exception", "error", 0)

-----------------------------------------------------------------------------
Reply(s, status) ==
  /\ answer' = [answer EXCEPT ![s] = status]
  /\ request' = [request EXCEPT ![s] = NoRequest]
  /\ named' = [named EXCEPT ![s] = {}]

Working(s) == request[s] # NoRequest

Refuse(s, r) ==
  /\ \E status \in Refusals(r) : Reply(s, status)

Accept(s, r) ==
  /\ Refusals(r) = {}
  /\ request' = [request EXCEPT ![s] = [route |-> r.route, todo |-> r.items, done |-> <<>>]]
  /\ answer' = [answer EXCEPT ![s] = NoAnswer]
  /\ UNCHANGED named

Receive(s) ==
  /\ ~Working(s)
  /\ arrivals < MaxArrivals
  /\ arrivals' = arrivals + 1
  /\ \E r \in Request : Refuse(s, r) \/ Accept(s, r)
  /\ UNCHANGED engineVars

\* The next item, when the one before it is saved.
NextItem(s) == Head(request[s].todo)

Take(s) ==
  request' = [request EXCEPT ![s].todo = Tail(@), ![s].done = Append(@, NextItem(s))]

Handle(s) ==
  /\ Working(s) /\ request[s].todo # <<>> /\ NextItem(s) # Malformed
  /\ Ingest(s, Normal(request[s].route, NextItem(s)), request[s].route = "incidents")
  /\ Take(s)
  /\ UNCHANGED <<named, answer, arrivals>>

\* ingest returns the incident it has saved.
SaveHandled(s) ==
  /\ Save(s)
  /\ named' = IF pending'[s] = Nothing THEN [named EXCEPT ![s] = @ \cup {pending[s].at}] ELSE named
  /\ UNCHANGED <<request, answer, arrivals>>

\* otelToEvents, which reads every span before the first is ingested, passes over those
\* that are no errors or cannot be read.
PassOver(s) ==
  /\ request[s].route = "otel" /\ request[s].todo # <<>> /\ NextItem(s) = Malformed
  /\ pending[s] = Nothing
  /\ request' = [request EXCEPT ![s].todo = Tail(@)]
  /\ UNCHANGED <<engineVars, named, answer, arrivals>>

Answer(s) ==
  /\ Working(s) /\ request[s].todo = <<>> /\ pending[s] = Nothing
  /\ Reply(s, 200)
  /\ UNCHANGED <<engineVars, arrivals>>

\* What was taken from the body so far stays taken.
FailToRead(s) ==
  /\ Working(s) /\ request[s].todo # <<>> /\ NextItem(s) = Malformed
  /\ request[s].route # "otel" /\ pending[s] = Nothing
  /\ Reply(s, 400)
  /\ UNCHANGED <<engineVars, arrivals>>

\* A slip of FailToSave: the handler goes on with the rest of the batch.
FailToSaveQuietly(s) ==
  /\ Working(s)
  /\ Catch(s)
  /\ UNCHANGED serverVars

FailToSave(s) ==
  /\ Working(s)
  /\ Catch(s)
  /\ Reply(s, 400)
  /\ UNCHANGED arrivals

\* Nobody is told of what the process was working on.
RestartServer(s) ==
  /\ Restart(s)
  /\ request' = [request EXCEPT ![s] = NoRequest]
  /\ named' = [named EXCEPT ![s] = {}]
  /\ UNCHANGED <<answer, arrivals>>

Serve(s) ==
  \/ Handle(s) \/ SaveHandled(s) \/ PassOver(s)
  \/ Answer(s) \/ FailToRead(s) \/ FailToSave(s)

\* A process that feeds its engine with what it observes itself.
Observe(e) ==
  /\ arrivals < MaxArrivals
  /\ arrivals' = arrivals + 1
  /\ \E ev \in Seen : Ingest(e, ev, FALSE)
  /\ UNCHANGED <<request, named, answer>>

RunObserver(e) == (Save(e) \/ Die(e) \/ Restart(e)) /\ UNCHANGED serverVars

Environment == (RecordDeploy \/ Close \/ Tick) /\ UNCHANGED serverVars

ServerNext ==
  \/ \E s \in Server : Receive(s) \/ Serve(s) \/ RestartServer(s)
  \/ \E e \in Engine \ Server : Observe(e) \/ RunObserver(e)
  \/ Environment

ServerSpec == ServerInit /\ [][ServerNext]_vars

-----------------------------------------------------------------------------

\* The type of the variables.
ServerTypeOK ==
  /\ TypeOK
  /\ \A s \in Server :
       /\ request[s].route \in Routes \cup {"none"}
       /\ request[s].todo \in Seq(Item) /\ request[s].done \in Seq(Item)
       /\ named[s] \subseteq DOMAIN store
       /\ answer[s] \in {NoAnswer, 200, 400, 401, 404, 415}
  /\ arrivals \in Nat

\* A rule that needs no other event fires.
FiresAtOnce(ev) ==
  \E rule \in Rule :
    rule.type \in {"uncaught_exception", "process_crash", "alert_webhook"} /\ Fires(rule, ev, <<>>)

NamedFailures(s) == {store[i].fp : i \in named[s]}

\* A 200 is true: every event of the body was taken, a manual report has its incident,
\* whatever the filters and limits say, and so has each event for which a rule fires at
\* once, unless it is noise or the process has opened as many incidents as it may.
AnswerIsTrue ==
  [][\A s \in Server :
       answer'[s] = 200 /\ answer[s] # 200 =>
         /\ request[s].todo = <<>>
         /\ \A k \in DOMAIN request[s].done :
              LET ev == Normal(request[s].route, request[s].done[k])
              IN  \/ ev.fp \in NamedFailures(s)
                  \/ /\ request[s].route # "incidents"
                     /\ \/ ev.fp \in Noise
                        \/ ~FiresAtOnce(ev)
                        \/ Len(created[s]) >= RateLimit]_vars

=============================================================================
