----------------------------- MODULE IncidentEngine -----------------------------
(***************************************************************************)
(* IncidentEngine.ingest of src/incident/engine.ts: a runtime event passes *)
(* the noise filter, is remembered in the rolling window of its process,   *)
(* and if a trigger rule fires and the service is below its rate limit it  *)
(* is counted on the open incident of its fingerprint or opens a new one.  *)
(*                                                                         *)
(* The windows live in the memory of one process (an agent, a wrapper, a   *)
(* webhook server), the incidents in the file store they share.  ingest    *)
(* has no await, so in one process it is atomic; other processes run       *)
(* between its look at the store and its save, and between the two halves  *)
(* of the save: writeFileSync empties the file, then fills it, and whoever *)
(* lists the store in between, or after a process ended there, fails.      *)
(* One service is described: the rate limit is kept per service.           *)
(***************************************************************************)
EXTENDS Naturals, Sequences, FiniteSets

CONSTANTS
  Engine,       \* processes that ingest events
  Fingerprint,  \* the failures the events tell apart
  Noise,        \* fingerprints of the events noise_control.ignore names
  Rule,         \* triggers.create_incident_when
  DedupeWindow, \* noise_control.dedupe_window_seconds
  RateLimit,    \* noise_control.max_incidents_per_service_per_hour
  RateWindow,   \* one hour
  MinKeep,      \* the minute for which pruneRecent keeps every event
  Mortal,       \* processes that may be restarted at any time
  MaxTime       \* bound: clock ticks

EventType == {"error.log", "uncaught_exception", "process_crash", "http_5xx",
              "trace.error", "alert.webhook", "manual"}

Severity == {"critical", "high", "error", "warn", "info", "debug"}

\* delay is how long after its own timestamp an event arrives.  No intake checks the
\* severity its sender names: "fatal" stands for the words of other tools.
Event == [fp : Fingerprint, type : EventType, severity : Severity \cup {"fatal"}, delay : Nat]

RuleType == {"uncaught_exception", "process_crash", "repeated_stacktrace",
             "http_5xx_rate", "alert_webhook", "deployment_regression"}

RuleRecord == [type : RuleType, count : Nat, window : Nat, severities : SUBSET Severity]

ASSUME EngineAssumption ==
  /\ Noise \subseteq Fingerprint /\ Mortal \subseteq Engine
  /\ Rule \subseteq RuleRecord
  /\ DedupeWindow \in Nat /\ RateLimit \in Nat /\ RateWindow \in Nat
  /\ MinKeep \in Nat /\ MaxTime \in Nat

VARIABLES
  now,      \* Date.now()
  recent,   \* the rolling window of each process
  heard,    \* every event since the process started (a ghost)
  created,  \* when each process created incidents (recentIncidentsPerService)
  started,  \* when each process was started last (a ghost)
  deployed, \* when the last deploy was recorded (deploys.json), if one was
  store,    \* the incidents, in the order of their creation
  pending   \* what each process is about to do

engineVars == <<now, recent, heard, created, started, deployed, store, pending>>

Nothing == [do |-> "nothing"]

Throw == [do |-> "throw"]

Init ==
  /\ now = 0
  /\ recent = [e \in Engine |-> <<>>]
  /\ heard = [e \in Engine |-> <<>>]
  /\ created = [e \in Engine |-> <<>>]
  /\ started = [e \in Engine |-> 0]
  /\ deployed = {}
  /\ store = <<>>
  /\ pending = [e \in Engine |-> Nothing]

Before(window) == IF now < window THEN 0 ELSE now - window

\* The rules with a window_seconds.
Windowed == {r \in Rule : r.type \in {"repeated_stacktrace", "http_5xx_rate"}}

-----------------------------------------------------------------------------
(***************************************************************************)
(* pruneRecent, evaluateTriggers, rateLimited.                             *)
(***************************************************************************)
\* A slip of Windows: those of the trigger rules are forgotten.
WindowsOfNoise == {DedupeWindow, MinKeep}

Windows == {DedupeWindow, MinKeep} \cup {r.window : r \in Windowed}

\* Events are dropped from the front, up to the first that the longest window reaches.
Young(log) == {i \in DOMAIN log : \E w \in Windows : log[i].ts >= Before(w)}

Pruned(log) ==
  IF Young(log) = {} THEN <<>>
  ELSE SubSeq(log, CHOOSE i \in Young(log) : \A j \in Young(log) : i <= j, Len(log))

\* How many events of the log the rule counts together with this one.
Repeats(rule, ev, log) ==
  Cardinality({i \in DOMAIN log :
    /\ log[i].ts >= Before(rule.window)
    /\ IF rule.type = "http_5xx_rate" THEN log[i].type = "http_5xx" ELSE log[i].fp = ev.fp})

Fires(rule, ev, log) ==
  \/ rule.type \in {"uncaught_exception", "process_crash"} /\ ev.type = rule.type
  \/ rule \in Windowed /\ Repeats(rule, ev, log) >= rule.count
  \/ /\ rule.type = "alert_webhook"
     /\ ev.type = "alert.webhook" /\ ev.severity \in rule.severities
  \/ /\ rule.type = "deployment_regression"
     /\ ev.severity \notin {"info", "debug"}
     /\ \E at \in deployed : at >= Before(rule.window)

Triggered(ev, log) == \E rule \in Rule : Fires(rule, ev, log)

\* The incidents of the last hour that e knows of.
OfLastHour(e) == {k \in DOMAIN created[e] : created[e][k] >= Before(RateWindow)}

\* A slip of RateLimited: one incident too many.
RateLimitedLate(e) == Cardinality(OfLastHour(e)) > RateLimit

RateLimited(e) == Cardinality(OfLastHour(e)) >= RateLimit

-----------------------------------------------------------------------------
(***************************************************************************)
(* The store's side: findOpenByFingerprint and the record to save.         *)
(***************************************************************************)
\* A record that is being written, or was when its process ended.
Torn == \E i \in DOMAIN store : ~store[i].whole

\* A slip of OpenMatches: the last moment of the window is left out.
MatchesWithinOnly(fp) ==
  {i \in DOMAIN store : /\ store[i].fp = fp
                        /\ store[i].status = "open"
                        /\ store[i].last_seen > Before(DedupeWindow)}

OpenMatches(fp) ==
  {i \in DOMAIN store : /\ store[i].fp = fp
                        /\ store[i].status = "open"
                        /\ store[i].last_seen >= Before(DedupeWindow)}

\* list() is sorted by first_seen, the latest first.
IsFirst(i, candidates) == \A j \in candidates : store[j].first_seen <= store[i].first_seen

Stamp(ev) == IF now < ev.delay THEN 0 ELSE now - ev.delay

\* A slip of NewIncident: it starts with a status no reader knows.
NewIncidentMisnamed(e, ev, force) ==
  [fp |-> ev.fp, status |-> "new", first_seen |-> Stamp(ev), last_seen |-> Stamp(ev),
   born |-> now, by |-> e, touched |-> now, forced |-> force, whole |-> TRUE]

\* born, by, touched, forced and whole are ghosts.
NewIncident(e, ev, force) ==
  [fp |-> ev.fp, status |-> "open", first_seen |-> Stamp(ev), last_seen |-> Stamp(ev),
   born |-> now, by |-> e, touched |-> now, forced |-> force, whole |-> TRUE]

\* event_count, which goes up too, is a subject of IncidentLifecycle.
Counted(inc, ev) == [inc EXCEPT !.last_seen = Stamp(ev), !.touched = now]

\* The incident ev is counted on, or the new one, at the end of the store; raced is a
\* ghost: the incidents that others saved since this look at the store.
Found(e, ev, force) ==
  LET open == OpenMatches(ev.fp)
      Save(at, inc) == [do |-> "open", at |-> at, inc |-> inc, raced |-> {}]
  IN  IF open = {}
      THEN {[do |-> "create", inc |-> NewIncident(e, ev, force), raced |-> {}]}
      ELSE {Save(i, Counted(store[i], ev)) : i \in {j \in open : IsFirst(j, open)}}

-----------------------------------------------------------------------------
\* ingest, up to its save.
Ingest(e, ev, force) ==
  LET entry == [ts |-> now, fp |-> ev.fp, type |-> ev.type]
      log   == Pruned(Append(recent[e], entry))
  IN  /\ pending[e] = Nothing
      /\ \/ /\ ~force /\ ev.fp \in Noise
            /\ UNCHANGED <<recent, heard, pending>>
         \/ /\ force \/ ev.fp \notin Noise
            /\ recent' = [recent EXCEPT ![e] = log]
            /\ heard' = [heard EXCEPT ![e] = Append(@, entry)]
            /\ \/ /\ ~force /\ (~Triggered(ev, log) \/ RateLimited(e))
                  /\ UNCHANGED pending
               \/ /\ force \/ (Triggered(ev, log) /\ ~RateLimited(e))
                  /\ \E next \in (IF Torn THEN {Throw} ELSE Found(e, ev, force)) :
                       pending' = [pending EXCEPT ![e] = next]
      /\ UNCHANGED <<now, created, started, deployed, store>>

\* What e is about to do, and what the others are once e has saved incident i.
Saved(e, i, next) ==
  [o \in Engine |->
     IF o = e THEN next
     ELSE IF pending[o].do \in {"create", "open", "fill"}
          THEN [pending[o] EXCEPT !.raced = @ \cup {i}]
          ELSE pending[o]]

\* A file that does not exist, or that does, is opened and is empty.
OpenNew(e) ==
  /\ pending[e].do = "create"
  /\ store' = Append(store, [pending[e].inc EXCEPT !.whole = FALSE])
  /\ pending' = Saved(e, Len(store'),
                      [do |-> "fill", new |-> TRUE, at |-> Len(store'),
                       inc |-> pending[e].inc, raced |-> pending[e].raced])
  /\ UNCHANGED <<now, recent, heard, created, started, deployed>>

OpenCounted(e) ==
  LET at == pending[e].at
  IN  /\ pending[e].do = "open"
      /\ store' = [store EXCEPT ![at].whole = FALSE]
      /\ pending' = Saved(e, at,
                          [do |-> "fill", new |-> FALSE, at |-> at,
                           inc |-> pending[e].inc, raced |-> pending[e].raced])
      /\ UNCHANGED <<now, recent, heard, created, started, deployed>>

\* It is filled.  If another process has filled it meanwhile, the end of the longer
\* text may stay behind the shorter.  recordIncident follows the save of a new one.
Fill(e) ==
  LET at == pending[e].at
  IN  /\ pending[e].do = "fill"
      /\ \E whole \in (IF store[at].whole THEN BOOLEAN ELSE {TRUE}) :
           store' = [store EXCEPT ![at] = [pending[e].inc EXCEPT !.whole = whole]]
      /\ created' = IF pending[e].new THEN [created EXCEPT ![e] = Append(@, now)] ELSE created
      /\ pending' = Saved(e, at, Nothing)
      /\ UNCHANGED <<now, recent, heard, started, deployed>>

Save(e) == OpenNew(e) \/ OpenCounted(e) \/ Fill(e)

(***************************************************************************)
(* The others: `kafuops deploy', the pipeline and the mark commands that   *)
(* close an incident (merged, rejected, resolved), time, and the ends of   *)
(* processes: a restart, and an exception that nothing catches.            *)
(***************************************************************************)
RecordDeploy ==
  /\ now \notin deployed
  /\ \E r \in Rule : r.type = "deployment_regression"
  /\ deployed' = {now}
  /\ UNCHANGED <<now, recent, heard, created, started, store, pending>>

Close ==
  /\ \E i \in DOMAIN store :
       /\ store[i].status = "open" /\ store[i].whole
       /\ store' = [store EXCEPT ![i].status = "closed"]
  /\ UNCHANGED <<now, recent, heard, created, started, deployed, pending>>

Tick ==
  /\ now < MaxTime
  /\ now' = now + 1
  /\ UNCHANGED <<recent, heard, created, started, deployed, store, pending>>

\* The memory of a process that starts again.
Forget(e) ==
  /\ recent' = [recent EXCEPT ![e] = <<>>]
  /\ heard' = [heard EXCEPT ![e] = <<>>]
  /\ created' = [created EXCEPT ![e] = <<>>]
  /\ started' = [started EXCEPT ![e] = now']
  /\ pending' = [pending EXCEPT ![e] = Nothing]
  /\ UNCHANGED <<deployed, store>>

\* A restart takes a tick.
Restart(e) ==
  /\ e \in Mortal
  /\ now < MaxTime
  /\ now' = now + 1
  /\ Forget(e)

\* The event came from a timer or a stream: the exception ends the process.
Die(e) ==
  /\ pending[e] = Throw
  /\ now < MaxTime
  /\ now' = now + 1
  /\ Forget(e)

\* A request handler catches it.
Catch(e) ==
  /\ pending[e] = Throw
  /\ pending' = [pending EXCEPT ![e] = Nothing]
  /\ UNCHANGED <<now, recent, heard, created, started, deployed, store>>

Next ==
  \/ \E e \in Engine : \/ \E ev \in Event, force \in BOOLEAN : Ingest(e, ev, force)
                       \/ Save(e) \/ Restart(e) \/ Die(e) \/ Catch(e)
  \/ RecordDeploy \/ Close \/ Tick

Spec == Init /\ [][Next]_engineVars

-----------------------------------------------------------------------------

Entry == [ts : Nat, fp : Fingerprint, type : EventType]

Incident == [fp : Fingerprint, status : {"open", "closed"}, first_seen : Nat,
             last_seen : Nat, born : Nat, by : Engine, touched : Nat, forced : BOOLEAN,
             whole : BOOLEAN]

Place == DOMAIN store

\* What a process may be about to do.
Plan ==
       {Nothing, Throw}
  \cup [do : {"create"}, inc : Incident, raced : SUBSET Place]
  \cup [do : {"open"}, at : Place, inc : Incident, raced : SUBSET Place]
  \cup [do : {"fill"}, new : BOOLEAN, at : Place, inc : Incident, raced : SUBSET Place]

\* The type of the variables.
TypeOK ==
  /\ now \in Nat
  /\ recent \in [Engine -> Seq(Entry)]
  /\ heard \in [Engine -> Seq(Entry)]
  /\ created \in [Engine -> Seq(Nat)]
  /\ started \in [Engine -> Nat]
  /\ deployed \subseteq Nat
  /\ store \in Seq(Incident)
  /\ pending \in [Engine -> Plan]

\* The events a process remembers are the last ones it heard.
Kept(e) == Len(heard[e]) - Len(recent[e])

\* Pruning never takes an event away from a rule that still counts it: within the
\* window of each rule the process remembers everything it heard since it started.
TriggersSeeWholeWindow ==
  \A e \in Engine, rule \in Windowed :
    /\ recent[e] = SubSeq(heard[e], Kept(e) + 1, Len(heard[e]))
    /\ \A i \in 1 .. Kept(e) : heard[e][i].ts < Before(rule.window)

\* The incidents of the last hour that the triggers of e opened in its present life.
Opened(e) ==
  {i \in DOMAIN store : /\ store[i].by = e /\ ~store[i].forced
                        /\ store[i].born >= started[e]
                        /\ store[i].born >= Before(RateWindow)}

\* In no hour of one life of a process do its triggers create more incidents for
\* the service than the limit, those a person forces (which count, but are let
\* through) left aside.
RateIsKept == \A e \in Engine : Cardinality(Opened(e)) <= RateLimit

\* An open incident of the same failure that was counted on in time, by an event that
\* came without delay.
DuplicateOf(i, inc) ==
  /\ store[i].fp = inc.fp
  /\ store[i].status = "open"
  /\ store[i].last_seen = store[i].touched
  /\ store[i].touched + DedupeWindow >= inc.touched

\* A process opens a second incident of a failure only when the first was not counted
\* on for longer than the deduplication window, or was saved by another process since
\* this one looked, whatever is closed or forced meanwhile.
NoDuplicateOpen ==
  [][\A e \in Engine : OpenNew(e) =>
       \A i \in DOMAIN store : DuplicateOf(i, pending[e].inc) => i \in pending[e].raced]_engineVars

\* However the processes interleave, whatever is closed, forced or late, a failure has at
\* most one incident that the next event could be counted on for each of them.
DuplicatesBounded ==
  \A fp \in Fingerprint :
    Cardinality({i \in DOMAIN store :
                   /\ store[i].fp = fp /\ store[i].status = "open"
                   /\ store[i].last_seen >= Before(DedupeWindow)}) <= Cardinality(Engine)

=============================================================================
