-------------------------- MODULE IncidentEngineProofs --------------------------
(***************************************************************************)
(* Proofs about IncidentEngine, for any number of processes, fingerprints, *)
(* rules and windows: pruning never takes an event from a rule that still  *)
(* counts it, the hourly limit of a process holds, and a duplicate of an   *)
(* open incident comes only from a race between processes.                 *)
(***************************************************************************)
EXTENDS IncidentEngine, FiniteSetTheorems, SequenceTheorems, WellFoundedInduction, TLAPS

LEMMA BeforeType ==
  ASSUME now \in Nat, NEW w \in Nat
  PROVE  Before(w) \in Nat /\ Before(w) <= now
  BY DEF Before

\* Time only takes moments out of a window.
LEMMA BeforeGrows ==
  ASSUME now \in Nat, now' = now \/ now' = now + 1, NEW w \in Nat
  PROVE  Before(w)' \in Nat /\ Before(w) <= Before(w)'
<1>1. CASE now' = now
  BY <1>1 DEF Before
<1>2. CASE now' = now + 1
  BY <1>2 DEF Before
<1> QED
  BY <1>1, <1>2

LEMMA WindowsType == Windows \subseteq Nat /\ MinKeep \in Windows
  BY EngineAssumption DEF Windows, Windowed, RuleRecord

LEMMA LeastPlace ==
  ASSUME NEW S \in SUBSET Nat, S # {}
  PROVE  \E i \in S : \A j \in S : i <= j
<1>1. PICK i \in S : \A j \in S : ~(<<j, i>> \in OpToRel(<, Nat))
  BY NatLessThanWellFounded, WFMin
<1>2. \A j \in S : ~(j < i)
  BY <1>1 DEF OpToRel
<1> QED
  BY <1>2

-----------------------------------------------------------------------------
(***************************************************************************)
(* The rolling window of a process is the end of what it heard.            *)
(***************************************************************************)
LEMMA PrunedIsSuffix ==
  ASSUME now \in Nat, NEW log \in Seq(Entry), log # <<>>, log[Len(log)].ts = now
  PROVE  \E m \in 1 .. Len(log) :
           /\ Pruned(log) = SubSeq(log, m, Len(log))
           /\ \A i \in 1 .. m - 1 : \A w \in Windows : log[i].ts < Before(w)
<1>0. Len(log) \in Nat /\ Len(log) >= 1 /\ DOMAIN log = 1 .. Len(log)
  BY EmptySeq, LenProperties
<1>1. Len(log) \in Young(log)
  <2>1. MinKeep \in Windows /\ MinKeep \in Nat
    BY WindowsType
  <2>2. now >= Before(MinKeep)
    BY <2>1, BeforeType
  <2> QED
    BY <1>0, <2>1, <2>2 DEF Young
<1>2. Young(log) \subseteq 1 .. Len(log)
  BY <1>0 DEF Young
<1> DEFINE m == CHOOSE i \in Young(log) : \A j \in Young(log) : i <= j
<1>3. m \in Young(log) /\ \A j \in Young(log) : m <= j
  BY <1>1, <1>2, LeastPlace
<1>4. Pruned(log) = SubSeq(log, m, Len(log))
  BY <1>1 DEF Pruned
<1> HIDE DEF m
<1>5. m \in 1 .. Len(log)
  BY <1>2, <1>3
<1>6. ASSUME NEW i \in 1 .. m - 1, NEW w \in Windows
      PROVE  log[i].ts < Before(w)
  <2>1. i \in DOMAIN log /\ i \notin Young(log) /\ log[i] \in Entry
    BY <1>0, <1>3, <1>5
  <2>2. ~(log[i].ts >= Before(w))
    BY <2>1 DEF Young
  <2> QED
    BY <2>1, <2>2, WindowsType, BeforeType DEF Entry
<1> QED
  BY <1>4, <1>5, <1>6

-----------------------------------------------------------------------------
(***************************************************************************)
(* The types.                                                              *)
(***************************************************************************)
Creating == [do : {"create"}, inc : Incident, raced : SUBSET Place]
Opening  == [do : {"open"}, at : Place, inc : Incident, raced : SUBSET Place]
Filling  == [do : {"fill"}, new : BOOLEAN, at : Place, inc : Incident, raced : SUBSET Place]

LEMMA PlanKinds ==
  ASSUME NEW p \in Plan
  PROVE  /\ p = Nothing \/ p = Throw \/ p \in Creating \/ p \in Opening \/ p \in Filling
         /\ p.do = "create" => p \in Creating
         /\ p.do = "open" => p \in Opening
         /\ p.do = "fill" => p \in Filling
<1>1. p \in {Nothing, Throw} \/ p \in Creating \/ p \in Opening \/ p \in Filling
  BY DEF Plan, Creating, Opening, Filling
<1>2. Nothing.do = "nothing" /\ Throw.do = "throw"
  BY DEF Nothing, Throw
<1> QED
  BY <1>1, <1>2 DEF Creating, Opening, Filling

\* A plan stays one when the store grows, and when it is told of a save.
LEMMA PlanSurvives ==
  ASSUME NEW p \in Plan, Place \subseteq Place'
  PROVE  /\ p \in Plan'
         /\ \A i \in Place' : p.do \in {"create", "open", "fill"} =>
              [p EXCEPT !.raced = @ \cup {i}] \in Plan'
<1>1. CASE p = Nothing \/ p = Throw
  BY <1>1 DEF Plan, Nothing, Throw
<1>2. CASE p \in Creating
  <2>1. p \in Creating'
    BY <1>2 DEF Creating
  <2>2. \A i \in Place' : [p EXCEPT !.raced = @ \cup {i}] \in Creating'
    BY <1>2 DEF Creating
  <2> QED
    BY <2>1, <2>2 DEF Plan, Creating
<1>3. CASE p \in Opening
  <2>1. p \in Opening'
    BY <1>3 DEF Opening
  <2>2. \A i \in Place' : [p EXCEPT !.raced = @ \cup {i}] \in Opening'
    BY <1>3 DEF Opening
  <2> QED
    BY <2>1, <2>2 DEF Plan, Opening
<1>4. CASE p \in Filling
  <2>1. p \in Filling'
    BY <1>4 DEF Filling
  <2>2. \A i \in Place' : [p EXCEPT !.raced = @ \cup {i}] \in Filling'
    BY <1>4 DEF Filling
  <2> QED
    BY <2>1, <2>2 DEF Plan, Filling
<1> QED
  BY <1>1, <1>2, <1>3, <1>4, PlanKinds

\* The plans of all processes after a save.
LEMMA SavedType ==
  ASSUME TypeOK, NEW e \in Engine, NEW i \in Place', NEW next \in Plan',
         Place \subseteq Place'
  PROVE  Saved(e, i, next) \in [Engine -> Plan']
<1>1. \A o \in Engine : pending[o] \in Plan
  BY DEF TypeOK
<1> QED
  BY <1>1, PlanSurvives DEF Saved

LEMMA StampType ==
  ASSUME TypeOK, NEW ev \in Event
  PROVE  Stamp(ev) \in Nat
  BY DEF TypeOK, Stamp, Event

LEMMA FoundType ==
  ASSUME TypeOK, NEW e \in Engine, NEW ev \in Event, NEW force \in BOOLEAN,
         NEW next \in Found(e, ev, force)
  PROVE  next \in Plan
<1>0. now \in Nat /\ store \in Seq(Incident) /\ Stamp(ev) \in Nat /\ ev.fp \in Fingerprint
  BY StampType DEF TypeOK, Event
<1>1. CASE OpenMatches(ev.fp) = {}
  <2>1. NewIncident(e, ev, force) \in Incident
    BY <1>0 DEF NewIncident, Incident
  <2>2. next = [do |-> "create", inc |-> NewIncident(e, ev, force), raced |-> {}]
    BY <1>1 DEF Found
  <2> QED
    BY <2>1, <2>2 DEF Plan
<1>2. CASE OpenMatches(ev.fp) # {}
  <2>1. PICK i \in OpenMatches(ev.fp) :
          next = [do |-> "open", at |-> i, inc |-> Counted(store[i], ev), raced |-> {}]
    BY <1>2 DEF Found
  <2>2. i \in Place /\ store[i] \in Incident
    BY <1>0 DEF OpenMatches, Place
  <2>3. Counted(store[i], ev) \in Incident
    BY <1>0, <2>2 DEF Counted, Incident
  <2> QED
    BY <2>1, <2>2, <2>3 DEF Plan
<1> QED
  BY <1>1, <1>2

\* What ingest remembers of an event, and how much of it stays in the window.
NewEntry(ev) == [ts |-> now, fp |-> ev.fp, type |-> ev.type]
NewLog(e, ev) == Append(recent[e], NewEntry(ev))

LEMMA NewLogType ==
  ASSUME TypeOK, NEW e \in Engine, NEW ev \in Event
  PROVE  /\ NewEntry(ev) \in Entry
         /\ NewLog(e, ev) \in Seq(Entry)
         /\ Len(NewLog(e, ev)) = Len(recent[e]) + 1
         /\ \A i \in 1 .. Len(recent[e]) : NewLog(e, ev)[i] = recent[e][i]
         /\ NewLog(e, ev)[Len(recent[e]) + 1] = NewEntry(ev)
         /\ Pruned(NewLog(e, ev)) \in Seq(Entry)
<1>1. NewEntry(ev) \in Entry /\ recent[e] \in Seq(Entry) /\ now \in Nat
  BY DEF TypeOK, NewEntry, Entry, Event
<1>2. /\ NewLog(e, ev) \in Seq(Entry)
      /\ Len(NewLog(e, ev)) = Len(recent[e]) + 1
      /\ \A i \in 1 .. Len(recent[e]) : NewLog(e, ev)[i] = recent[e][i]
      /\ NewLog(e, ev)[Len(recent[e]) + 1] = NewEntry(ev)
  BY <1>1, AppendProperties DEF NewLog
<1>3. NewLog(e, ev) # <<>> /\ NewLog(e, ev)[Len(NewLog(e, ev))].ts = now
  BY <1>1, <1>2, EmptySeq DEF NewEntry
<1>4. PICK m \in 1 .. Len(NewLog(e, ev)) :
        Pruned(NewLog(e, ev)) = SubSeq(NewLog(e, ev), m, Len(NewLog(e, ev)))
  BY <1>1, <1>2, <1>3, PrunedIsSuffix
<1>5. SubSeq(NewLog(e, ev), m, Len(NewLog(e, ev))) \in Seq(Entry)
  <2> DEFINE log == NewLog(e, ev)
  <2>1. log \in Seq(Entry) /\ Len(log) \in Nat
    BY <1>2, LenProperties
  <2> HIDE DEF log
  <2>2. \A i \in m .. Len(log) : log[i] \in Entry
    BY <1>4, <2>1, ElementOfSeq
  <2>3. SubSeq(log, m, Len(log)) \in Seq(Entry)
    BY <1>4, <2>1, <2>2, SubSeqProperties
  <2> QED
    BY <2>3 DEF log
<1> QED
  BY <1>1, <1>2, <1>4, <1>5

LEMMA IngestKeepsType ==
  ASSUME TypeOK, NEW e \in Engine, NEW ev \in Event, NEW force \in BOOLEAN,
         Ingest(e, ev, force)
  PROVE  TypeOK'
<1>1. UNCHANGED <<now, created, started, deployed, store>>
  BY DEF Ingest
<1>2. recent' \in [Engine -> Seq(Entry)] /\ heard' \in [Engine -> Seq(Entry)]
  <2>1. /\ NewEntry(ev) \in Entry /\ Pruned(NewLog(e, ev)) \in Seq(Entry)
        /\ Append(heard[e], NewEntry(ev)) \in Seq(Entry)
    BY NewLogType, AppendProperties DEF TypeOK
  <2>2. \/ UNCHANGED <<recent, heard>>
        \/ /\ recent' = [recent EXCEPT ![e] = Pruned(NewLog(e, ev))]
           /\ heard' = [heard EXCEPT ![e] = Append(@, NewEntry(ev))]
    BY DEF Ingest, NewLog, NewEntry
  <2> QED
    BY <2>1, <2>2 DEF TypeOK
<1>3. pending' \in [Engine -> Plan]
  <2>1. \/ pending' = pending
        \/ \E next \in {Throw} \cup Found(e, ev, force) :
             pending' = [pending EXCEPT ![e] = next]
    BY DEF Ingest
  <2>2. \A next \in {Throw} \cup Found(e, ev, force) : next \in Plan
    BY FoundType DEF Plan
  <2> QED
    BY <2>1, <2>2 DEF TypeOK
<1>4. Plan' = Plan
  BY <1>1 DEF Plan, Place
<1> QED
  BY <1>1, <1>2, <1>3, <1>4 DEF TypeOK

LEMMA SaveKeepsType ==
  ASSUME TypeOK, NEW e \in Engine, Save(e)
  PROVE  TypeOK'
<1>0. /\ pending[e] \in Plan /\ store \in Seq(Incident) /\ now \in Nat
      /\ Place = 1 .. Len(store) /\ Len(store) \in Nat
  BY LenProperties DEF TypeOK, Place
<1>1. CASE OpenNew(e)
  <2>1. pending[e] \in Creating
    BY <1>0, <1>1, PlanKinds DEF OpenNew
  <2> DEFINE inc == [pending[e].inc EXCEPT !.whole = FALSE]
  <2>2. inc \in Incident
    BY <2>1 DEF Creating, Incident
  <2>3. store' = Append(store, inc)
    BY <1>1 DEF OpenNew
  <2> HIDE DEF inc
  <2>4. store' \in Seq(Incident) /\ Len(store') = Len(store) + 1 /\ Place' = 1 .. Len(store')
    BY <1>0, <2>2, <2>3, AppendProperties DEF Place
  <2>5. Place \subseteq Place' /\ Len(store') \in Place'
    BY <1>0, <2>4
  <2> DEFINE next == [do |-> "fill", new |-> TRUE, at |-> Len(store'),
                      inc |-> pending[e].inc, raced |-> pending[e].raced]
  <2>6. next \in Filling'
    BY <2>1, <2>5 DEF Creating, Filling
  <2>7. next \in Plan'
    BY <2>6 DEF Plan, Filling
  <2>8. pending' = Saved(e, Len(store'), next)
    BY <1>1 DEF OpenNew
  <2> HIDE DEF next
  <2>9. pending' \in [Engine -> Plan']
    BY <2>5, <2>7, <2>8, SavedType
  <2> QED
    BY <1>1, <2>4, <2>9 DEF TypeOK, OpenNew
<1>2. CASE OpenCounted(e)
  <2>1. pending[e] \in Opening
    BY <1>0, <1>2, PlanKinds DEF OpenCounted
  <2> DEFINE at == pending[e].at
  <2>2. at \in Place /\ store[at] \in Incident
    BY <1>0, <2>1 DEF Opening
  <2>3. store' = [store EXCEPT ![at].whole = FALSE]
    BY <1>2 DEF OpenCounted
  <2> HIDE DEF at
  <2>4. store' \in Seq(Incident) /\ Place' = Place
    <3>1. [store[at] EXCEPT !.whole = FALSE] \in Incident
      BY <2>2 DEF Incident
    <3>2. store' = [store EXCEPT ![at] = [store[at] EXCEPT !.whole = FALSE]]
      BY <1>0, <2>2, <2>3
    <3> QED
      BY <1>0, <2>2, <3>1, <3>2, ExceptSeq DEF Place
  <2> DEFINE next == [do |-> "fill", new |-> FALSE, at |-> at,
                      inc |-> pending[e].inc, raced |-> pending[e].raced]
  <2>6. next \in Filling'
    BY <2>1, <2>2, <2>4 DEF Opening, Filling
  <2>7. next \in Plan'
    BY <2>6 DEF Plan, Filling
  <2>8. pending' = Saved(e, at, next)
    BY <1>2 DEF OpenCounted, at
  <2> HIDE DEF next
  <2>9. pending' \in [Engine -> Plan']
    BY <2>2, <2>4, <2>7, <2>8, SavedType
  <2> QED
    BY <1>2, <2>4, <2>9 DEF TypeOK, OpenCounted
<1>3. CASE Fill(e)
  <2>1. pending[e] \in Filling
    BY <1>0, <1>3, PlanKinds DEF Fill
  <2> DEFINE at == pending[e].at
  <2>2. PICK whole \in BOOLEAN :
          store' = [store EXCEPT ![at] = [pending[e].inc EXCEPT !.whole = whole]]
    BY <1>3 DEF Fill
  <2>3. at \in Place /\ [pending[e].inc EXCEPT !.whole = whole] \in Incident
    BY <2>1 DEF Filling, Incident
  <2>4. store' \in Seq(Incident) /\ Place' = Place
    BY <1>0, <2>2, <2>3, ExceptSeq DEF Place
  <2>5. created' \in [Engine -> Seq(Nat)]
    <3>1. Append(created[e], now) \in Seq(Nat)
      BY <1>0, AppendProperties DEF TypeOK
    <3> QED
      BY <1>3, <3>1 DEF Fill, TypeOK
  <2>6. Nothing \in Plan'
    BY DEF Plan
  <2>7. pending' \in [Engine -> Plan']
    BY <1>3, <2>3, <2>4, <2>6, SavedType DEF Fill
  <2> QED
    BY <1>3, <2>4, <2>5, <2>7 DEF TypeOK, Fill
<1> QED
  BY <1>1, <1>2, <1>3 DEF Save

LEMMA ForgetKeepsType ==
  ASSUME TypeOK, NEW e \in Engine, Forget(e), now' = now + 1
  PROVE  TypeOK'
<1>1. Plan' = Plan /\ Nothing \in Plan
  BY DEF Forget, Plan, Place
<1>2. now' \in Nat /\ <<>> \in Seq(Entry) /\ <<>> \in Seq(Nat)
  BY DEF TypeOK
<1> QED
  BY <1>1, <1>2 DEF Forget, TypeOK

LEMMA OthersKeepType ==
  ASSUME TypeOK, RecordDeploy \/ Close \/ Tick \/ (\E e \in Engine : Catch(e))
  PROVE  TypeOK'
<1>1. CASE RecordDeploy
  <2>1. Plan' = Plan
    BY <1>1 DEF RecordDeploy, Plan, Place
  <2> QED
    BY <1>1, <2>1 DEF RecordDeploy, TypeOK
<1>2. CASE Close
  <2>1. PICK i \in DOMAIN store : store' = [store EXCEPT ![i].status = "closed"]
    BY <1>2 DEF Close
  <2>2. store[i] \in Incident
    BY <2>1, ElementOfSeq DEF TypeOK
  <2>3. [store[i] EXCEPT !.status = "closed"] \in Incident
    BY <2>2 DEF Incident
  <2>4. store' = [store EXCEPT ![i] = [store[i] EXCEPT !.status = "closed"]]
    BY <2>1
  <2>5. store' \in Seq(Incident) /\ DOMAIN store' = DOMAIN store
    BY <2>1, <2>3, <2>4, ExceptSeq DEF TypeOK
  <2>6. Plan' = Plan
    BY <2>5 DEF Plan, Place
  <2> QED
    BY <1>2, <2>5, <2>6 DEF Close, TypeOK
<1>3. CASE Tick
  <2>1. Plan' = Plan
    BY <1>3 DEF Tick, Plan, Place
  <2> QED
    BY <1>3, <2>1 DEF Tick, TypeOK
<1>4. CASE \E e \in Engine : Catch(e)
  <2>1. PICK e \in Engine : Catch(e)
    BY <1>4
  <2>2. Plan' = Plan /\ Nothing \in Plan
    BY <2>1 DEF Catch, Plan, Place
  <2> QED
    BY <2>1, <2>2 DEF Catch, TypeOK
<1> QED
  BY <1>1, <1>2, <1>3, <1>4

LEMMA InitType == Init => TypeOK
<1> SUFFICES ASSUME Init PROVE TypeOK
  OBVIOUS
<1>1. <<>> \in Seq(Entry) /\ <<>> \in Seq(Nat) /\ <<>> \in Seq(Incident)
  OBVIOUS
<1>2. Nothing \in Plan
  BY DEF Plan
<1> QED
  BY <1>1, <1>2 DEF Init, TypeOK

LEMMA StutterKeepsType ==
  ASSUME TypeOK, UNCHANGED engineVars
  PROVE  TypeOK'
<1>1. Plan' = Plan
  BY DEF engineVars, Plan, Place
<1> QED
  BY <1>1 DEF engineVars, TypeOK

LEMMA NextKeepsType == TypeOK /\ [Next]_engineVars => TypeOK'
<1> SUFFICES ASSUME TypeOK, [Next]_engineVars PROVE TypeOK'
  OBVIOUS
<1>1. CASE \E e \in Engine, ev \in Event, force \in BOOLEAN : Ingest(e, ev, force)
  BY <1>1, IngestKeepsType
<1>2. CASE \E e \in Engine : Save(e)
  BY <1>2, SaveKeepsType
<1>3. CASE \E e \in Engine : Restart(e) \/ Die(e)
  BY <1>3, ForgetKeepsType DEF Restart, Die
<1>4. CASE RecordDeploy \/ Close \/ Tick \/ (\E e \in Engine : Catch(e))
  BY <1>4, OthersKeepType
<1>5. CASE UNCHANGED engineVars
  BY <1>5, StutterKeepsType
<1> QED
  BY <1>1, <1>2, <1>3, <1>4, <1>5 DEF Next

\* The variables keep their types.
THEOREM TypesHold == Spec => []TypeOK
<1>1. Init => TypeOK
  BY InitType
<1>2. TypeOK /\ [Next]_engineVars => TypeOK'
  BY NextKeepsType
<1> QED
  BY <1>1, <1>2, PTL DEF Spec

-----------------------------------------------------------------------------
(***************************************************************************)
(* The windows of the rules.                                               *)
(***************************************************************************)
\* The process remembers the end of what it heard, and what it does not is out of
\* every window, for good.
WindowOf(e) ==
  \E k \in 0 .. Len(heard[e]) :
    /\ recent[e] = SubSeq(heard[e], k + 1, Len(heard[e]))
    /\ \A i \in 1 .. k : \A w \in Windows : heard[e][i].ts < Before(w)

WindowInv == \A e \in Engine : WindowOf(e)

LEMMA IngestKeepsWindow ==
  ASSUME TypeOK, NEW e \in Engine, NEW ev \in Event, WindowOf(e), now' = now,
         recent' = [recent EXCEPT ![e] = Pruned(NewLog(e, ev))],
         heard' = [heard EXCEPT ![e] = Append(@, NewEntry(ev))]
  PROVE  WindowOf(e)'
<1> DEFINE old == heard[e]
           all == Append(old, NewEntry(ev))
           log == NewLog(e, ev)
<1>1. PICK k \in 0 .. Len(old) :
        /\ recent[e] = SubSeq(old, k + 1, Len(old))
        /\ \A i \in 1 .. k : \A w \in Windows : old[i].ts < Before(w)
  BY DEF WindowOf
<1>2. old \in Seq(Entry) /\ Len(old) \in Nat /\ now \in Nat /\ NewEntry(ev) \in Entry
  BY NewLogType, LenProperties DEF TypeOK
<1>3. /\ all \in Seq(Entry) /\ Len(all) = Len(old) + 1
      /\ \A i \in 1 .. Len(old) : all[i] = old[i]
      /\ all[Len(old) + 1] = NewEntry(ev)
  BY <1>2, AppendProperties
<1>4. /\ recent[e] \in Seq(Entry) /\ Len(recent[e]) = Len(old) - k
      /\ \A i \in 1 .. Len(recent[e]) : recent[e][i] = old[k + i]
  <2>1. \A i \in k + 1 .. Len(old) : old[i] \in Entry
    BY <1>1, <1>2, ElementOfSeq
  <2> HIDE DEF old
  <2>2. /\ SubSeq(old, k + 1, Len(old)) \in Seq(Entry)
        /\ Len(SubSeq(old, k + 1, Len(old))) =
             (IF k + 1 <= Len(old) THEN Len(old) - (k + 1) + 1 ELSE 0)
        /\ \A i \in 1 .. Len(old) - (k + 1) + 1 :
             SubSeq(old, k + 1, Len(old))[i] = old[k + 1 + i - 1]
    BY <1>1, <1>2, <2>1, SubSeqProperties
  <2> QED
    BY <1>1, <1>2, <2>2
<1>5. /\ log \in Seq(Entry) /\ Len(log) = Len(old) - k + 1
      /\ \A i \in 1 .. Len(log) : log[i] = all[k + i]
  <2>1. /\ log \in Seq(Entry) /\ Len(log) = Len(recent[e]) + 1
        /\ \A i \in 1 .. Len(recent[e]) : log[i] = recent[e][i]
        /\ log[Len(recent[e]) + 1] = NewEntry(ev)
    BY NewLogType
  <2> HIDE DEF log, all, old
  <2>2. Len(log) = Len(old) - k + 1 /\ k \in 0 .. Len(old)
    BY <1>1, <1>2, <1>4, <2>1
  <2>3. ASSUME NEW i \in 1 .. Len(log)
        PROVE  log[i] = all[k + i]
    <3>1. CASE i \in 1 .. Len(recent[e])
      <4>1. log[i] = recent[e][i] /\ recent[e][i] = old[k + i]
        BY <1>4, <2>1, <3>1
      <4>2. k + i \in 1 .. Len(old)
        BY <1>2, <1>4, <2>2, <3>1
      <4> QED
        BY <1>3, <4>1, <4>2
    <3>2. CASE i = Len(recent[e]) + 1
      <4>1. k + i = Len(old) + 1
        BY <1>2, <1>4, <2>2, <3>2
      <4> QED
        BY <1>3, <2>1, <3>2, <4>1
    <3>3. Len(log) = Len(recent[e]) + 1 /\ Len(recent[e]) \in Nat
      BY <1>4, <2>1, LenProperties
    <3> QED
      BY <3>1, <3>2, <3>3
  <2> QED
    BY <2>1, <2>2, <2>3
<1>6. log # <<>> /\ log[Len(log)].ts = now
  <2>1. Len(log) >= 1 /\ log[Len(log)] = NewEntry(ev)
    <3> HIDE DEF log, all, old
    <3> QED
      BY <1>1, <1>2, <1>3, <1>5
  <2>2. NewEntry(ev).ts = now
    BY DEF NewEntry
  <2> HIDE DEF log
  <2> QED
    BY <1>5, <2>1, <2>2, EmptySeq
<1> HIDE DEF log
<1>7. PICK m \in 1 .. Len(log) :
        /\ Pruned(log) = SubSeq(log, m, Len(log))
        /\ \A i \in 1 .. m - 1 : \A w \in Windows : log[i].ts < Before(w)
  BY <1>2, <1>5, <1>6, PrunedIsSuffix
<1> HIDE DEF all, old
<1> DEFINE n == k + m - 1
<1>8. n \in 0 .. Len(all)
  BY <1>1, <1>2, <1>3, <1>5, <1>7
<1>9. Pruned(log) = SubSeq(all, n + 1, Len(all))
  <2> DEFINE a == SubSeq(log, m, Len(log))
             b == SubSeq(all, n + 1, Len(all))
  <2>1. \A i \in m .. Len(log) : log[i] \in Entry
    BY <1>5, <1>7, ElementOfSeq
  <2>2. /\ a \in Seq(Entry) /\ Len(a) = Len(log) - m + 1
        /\ \A i \in 1 .. Len(log) - m + 1 : a[i] = log[m + i - 1]
    BY <1>2, <1>5, <1>7, <2>1, SubSeqProperties
  <2>3. \A i \in n + 1 .. Len(all) : all[i] \in Entry
    BY <1>3, <1>8, ElementOfSeq
  <2>4. /\ b \in Seq(Entry) /\ Len(b) = Len(all) - n
        /\ \A i \in 1 .. Len(all) - n : b[i] = all[n + 1 + i - 1]
    BY <1>2, <1>3, <1>5, <1>7, <1>8, <2>3, SubSeqProperties
  <2> HIDE DEF a, b
  <2>5. Len(a) = Len(b) /\ \A i \in 1 .. Len(a) : a[i] = b[i]
    <3>1. Len(a) = Len(b)
      BY <1>1, <1>2, <1>3, <1>5, <1>7, <2>2, <2>4
    <3>2. ASSUME NEW i \in 1 .. Len(a)
          PROVE  a[i] = b[i]
      <4>1. a[i] = log[m + i - 1] /\ m + i - 1 \in 1 .. Len(log)
        BY <1>1, <1>2, <1>5, <1>7, <2>2, <3>2
      <4>2. log[m + i - 1] = all[k + (m + i - 1)]
        BY <1>5, <4>1
      <4>3. b[i] = all[n + 1 + i - 1]
        BY <1>1, <1>2, <1>3, <1>5, <1>7, <2>4, <3>1
      <4>4. k + (m + i - 1) = n + 1 + i - 1
        BY <1>1, <1>7
      <4> QED
        BY <4>1, <4>2, <4>3, <4>4
    <3> QED
      BY <3>1, <3>2
  <2>6. a = b
    BY <2>2, <2>4, <2>5, SeqEqual
  <2> QED
    BY <1>7, <2>6 DEF a, b
<1>10. ASSUME NEW i \in 1 .. n, NEW w \in Windows
       PROVE  all[i].ts < Before(w)
  <2>1. CASE i <= k
    BY <1>1, <1>2, <1>3, <2>1
  <2>2. CASE i > k
    <3>1. i - k \in 1 .. m - 1 /\ i - k \in 1 .. Len(log)
      BY <1>1, <1>5, <1>7, <2>2
    <3>2. log[i - k] = all[k + (i - k)] /\ k + (i - k) = i
      BY <1>1, <1>5, <3>1
    <3> QED
      BY <1>7, <3>1, <3>2
  <2> QED
    BY <1>1, <2>1, <2>2
<1>11. recent'[e] = Pruned(log) /\ heard'[e] = all
  BY DEF TypeOK, log, all, old
<1>12. \A w \in Windows : Before(w)' = Before(w)
  BY DEF Before
<1>13. Windows' = Windows
  BY DEF Windows, Windowed
<1> HIDE DEF n
<1> QED
  BY <1>8, <1>9, <1>10, <1>11, <1>12, <1>13 DEF WindowOf

\* What a window has lost stays lost.
LEMMA TimeKeepsWindow ==
  ASSUME TypeOK, NEW e \in Engine, WindowOf(e), now' = now \/ now' = now + 1,
         recent'[e] = recent[e], heard'[e] = heard[e]
  PROVE  WindowOf(e)'
<1>1. PICK k \in 0 .. Len(heard[e]) :
        /\ recent[e] = SubSeq(heard[e], k + 1, Len(heard[e]))
        /\ \A i \in 1 .. k : \A w \in Windows : heard[e][i].ts < Before(w)
  BY DEF WindowOf
<1>2. ASSUME NEW i \in 1 .. k, NEW w \in Windows
      PROVE  heard[e][i].ts < Before(w)'
  <2>1. heard[e] \in Seq(Entry) /\ Len(heard[e]) \in Nat
    BY LenProperties DEF TypeOK
  <2>2. i \in 1 .. Len(heard[e])
    BY <1>1, <2>1
  <2>3. heard[e][i] \in Entry
    BY <2>1, <2>2, ElementOfSeq
  <2>4. heard[e][i].ts \in Nat /\ heard[e][i].ts < Before(w)
    BY <1>1, <2>3 DEF Entry
  <2>5. now \in Nat /\ w \in Nat
    BY WindowsType DEF TypeOK
  <2>6. Before(w) \in Nat /\ Before(w)' \in Nat /\ Before(w) <= Before(w)'
    BY <2>5, BeforeType, BeforeGrows
  <2> DEFINE x == Before(w)
             y == Before(w)'
             z == heard[e][i].ts
  <2>7. z \in Nat /\ x \in Nat /\ y \in Nat /\ z < x /\ x <= y
    BY <2>4, <2>6
  <2> HIDE DEF x, y, z
  <2>8. z < y
    BY <2>7
  <2> QED
    BY <2>8 DEF y, z
<1>3. Windows' = Windows
  BY DEF Windows, Windowed
<1> QED
  BY <1>1, <1>2, <1>3 DEF WindowOf

LEMMA EmptyWindow ==
  ASSUME NEW e \in Engine, recent[e] = <<>>, heard[e] = <<>>
  PROVE  WindowOf(e)
<1>1. SubSeq(heard[e], 0 + 1, Len(heard[e])) = <<>> /\ Len(heard[e]) = 0
  BY SubSeqEmpty
<1> QED
  BY <1>1 DEF WindowOf

LEMMA NextKeepsWindow ==
  ASSUME TypeOK, WindowInv, [Next]_engineVars
  PROVE  WindowInv'
<1> SUFFICES ASSUME NEW o \in Engine PROVE WindowOf(o)'
  BY DEF WindowInv
<1>0. WindowOf(o)
  BY DEF WindowInv
<1>1. ASSUME NEW e \in Engine, NEW ev \in Event, NEW force \in BOOLEAN, Ingest(e, ev, force)
      PROVE  WindowOf(o)'
  <2>1. now' = now
    BY <1>1 DEF Ingest
  <2>2. CASE UNCHANGED <<recent, heard>>
    BY <1>0, <2>1, <2>2, TimeKeepsWindow
  <2>3. CASE /\ recent' = [recent EXCEPT ![e] = Pruned(NewLog(e, ev))]
             /\ heard' = [heard EXCEPT ![e] = Append(@, NewEntry(ev))]
    <3>1. CASE o = e
      BY <1>0, <2>1, <2>3, <3>1, IngestKeepsWindow
    <3>2. CASE o # e
      <4>1. recent'[o] = recent[o] /\ heard'[o] = heard[o]
        BY <2>3, <3>2 DEF TypeOK
      <4> QED
        BY <1>0, <2>1, <4>1, TimeKeepsWindow
    <3> QED
      BY <3>1, <3>2
  <2> QED
    BY <1>1, <2>2, <2>3 DEF Ingest, NewLog, NewEntry
<1>2. ASSUME NEW e \in Engine, Forget(e), now' = now + 1
      PROVE  WindowOf(o)'
  <2>1. CASE o = e
    <3>1. recent'[o] = <<>> /\ heard'[o] = <<>>
      BY <1>2, <2>1 DEF Forget, TypeOK
    <3> DEFINE h == heard'[o]
    <3>2. SubSeq(h, 0 + 1, Len(h)) = <<>> /\ Len(h) = 0
      BY <3>1, SubSeqEmpty
    <3> QED
      BY <3>1, <3>2 DEF WindowOf
  <2>2. CASE o # e
    <3>1. recent'[o] = recent[o] /\ heard'[o] = heard[o]
      BY <1>2, <2>2 DEF Forget, TypeOK
    <3> QED
      BY <1>0, <1>2, <3>1, TimeKeepsWindow
  <2> QED
    BY <2>1, <2>2
<1>3. CASE UNCHANGED <<recent, heard>> /\ (now' = now \/ now' = now + 1)
  BY <1>0, <1>3, TimeKeepsWindow
<1>4. CASE \E e \in Engine : Save(e) \/ Catch(e)
  BY <1>3, <1>4 DEF Save, OpenNew, OpenCounted, Fill, Catch
<1>5. CASE \E e \in Engine : Restart(e) \/ Die(e)
  BY <1>2, <1>5 DEF Restart, Die
<1>6. CASE RecordDeploy \/ Close \/ Tick
  BY <1>3, <1>6 DEF RecordDeploy, Close, Tick
<1>7. CASE UNCHANGED engineVars
  BY <1>3, <1>7 DEF engineVars
<1> QED
  BY <1>1, <1>4, <1>5, <1>6, <1>7 DEF Next

LEMMA WindowImplies == TypeOK /\ WindowInv => TriggersSeeWholeWindow
<1> SUFFICES ASSUME TypeOK, WindowInv, NEW e \in Engine, NEW rule \in Windowed
             PROVE  /\ recent[e] = SubSeq(heard[e], Kept(e) + 1, Len(heard[e]))
                    /\ \A i \in 1 .. Kept(e) : heard[e][i].ts < Before(rule.window)
  BY DEF TriggersSeeWholeWindow
<1>1. PICK k \in 0 .. Len(heard[e]) :
        /\ recent[e] = SubSeq(heard[e], k + 1, Len(heard[e]))
        /\ \A i \in 1 .. k : \A w \in Windows : heard[e][i].ts < Before(w)
  BY DEF WindowInv, WindowOf
<1>2. heard[e] \in Seq(Entry) /\ Len(heard[e]) \in Nat
  BY LenProperties DEF TypeOK
<1>3. \A i \in k + 1 .. Len(heard[e]) : heard[e][i] \in Entry
  BY <1>1, <1>2, ElementOfSeq
<1>4. Len(recent[e]) = IF k + 1 <= Len(heard[e]) THEN Len(heard[e]) - (k + 1) + 1 ELSE 0
  BY <1>1, <1>2, <1>3, SubSeqProperties
<1>5. Kept(e) = k
  BY <1>1, <1>2, <1>4 DEF Kept
<1>6. rule.window \in Windows
  BY DEF Windows
<1> QED
  BY <1>1, <1>5, <1>6

\* Within the window of each of its rules, a process remembers everything it has heard
\* in its present life, whatever the windows of the other rules are.
THEOREM RulesMissNothing == Spec => []TriggersSeeWholeWindow
<1>1. Init => TypeOK /\ WindowInv
  BY InitType, EmptyWindow DEF Init, WindowInv
<1>2. TypeOK /\ WindowInv /\ [Next]_engineVars => TypeOK' /\ WindowInv'
  BY NextKeepsType, NextKeepsWindow
<1> QED
  BY <1>1, <1>2, WindowImplies, PTL DEF Spec

-----------------------------------------------------------------------------
(***************************************************************************)
(* Duplicates.                                                             *)
(***************************************************************************)
\* The open incidents that a process about to create one does not know of were saved
\* by others since it looked.
RaceInv ==
  \A e \in Engine : pending[e].do = "create" =>
    \A i \in Place : DuplicateOf(i, pending[e].inc) => i \in pending[e].raced

\* A process tells the others of its save, so that they need not know of it.
LEMMA SavesAreTold ==
  ASSUME TypeOK, RaceInv, NEW e \in Engine, NEW at \in Place', NEW next \in Plan',
         pending' = Saved(e, at, next), next.do # "create",
         Place' \subseteq Place \cup {at},
         \A i \in Place \ {at} : store'[i] = store[i]
  PROVE  RaceInv'
<1> SUFFICES ASSUME NEW o \in Engine, pending'[o].do = "create",
                    NEW i \in Place', DuplicateOf(i, pending[o].inc)'
             PROVE  i \in pending'[o].raced
  BY DEF RaceInv
<1>1. o # e /\ pending'[o] = IF pending[o].do \in {"create", "open", "fill"}
                             THEN [pending[o] EXCEPT !.raced = @ \cup {at}]
                             ELSE pending[o]
  BY DEF Saved
<1>2. pending[o] \in Plan
  BY DEF TypeOK
<1>3. pending[o] \in Creating
  <2>1. CASE pending[o].do \in {"create", "open", "fill"}
    BY <1>1, <1>2, <2>1, PlanKinds DEF Creating, Opening, Filling
  <2>2. CASE pending[o].do \notin {"create", "open", "fill"}
    BY <1>1, <2>2
  <2> QED
    BY <2>1, <2>2
<1>4. pending'[o].inc = pending[o].inc /\ pending'[o].raced = pending[o].raced \cup {at}
  BY <1>1, <1>3 DEF Creating
<1>5. CASE i # at
  <2>1. i \in Place /\ store'[i] = store[i]
    BY <1>5
  <2>2. DuplicateOf(i, pending[o].inc)
    BY <1>4, <2>1 DEF DuplicateOf
  <2> QED
    BY <1>3, <1>4, <2>1, <2>2 DEF RaceInv, Creating
<1> QED
  BY <1>4, <1>5

\* Who finds no incident to count on leaves none that it should have counted on.
LEMMA LooksWell ==
  ASSUME TypeOK, NEW e \in Engine, NEW ev \in Event, NEW force \in BOOLEAN,
         NEW next \in Found(e, ev, force), next.do = "create",
         NEW i \in Place, DuplicateOf(i, next.inc)
  PROVE  FALSE
<1>1. CASE OpenMatches(ev.fp) = {}
  <2>1. next.inc = NewIncident(e, ev, force)
    BY <1>1 DEF Found
  <2>2. store[i].fp = ev.fp /\ store[i].status = "open"
        /\ store[i].last_seen = store[i].touched /\ store[i].touched + DedupeWindow >= now
    BY <2>1 DEF DuplicateOf, NewIncident
  <2>3. now \in Nat /\ DedupeWindow \in Nat /\ store[i] \in Incident
    BY EngineAssumption, LenProperties, ElementOfSeq DEF TypeOK, Place
  <2>4. store[i].last_seen >= Before(DedupeWindow)
    BY <2>2, <2>3 DEF Before, Incident
  <2> QED
    BY <1>1, <2>2, <2>4 DEF OpenMatches, Place
<1>2. CASE OpenMatches(ev.fp) # {}
  BY <1>2 DEF Found
<1> QED
  BY <1>1, <1>2

LEMMA NextKeepsRaceInv ==
  ASSUME TypeOK, TypeOK', RaceInv, [Next]_engineVars
  PROVE  RaceInv'
<1>0. /\ store \in Seq(Incident) /\ Place = 1 .. Len(store) /\ Len(store) \in Nat
      /\ Place' = 1 .. Len(store') /\ \A e \in Engine : pending[e] \in Plan
  BY LenProperties DEF TypeOK, Place
<1>1. ASSUME NEW e \in Engine, NEW ev \in Event, NEW force \in BOOLEAN, Ingest(e, ev, force)
      PROVE  RaceInv'
  <2>1. store' = store /\ Place' = Place
    BY <1>1 DEF Ingest, Place
  <2> SUFFICES ASSUME NEW o \in Engine, pending'[o].do = "create",
                      NEW i \in Place, DuplicateOf(i, pending[o].inc)'
               PROVE  i \in pending'[o].raced
    BY <2>1 DEF RaceInv
  <2>2. DuplicateOf(i, pending'[o].inc)
    BY <2>1 DEF DuplicateOf
  <2>3. CASE pending'[o] = pending[o]
    BY <2>2, <2>3 DEF RaceInv
  <2>4. CASE \E next \in {Throw} \cup Found(e, ev, force) :
               o = e /\ pending'[o] = next
    BY <2>2, <2>4, LooksWell DEF Throw
  <2>5. \/ pending' = pending
        \/ \E next \in {Throw} \cup Found(e, ev, force) :
             pending' = [pending EXCEPT ![e] = next]
    BY <1>1 DEF Ingest
  <2> QED
    BY <2>3, <2>4, <2>5 DEF TypeOK
<1>2. ASSUME NEW e \in Engine, Save(e)
      PROVE  RaceInv'
  <2>1. CASE OpenNew(e)
    <3>1. pending[e] \in Creating
      BY <1>0, <2>1, PlanKinds DEF OpenNew
    <3> DEFINE inc == [pending[e].inc EXCEPT !.whole = FALSE]
               next == [do |-> "fill", new |-> TRUE, at |-> Len(store'),
                        inc |-> pending[e].inc, raced |-> pending[e].raced]
    <3>2. inc \in Incident
      BY <3>1 DEF Creating, Incident
    <3>3. store' = Append(store, inc) /\ pending' = Saved(e, Len(store'), next)
      BY <2>1 DEF OpenNew
    <3>4. next.do = "fill" /\ next = pending'[e]
      BY <3>3 DEF Saved
    <3> HIDE DEF inc, next
    <3>5. Len(store') = Len(store) + 1 /\ \A i \in Place : store'[i] = store[i]
      BY <1>0, <3>2, <3>3, AppendProperties
    <3>6. Len(store') \in Place' /\ Place' \subseteq Place \cup {Len(store')}
      BY <1>0, <3>5
    <3>7. next \in Plan'
      BY <3>4 DEF TypeOK
    <3> QED
      BY <3>3, <3>4, <3>5, <3>6, <3>7, SavesAreTold
  <2>2. CASE OpenCounted(e)
    <3>1. pending[e] \in Opening
      BY <1>0, <2>2, PlanKinds DEF OpenCounted
    <3> DEFINE at == pending[e].at
               next == [do |-> "fill", new |-> FALSE, at |-> at,
                        inc |-> pending[e].inc, raced |-> pending[e].raced]
    <3>2. store' = [store EXCEPT ![at].whole = FALSE] /\ pending' = Saved(e, at, next)
      BY <2>2 DEF OpenCounted
    <3>3. next.do = "fill" /\ next = pending'[e]
      BY <3>2 DEF Saved
    <3>4. at \in Place
      BY <3>1 DEF Opening
    <3> HIDE DEF at, next
    <3>5. Place' = Place /\ \A i \in Place \ {at} : store'[i] = store[i]
      BY <3>2, <3>4 DEF Place
    <3>6. next \in Plan'
      BY <3>3 DEF TypeOK
    <3> QED
      BY <3>2, <3>3, <3>4, <3>5, <3>6, SavesAreTold
  <2>3. CASE Fill(e)
    <3>1. pending[e] \in Filling
      BY <1>0, <2>3, PlanKinds DEF Fill
    <3> DEFINE at == pending[e].at
    <3>2. PICK whole \in BOOLEAN :
            store' = [store EXCEPT ![at] = [pending[e].inc EXCEPT !.whole = whole]]
      BY <2>3 DEF Fill
    <3>3. at \in Place /\ pending' = Saved(e, at, Nothing)
      BY <2>3, <3>1 DEF Filling, Fill
    <3> HIDE DEF at
    <3>4. Place' = Place /\ \A i \in Place \ {at} : store'[i] = store[i]
      BY <3>2, <3>3 DEF Place
    <3>5. Nothing \in Plan' /\ Nothing.do # "create"
      BY DEF Nothing, Plan
    <3> QED
      BY <3>3, <3>4, <3>5, SavesAreTold
  <2> QED
    BY <1>2, <2>1, <2>2, <2>3 DEF Save
<1>3. ASSUME Place' = Place,
             \A i \in Place : \/ store'[i] = store[i] \/ store'[i].status # "open",
             \A o \in Engine : pending'[o] = pending[o] \/ pending'[o] = Nothing
      PROVE  RaceInv'
  <2> SUFFICES ASSUME NEW o \in Engine, pending'[o].do = "create",
                      NEW i \in Place, DuplicateOf(i, pending[o].inc)'
               PROVE  i \in pending'[o].raced
    BY <1>3 DEF RaceInv
  <2>1. pending'[o] = pending[o]
    BY <1>3 DEF Nothing
  <2>2. DuplicateOf(i, pending[o].inc)
    BY <1>3, <2>1 DEF DuplicateOf
  <2> QED
    BY <2>1, <2>2 DEF RaceInv
<1>4. CASE \E e \in Engine : Restart(e) \/ Die(e) \/ Catch(e)
  <2>1. PICK e \in Engine : Restart(e) \/ Die(e) \/ Catch(e)
    BY <1>4
  <2>2. store' = store /\ pending' = [pending EXCEPT ![e] = Nothing]
    BY <2>1 DEF Restart, Die, Catch, Forget
  <2>3. \A o \in Engine : pending'[o] = pending[o] \/ pending'[o] = Nothing
    BY <2>2 DEF TypeOK
  <2> QED
    BY <1>3, <2>2, <2>3 DEF Place
<1>5. CASE Close
  <2>1. PICK i \in DOMAIN store : store' = [store EXCEPT ![i].status = "closed"]
    BY <1>5 DEF Close
  <2>2. store[i] \in Incident
    BY <2>1, <1>0 DEF Place
  <2>3. store'[i] = [store[i] EXCEPT !.status = "closed"]
    BY <2>1
  <2>4. store'[i].status = "closed"
    BY <2>2, <2>3 DEF Incident
  <2>5. \A j \in Place : store'[j] = store[j] \/ store'[j].status # "open"
    BY <2>1, <2>4 DEF Place
  <2>6. Place' = Place /\ pending' = pending
    BY <1>5, <2>1 DEF Place, Close
  <2> QED
    BY <1>3, <2>5, <2>6
<1>6. CASE RecordDeploy \/ Tick \/ UNCHANGED engineVars
  <2>1. store' = store /\ pending' = pending
    BY <1>6 DEF RecordDeploy, Tick, engineVars
  <2> QED
    BY <1>3, <2>1 DEF Place
<1> QED
  BY <1>1, <1>2, <1>4, <1>5, <1>6 DEF Next

LEMMA RaceInvImplies ==
  TypeOK /\ RaceInv =>
    \A e \in Engine : OpenNew(e) =>
      \A i \in DOMAIN store : DuplicateOf(i, pending[e].inc) => i \in pending[e].raced
  BY DEF RaceInv, OpenNew, Place

LEMMA InitRace == Init => RaceInv
  BY DEF Init, RaceInv, Nothing

\* However many processes share the store, a process opens a second incident of a failure
\* only if the first was not counted on within the deduplication window, or was saved by
\* another process after it looked.
THEOREM DuplicatesComeFromRaces == Spec => NoDuplicateOpen
<1>1. Init => TypeOK /\ RaceInv
  BY InitType, InitRace
<1>2. TypeOK /\ RaceInv /\ [Next]_engineVars => TypeOK' /\ RaceInv'
  BY NextKeepsType, NextKeepsRaceInv
<1>3. TypeOK /\ RaceInv =>
        [\A e \in Engine : OpenNew(e) =>
           \A i \in DOMAIN store :
             DuplicateOf(i, pending[e].inc) => i \in pending[e].raced]_engineVars
  BY RaceInvImplies
<1> QED
  BY <1>1, <1>2, <1>3, PTL DEF Spec, NoDuplicateOpen

-----------------------------------------------------------------------------
(***************************************************************************)
(* The hourly limit.                                                       *)
(***************************************************************************)
\* The incidents of the triggers of e in its present life, born since t, and those of
\* them that e has also noted in its list (it notes them after their save).
Ours(e, t) ==
  {i \in Place : /\ store[i].by = e /\ ~store[i].forced
                 /\ store[i].born >= started[e] /\ store[i].born >= t}

BeingFilled(e) ==
  {i \in Place : pending[e].do = "fill" /\ pending[e].new /\ pending[e].at = i}

Noted(e, t) == {k \in DOMAIN created[e] : created[e][k] >= t}

Counts(e) ==
  \A t \in Nat : Cardinality(Ours(e, t) \ BeingFilled(e)) <= Cardinality(Noted(e, t))

\* Two states of one incident.
Alike(a, b) == a.fp = b.fp /\ a.by = b.by /\ a.born = b.born /\ a.forced = b.forced

\* What is about to be saved: a new incident of the present, below the limit unless it is
\* forced, or another state of a saved one.
PlanInv(e) ==
  /\ pending[e].do = "create" =>
       /\ pending[e].inc.by = e /\ pending[e].inc.born <= now
       /\ ~pending[e].inc.forced => Cardinality(OfLastHour(e)) < RateLimit
  /\ pending[e].do \in {"open", "fill"} => Alike(pending[e].inc, store[pending[e].at])

RateInv ==
  /\ \A i \in Place : store[i].born <= now
  /\ \A e \in Engine : PlanInv(e) /\ Counts(e)
  /\ RateIsKept

LEMMA SetsAreFinite ==
  ASSUME TypeOK, NEW e \in Engine, NEW t
  PROVE  /\ IsFiniteSet(Ours(e, t)) /\ IsFiniteSet(Noted(e, t)) /\ IsFiniteSet(Opened(e))
         /\ IsFiniteSet(OfLastHour(e))
         /\ Cardinality(Opened(e)) \in Nat /\ Cardinality(OfLastHour(e)) \in Nat
<1>1. /\ DOMAIN store = 1 .. Len(store) /\ Len(store) \in Nat
      /\ DOMAIN created[e] = 1 .. Len(created[e]) /\ Len(created[e]) \in Nat
  BY LenProperties DEF TypeOK
<1>2. IsFiniteSet(DOMAIN store) /\ IsFiniteSet(DOMAIN created[e])
  BY <1>1, FS_Interval
<1>3. /\ Ours(e, t) \subseteq DOMAIN store /\ Opened(e) \subseteq DOMAIN store
      /\ Noted(e, t) \subseteq DOMAIN created[e] /\ OfLastHour(e) \subseteq DOMAIN created[e]
  BY DEF Ours, Noted, Opened, OfLastHour, Place
<1> QED
  BY <1>2, <1>3, FS_Subset, FS_CardinalityType

LEMMA SmallerSet ==
  ASSUME NEW S, NEW T, IsFiniteSet(T), S \subseteq T
  PROVE  IsFiniteSet(S) /\ Cardinality(S) <= Cardinality(T)
         /\ Cardinality(S) \in Nat /\ Cardinality(T) \in Nat
  BY FS_Subset, FS_CardinalityType

LEMMA OneMore ==
  ASSUME NEW S, NEW T, NEW x, IsFiniteSet(T), S \subseteq T \cup {x}
  PROVE  Cardinality(S) <= Cardinality(T) + 1 /\ Cardinality(S) \in Nat
         /\ Cardinality(T) \in Nat
<1>1. IsFiniteSet(T \cup {x}) /\ Cardinality(T \cup {x}) <= Cardinality(T) + 1
      /\ Cardinality(T) \in Nat
  <2>1. Cardinality(T) \in Nat
    BY FS_CardinalityType
  <2>2. IsFiniteSet(T \cup {x})
    BY FS_AddElement
  <2>3. Cardinality(T \cup {x}) = Cardinality(T)
        \/ Cardinality(T \cup {x}) = Cardinality(T) + 1
    BY FS_AddElement
  <2> QED
    BY <2>1, <2>2, <2>3
<1> QED
  BY <1>1, SmallerSet

\* Time takes incidents out of the last hour, in the list of a process and in the store.
LEMMA HourShrinks ==
  ASSUME TypeOK, TypeOK', NEW e \in Engine, now' = now \/ now' = now + 1,
         created'[e] = created[e]
  PROVE  /\ Cardinality(OfLastHour(e)') <= Cardinality(OfLastHour(e))
         /\ Cardinality(OfLastHour(e)') \in Nat
<1>1. /\ now \in Nat /\ created[e] \in Seq(Nat)
      /\ \A k \in DOMAIN created[e] : created[e][k] \in Nat
  BY LenProperties, ElementOfSeq DEF TypeOK
<1> DEFINE x == Before(RateWindow)
           y == Before(RateWindow)'
<1>2. x \in Nat /\ y \in Nat /\ x <= y
  BY <1>1, EngineAssumption, BeforeType, BeforeGrows
<1>3. /\ OfLastHour(e) = {k \in DOMAIN created[e] : created[e][k] >= x}
      /\ OfLastHour(e)' = {k \in DOMAIN created[e] : created[e][k] >= y}
  BY DEF OfLastHour
<1> HIDE DEF x, y
<1>4. OfLastHour(e)' \subseteq OfLastHour(e)
  BY <1>1, <1>2, <1>3
<1> QED
  BY <1>4, SetsAreFinite, SmallerSet

LEMMA OpenedShrinks ==
  ASSUME TypeOK, TypeOK', NEW e \in Engine, now' = now \/ now' = now + 1,
         Cardinality(Opened(e)) <= RateLimit, started'[e] = started[e],
         \A i \in Place' : \/ i \in Place /\ Alike(store'[i], store[i])
                           \/ store'[i].by # e \/ store'[i].forced
  PROVE  Cardinality(Opened(e)') <= RateLimit
<1>1. now \in Nat /\ \A i \in Place : store[i] \in Incident
  BY LenProperties, ElementOfSeq DEF TypeOK, Place
<1> DEFINE x == Before(RateWindow)
           y == Before(RateWindow)'
<1>2. x \in Nat /\ y \in Nat /\ x <= y
  BY <1>1, EngineAssumption, BeforeType, BeforeGrows
<1>3. Opened(e) = {i \in Place : /\ store[i].by = e /\ ~store[i].forced
                                /\ store[i].born >= started[e] /\ store[i].born >= x}
  BY DEF Opened, Place
<1>4. Opened(e)' = {i \in Place' : /\ store'[i].by = e /\ ~store'[i].forced
                                  /\ store'[i].born >= started'[e] /\ store'[i].born >= y}
  BY DEF Opened, Place
<1> HIDE DEF x, y
<1>5. Opened(e)' \subseteq Opened(e)
  BY <1>1, <1>2, <1>3, <1>4 DEF Alike, Incident
<1>6. /\ Cardinality(Opened(e)') <= Cardinality(Opened(e))
      /\ Cardinality(Opened(e)') \in Nat /\ Cardinality(Opened(e)) \in Nat
  BY <1>5, SetsAreFinite, SmallerSet
<1> DEFINE a == Cardinality(Opened(e)')
           b == Cardinality(Opened(e))
<1>7. a \in Nat /\ b \in Nat /\ RateLimit \in Nat /\ a <= b /\ b <= RateLimit
  BY <1>6, EngineAssumption
<1> HIDE DEF a, b
<1>8. a <= RateLimit
  BY <1>7
<1> QED
  BY <1>8 DEF a

\* The plans and the counts of o after a step that saves nothing new of o.
LEMMA PlanStays ==
  ASSUME TypeOK, TypeOK', NEW o \in Engine, PlanInv(o), now' = now \/ now' = now + 1,
         \A i \in Place : Alike(store'[i], store[i]), created'[o] = created[o],
         pending'[o].do = pending[o].do,
         pending[o].do \in {"create", "open", "fill"} => pending'[o].inc = pending[o].inc,
         pending[o].do \in {"open", "fill"} => pending'[o].at = pending[o].at
  PROVE  PlanInv(o)'
<1>1. ASSUME pending[o].do = "create"
      PROVE  /\ pending'[o].inc.by = o /\ pending'[o].inc.born <= now'
             /\ ~pending'[o].inc.forced => Cardinality(OfLastHour(o)') < RateLimit
  <2>1. pending[o] \in Creating
    BY <1>1, PlanKinds DEF TypeOK
  <2>2. pending[o].inc \in Incident
    BY <2>1 DEF Creating
  <2>3. pending[o].inc.born \in Nat /\ now \in Nat
    BY <2>2 DEF Incident, TypeOK
  <2>4. pending'[o].inc = pending[o].inc /\ pending[o].inc.by = o
        /\ pending[o].inc.born <= now
    BY <1>1 DEF PlanInv
  <2>5. pending'[o].inc.born <= now'
    BY <2>3, <2>4
  <2>6. ASSUME ~pending'[o].inc.forced
        PROVE  Cardinality(OfLastHour(o)') < RateLimit
    <3>1. Cardinality(OfLastHour(o)) < RateLimit
      BY <1>1, <2>4, <2>6 DEF PlanInv
    <3>2. /\ Cardinality(OfLastHour(o)') <= Cardinality(OfLastHour(o))
          /\ Cardinality(OfLastHour(o)') \in Nat
      BY HourShrinks
    <3>3. Cardinality(OfLastHour(o)) \in Nat /\ RateLimit \in Nat
      BY SetsAreFinite, EngineAssumption
    <3> DEFINE a == Cardinality(OfLastHour(o)')
               b == Cardinality(OfLastHour(o))
    <3>4. a \in Nat /\ b \in Nat /\ a <= b /\ b < RateLimit
      BY <3>1, <3>2, <3>3
    <3> HIDE DEF a, b
    <3>5. a < RateLimit
      BY <3>3, <3>4
    <3> QED
      BY <3>5 DEF a
  <2> QED
    BY <2>4, <2>5, <2>6
<1>2. ASSUME pending[o].do \in {"open", "fill"}
      PROVE  Alike(pending'[o].inc, store'[pending'[o].at])
  <2>1. pending[o].at \in Place
    BY <1>2, PlanKinds DEF TypeOK, Opening, Filling
  <2> QED
    BY <1>2, <2>1 DEF PlanInv, Alike
<1> QED
  BY <1>1, <1>2 DEF PlanInv

LEMMA CountsStay ==
  ASSUME TypeOK, NEW o \in Engine, Counts(o),
         \A t \in Nat : Ours(o, t)' \subseteq Ours(o, t) \cup (BeingFilled(o)' \ BeingFilled(o)),
         BeingFilled(o) \subseteq BeingFilled(o)', created'[o] = created[o]
  PROVE  Counts(o)'
<1> SUFFICES ASSUME NEW t \in Nat
             PROVE  Cardinality(Ours(o, t)' \ BeingFilled(o)') <= Cardinality(Noted(o, t)')
  BY DEF Counts
<1> DEFINE S == Ours(o, t)' \ BeingFilled(o)'
           T == Ours(o, t) \ BeingFilled(o)
<1>1. S \subseteq T
  OBVIOUS
<1>2. IsFiniteSet(T)
  BY SetsAreFinite, FS_Subset
<1>3. Cardinality(S) <= Cardinality(T) /\ Cardinality(S) \in Nat /\ Cardinality(T) \in Nat
  BY <1>1, <1>2, SmallerSet
<1>4. Noted(o, t)' = Noted(o, t)
  BY DEF Noted
<1>5. Cardinality(T) <= Cardinality(Noted(o, t)) /\ Cardinality(Noted(o, t)) \in Nat
  BY SetsAreFinite, FS_CardinalityType DEF Counts
<1> HIDE DEF S, T
<1>6. Cardinality(S) <= Cardinality(Noted(o, t))
  BY <1>3, <1>5
<1> QED
  BY <1>4, <1>6 DEF S

\* A step that saves nothing new for o, though it may for others.
LEMMA QuietStep ==
  ASSUME TypeOK, TypeOK', NEW o \in Engine, Counts(o), Cardinality(Opened(o)) <= RateLimit,
         now' = now \/ now' = now + 1, Place \subseteq Place',
         \A i \in Place' : \/ i \in Place /\ Alike(store'[i], store[i])
                           \/ store'[i].by # o,
         started'[o] = started[o], created'[o] = created[o],
         BeingFilled(o)' = BeingFilled(o)
  PROVE  Counts(o)' /\ Cardinality(Opened(o)') <= RateLimit
<1>1. \A t \in Nat : Ours(o, t)' \subseteq Ours(o, t)
  BY DEF Ours, Alike
<1>2. Counts(o)'
  BY <1>1, CountsStay
<1> QED
  BY <1>2, OpenedShrinks

LEMMA NotFilling ==
  ASSUME NEW e \in Engine
  PROVE  /\ pending[e].do # "fill" => BeingFilled(e) = {}
         /\ pending[e].do = "fill" /\ ~pending[e].new => BeingFilled(e) = {}
  BY DEF BeingFilled

LEMMA IngestKeepsRate ==
  ASSUME TypeOK, TypeOK', RateInv, NEW e \in Engine, NEW ev \in Event,
         NEW force \in BOOLEAN, Ingest(e, ev, force)
  PROVE  RateInv'
<1>1. UNCHANGED <<now, created, started, store>> /\ Place' = Place
  BY DEF Ingest, Place
<1>2. \A i \in Place : Alike(store'[i], store[i])
  BY <1>1 DEF Alike
<1>3. \/ pending' = pending
      \/ /\ pending[e] = Nothing
         /\ \E next \in {Throw} \cup Found(e, ev, force) :
              pending' = [pending EXCEPT ![e] = next]
         /\ ~force => ~RateLimited(e)
  BY DEF Ingest
<1>4. OfLastHour(e)' = OfLastHour(e)
  BY <1>1 DEF OfLastHour, Before
<1>5. ASSUME NEW next \in {Throw} \cup Found(e, ev, force), pending'[e] = next,
             ~force => ~RateLimited(e)
      PROVE  PlanInv(e)' /\ next.do # "fill"
  <2>1. CASE next = Throw
    BY <1>5, <2>1 DEF PlanInv, Throw
  <2>2. CASE next \in Found(e, ev, force) /\ OpenMatches(ev.fp) = {}
    <3>1. next = [do |-> "create", inc |-> NewIncident(e, ev, force), raced |-> {}]
      BY <2>2 DEF Found
    <3>2. next.inc.by = e /\ next.inc.born = now /\ next.inc.forced = force
      BY <3>1 DEF NewIncident
    <3>3. ~force => Cardinality(OfLastHour(e)) < RateLimit
      BY <1>5, SetsAreFinite, EngineAssumption DEF RateLimited
    <3>4. now \in Nat /\ now <= now
      BY DEF TypeOK
    <3> QED
      BY <1>1, <1>4, <1>5, <3>1, <3>2, <3>3, <3>4 DEF PlanInv
  <2>3. CASE next \in Found(e, ev, force) /\ OpenMatches(ev.fp) # {}
    <3>1. PICK i \in OpenMatches(ev.fp) :
            next = [do |-> "open", at |-> i, inc |-> Counted(store[i], ev), raced |-> {}]
      BY <2>3 DEF Found
    <3>2. store[i] \in Incident
      BY LenProperties, ElementOfSeq DEF TypeOK, OpenMatches
    <3>3. Alike(Counted(store[i], ev), store[i])
      BY <3>2 DEF Alike, Counted, Incident
    <3> QED
      BY <1>1, <1>5, <3>1, <3>3 DEF PlanInv
  <2> QED
    BY <1>5, <2>1, <2>2, <2>3
<1>6. ASSUME NEW o \in Engine
      PROVE  PlanInv(o)' /\ BeingFilled(o)' = BeingFilled(o)
  <2>1. CASE pending'[o] = pending[o]
    <3>1. PlanInv(o)'
      BY <1>1, <1>2, <2>1, PlanStays DEF RateInv
    <3> QED
      BY <1>1, <2>1, <3>1 DEF BeingFilled
  <2>2. CASE /\ o = e /\ pending[e] = Nothing
             /\ \E next \in {Throw} \cup Found(e, ev, force) : pending'[e] = next
             /\ ~force => ~RateLimited(e)
    BY <1>5, <2>2 DEF BeingFilled, Nothing
  <2> QED
    BY <1>3, <2>1, <2>2 DEF TypeOK
<1>7. \A o \in Engine : Counts(o)' /\ Cardinality(Opened(o)') <= RateLimit
  BY <1>1, <1>2, <1>6, QuietStep DEF RateInv, RateIsKept
<1> QED
  BY <1>1, <1>6, <1>7 DEF RateInv, RateIsKept

\* What a save tells the other processes.
LEMMA Told ==
  ASSUME TypeOK, NEW e \in Engine, NEW o \in Engine, o # e, NEW at, NEW next,
         pending' = Saved(e, at, next)
  PROVE  /\ pending'[o].do = pending[o].do
         /\ pending[o].do \in {"create", "open", "fill"} => pending'[o].inc = pending[o].inc
         /\ pending[o].do \in {"open", "fill"} => pending'[o].at = pending[o].at
         /\ pending[o].do = "fill" => pending'[o].new = pending[o].new
         /\ pending[o] \in {Nothing, Throw} <=> pending'[o] \in {Nothing, Throw}
         /\ pending[o] = Throw => pending'[o] = Throw
<1>1. pending[o] \in Plan
  BY DEF TypeOK
<1>2. \/ pending'[o] = pending[o]
      \/ pending'[o] = [pending[o] EXCEPT !.raced = @ \cup {at}]
         /\ pending[o].do \in {"create", "open", "fill"}
  BY DEF Saved
<1>3. Nothing.do = "nothing" /\ Throw.do = "throw"
  BY DEF Nothing, Throw
<1>4. CASE pending'[o] = pending[o]
  BY <1>4
<1>5. CASE pending'[o] = [pending[o] EXCEPT !.raced = @ \cup {at}]
           /\ pending[o] \in Creating
  BY <1>3, <1>5 DEF Creating
<1>6. CASE pending'[o] = [pending[o] EXCEPT !.raced = @ \cup {at}]
           /\ pending[o] \in Opening
  BY <1>3, <1>6 DEF Opening
<1>7. CASE pending'[o] = [pending[o] EXCEPT !.raced = @ \cup {at}]
           /\ pending[o] \in Filling
  BY <1>3, <1>7 DEF Filling
<1> QED
  BY <1>1, <1>2, <1>4, <1>5, <1>6, <1>7, PlanKinds

\* It changes nothing that the limit depends on.
LEMMA ToldPlan ==
  ASSUME TypeOK, TypeOK', NEW e \in Engine, NEW o \in Engine, o # e, NEW at, NEW next,
         pending' = Saved(e, at, next), PlanInv(o), now' = now,
         Place \subseteq Place', \A i \in Place : Alike(store'[i], store[i]),
         created'[o] = created[o]
  PROVE  PlanInv(o)' /\ BeingFilled(o)' = BeingFilled(o)
<1>1. /\ pending'[o].do = pending[o].do
      /\ pending[o].do \in {"create", "open", "fill"} => pending'[o].inc = pending[o].inc
      /\ pending[o].do \in {"open", "fill"} => pending'[o].at = pending[o].at
      /\ pending[o].do = "fill" => pending'[o].new = pending[o].new
  BY Told
<1>2. PlanInv(o)'
  BY <1>1, PlanStays
<1>3. \A i \in Place' : pending[o].do = "fill" /\ pending[o].at = i => i \in Place
  BY PlanKinds DEF TypeOK, Filling
<1>4. BeingFilled(o)' = BeingFilled(o)
  BY <1>1, <1>3 DEF BeingFilled
<1> QED
  BY <1>2, <1>4

LEMMA OpenNewKeepsRate ==
  ASSUME TypeOK, TypeOK', RateInv, NEW e \in Engine, OpenNew(e)
  PROVE  RateInv'
<1>0. /\ store \in Seq(Incident) /\ Place = 1 .. Len(store) /\ Len(store) \in Nat
      /\ Place' = 1 .. Len(store') /\ now \in Nat
  BY LenProperties DEF TypeOK, Place
<1>1. pending[e] \in Creating
  BY PlanKinds DEF TypeOK, OpenNew
<1> DEFINE inc == [pending[e].inc EXCEPT !.whole = FALSE]
           next == [do |-> "fill", new |-> TRUE, at |-> Len(store'),
                    inc |-> pending[e].inc, raced |-> pending[e].raced]
<1>2. inc \in Incident /\ Alike(pending[e].inc, inc)
  BY <1>1 DEF Creating, Incident, Alike
<1>3. store' = Append(store, inc) /\ pending' = Saved(e, Len(store'), next)
  BY DEF OpenNew
<1>4. pending'[e] = next
  BY <1>3 DEF Saved
<1> HIDE DEF inc
<1>5. /\ Len(store') = Len(store) + 1 /\ \A i \in Place : store'[i] = store[i]
      /\ store'[Len(store')] = inc
  BY <1>0, <1>2, <1>3, AppendProperties
<1> DEFINE l == Len(store')
<1>6. l \in Place' /\ Place' = Place \cup {l} /\ l \notin Place
  BY <1>0, <1>5
<1>7. UNCHANGED <<now, created, started>>
  BY DEF OpenNew
<1>8. inc.by = e /\ inc.born <= now /\ inc.born = pending[e].inc.born
      /\ inc.forced = pending[e].inc.forced
      /\ (~inc.forced => Cardinality(OfLastHour(e)) < RateLimit)
  BY <1>2 DEF RateInv, PlanInv, OpenNew, Alike
<1> HIDE DEF l
<1>9. \A i \in Place : Alike(store'[i], store[i])
  BY <1>5 DEF Alike
<1>10. \A i \in Place' : store'[i].born <= now'
  BY <1>5, <1>6, <1>7, <1>8 DEF RateInv, l
<1>11. ASSUME NEW o \in Engine, o # e
       PROVE  PlanInv(o)' /\ Counts(o)' /\ Cardinality(Opened(o)') <= RateLimit
  <2>1. PlanInv(o)' /\ BeingFilled(o)' = BeingFilled(o)
    BY <1>3, <1>6, <1>7, <1>9, <1>11, ToldPlan DEF RateInv
  <2>2. \A i \in Place' : \/ i \in Place /\ Alike(store'[i], store[i])
                          \/ store'[i].by # o
    BY <1>5, <1>6, <1>8, <1>9, <1>11 DEF l
  <2> QED
    BY <1>6, <1>7, <2>1, <2>2, QuietStep DEF RateInv, RateIsKept
<1>12. PlanInv(e)'
  BY <1>2, <1>4, <1>5 DEF PlanInv
<1>13. BeingFilled(e) = {} /\ BeingFilled(e)' = {l}
  BY <1>1, <1>4, <1>6 DEF BeingFilled, Creating, l
<1>14. \A t \in Nat : Ours(e, t)' \subseteq Ours(e, t) \cup {l}
  BY <1>5, <1>6, <1>7 DEF Ours
<1>15. Counts(e)'
  BY <1>7, <1>13, <1>14, CountsStay DEF RateInv
<1>16. Cardinality(Opened(e)') <= RateLimit
  <2>1. CASE inc.forced
    <3>1. \A i \in Place' : \/ i \in Place /\ Alike(store'[i], store[i])
                            \/ store'[i].by # e \/ store'[i].forced
      BY <1>5, <1>6, <1>9, <2>1 DEF l
    <3> QED
      BY <1>7, <3>1, OpenedShrinks DEF RateInv, RateIsKept
  <2>2. CASE ~inc.forced
    <3>1. PICK b \in Nat : b = Before(RateWindow) /\ b = Before(RateWindow)'
      BY <1>0, <1>7, EngineAssumption, BeforeType DEF Before
    <3>2. Opened(e)' = Ours(e, b)' /\ Noted(e, b) = OfLastHour(e)
      BY <3>1 DEF Opened, Ours, Noted, OfLastHour, Place
    <3>3. Cardinality(Ours(e, b)) <= Cardinality(Noted(e, b))
      <4>1. Ours(e, b) \ BeingFilled(e) = Ours(e, b)
        BY <1>13
      <4>2. Cardinality(Ours(e, b) \ BeingFilled(e)) <= Cardinality(Noted(e, b))
        BY <3>1 DEF RateInv, Counts
      <4> QED
        BY <4>1, <4>2
    <3>4. /\ Cardinality(Ours(e, b)') <= Cardinality(Ours(e, b)) + 1
          /\ Cardinality(Ours(e, b)') \in Nat /\ Cardinality(Ours(e, b)) \in Nat
      BY <1>14, <3>1, SetsAreFinite, OneMore
    <3>5. Cardinality(OfLastHour(e)) \in Nat /\ Cardinality(OfLastHour(e)) < RateLimit
          /\ RateLimit \in Nat
      BY <1>8, <2>2, SetsAreFinite, EngineAssumption
    <3> DEFINE x == Cardinality(Ours(e, b)')
               y == Cardinality(Ours(e, b))
               z == Cardinality(OfLastHour(e))
    <3>6. x \in Nat /\ y \in Nat /\ z \in Nat /\ x <= y + 1 /\ y <= z /\ z < RateLimit
      BY <3>2, <3>3, <3>4, <3>5
    <3> HIDE DEF x, y, z
    <3>7. x <= RateLimit
      BY <3>5, <3>6
    <3> QED
      BY <3>2, <3>7 DEF x
  <2> QED
    BY <2>1, <2>2
<1> QED
  BY <1>10, <1>11, <1>12, <1>15, <1>16 DEF RateInv, RateIsKept

LEMMA OpenCountedKeepsRate ==
  ASSUME TypeOK, TypeOK', RateInv, NEW e \in Engine, OpenCounted(e)
  PROVE  RateInv'
<1>0. store \in Seq(Incident) /\ Place = DOMAIN store /\ \A i \in Place : store[i] \in Incident
  BY LenProperties, ElementOfSeq DEF TypeOK, Place
<1>1. pending[e] \in Opening
  BY PlanKinds DEF TypeOK, OpenCounted
<1> DEFINE at == pending[e].at
           next == [do |-> "fill", new |-> FALSE, at |-> at,
                    inc |-> pending[e].inc, raced |-> pending[e].raced]
<1>2. store' = [store EXCEPT ![at].whole = FALSE] /\ pending' = Saved(e, at, next)
  BY DEF OpenCounted
<1>3. pending'[e] = next /\ at \in Place
  BY <1>1, <1>2 DEF Saved, Opening
<1>4. Place' = Place /\ \A i \in Place : Alike(store'[i], store[i])
  BY <1>0, <1>2, <1>3 DEF Place, Alike, Incident
<1>5. UNCHANGED <<now, created, started>>
  BY DEF OpenCounted
<1>6. PlanInv(e)' /\ BeingFilled(e)' = BeingFilled(e)
  <2>1. Alike(pending[e].inc, store[at])
    BY <1>1 DEF RateInv, PlanInv, Opening
  <2>2. Alike(pending[e].inc, store'[at])
    BY <1>3, <1>4, <2>1 DEF Alike
  <2> QED
    BY <1>1, <1>3, <2>2 DEF PlanInv, BeingFilled, Opening
<1>7. ASSUME NEW o \in Engine, o # e
      PROVE  PlanInv(o)' /\ BeingFilled(o)' = BeingFilled(o)
  BY <1>2, <1>4, <1>5, <1>7, ToldPlan DEF RateInv
<1>8. \A o \in Engine : Counts(o)' /\ Cardinality(Opened(o)') <= RateLimit
  BY <1>4, <1>5, <1>6, <1>7, QuietStep DEF RateInv, RateIsKept
<1>9. \A i \in Place' : store'[i].born <= now'
  BY <1>4, <1>5 DEF RateInv, Alike
<1> QED
  BY <1>6, <1>7, <1>8, <1>9 DEF RateInv, RateIsKept

\* A new incident is noted: it leaves the place being filled, and its creator's list
\* grows by a moment no earlier than its birth.
LEMMA NotedWhenFilled ==
  ASSUME TypeOK, NEW e \in Engine, Counts(e), NEW at \in Place,
         BeingFilled(e) = {at}, store[at].born <= now, store[at] \in Incident,
         created'[e] = Append(created[e], now),
         \A t \in Nat : Ours(e, t)' = Ours(e, t)
  PROVE  Counts(e)'
<1> SUFFICES ASSUME NEW t \in Nat
             PROVE  Cardinality(Ours(e, t)' \ BeingFilled(e)') <= Cardinality(Noted(e, t)')
  BY DEF Counts
<1>0. /\ now \in Nat /\ created[e] \in Seq(Nat) /\ Len(created[e]) \in Nat
      /\ DOMAIN created[e] = 1 .. Len(created[e]) /\ store[at].born \in Nat
  BY LenProperties DEF TypeOK, Incident
<1> DEFINE l == Len(created[e]) + 1
           S == Ours(e, t)' \ BeingFilled(e)'
           T == Ours(e, t) \ BeingFilled(e)
           N == Noted(e, t)
<1>1. /\ created'[e] \in Seq(Nat) /\ DOMAIN created'[e] = 1 .. l
      /\ \A k \in 1 .. Len(created[e]) : created'[e][k] = created[e][k]
      /\ created'[e][l] = now
  BY <1>0, AppendProperties, LenProperties
<1>2. Noted(e, t)' = {k \in DOMAIN created'[e] : created'[e][k] >= t}
  BY DEF Noted
<1>3. IsFiniteSet(N) /\ IsFiniteSet(T) /\ l \notin N /\ l \in Nat
  <2>1. IsFiniteSet(N) /\ IsFiniteSet(Ours(e, t))
    BY SetsAreFinite
  <2>2. IsFiniteSet(T)
    BY <2>1, SmallerSet
  <2>3. N \subseteq 1 .. Len(created[e])
    BY <1>0 DEF Noted
  <2> HIDE DEF N, T
  <2> QED
    BY <1>0, <2>1, <2>2, <2>3
<1>4. Cardinality(T) <= Cardinality(N) /\ Cardinality(T) \in Nat /\ Cardinality(N) \in Nat
  BY <1>3, FS_CardinalityType DEF Counts
<1>5. CASE now >= t
  <2>1. Noted(e, t)' = N \cup {l}
    <3> HIDE DEF l
    <3>1. 1 .. l = (1 .. Len(created[e])) \cup {l}
      BY <1>0 DEF l
    <3> QED
      BY <1>0, <1>1, <1>2, <1>5, <3>1 DEF Noted
  <2>2. Cardinality(Noted(e, t)') = Cardinality(N) + 1
    BY <1>3, <2>1, FS_AddElement
  <2>3. S \subseteq T \cup {at}
    OBVIOUS
  <2>4. Cardinality(S) <= Cardinality(T) + 1 /\ Cardinality(S) \in Nat
    BY <1>3, <2>3, OneMore
  <2> DEFINE x == Cardinality(S)
             y == Cardinality(T)
             z == Cardinality(N)
  <2>5. x \in Nat /\ y \in Nat /\ z \in Nat /\ x <= y + 1 /\ y <= z
    BY <1>4, <2>4
  <2> HIDE DEF x, y, z
  <2>6. x <= z + 1
    BY <2>5
  <2> QED
    BY <2>2, <2>6 DEF x, z
<1>6. CASE ~(now >= t)
  <2>1. at \notin Ours(e, t)
    BY <1>0, <1>6 DEF Ours
  <2>2. S \subseteq T
    BY <2>1
  <2>3. Noted(e, t)' = N
    <3> HIDE DEF l
    <3>1. 1 .. l = (1 .. Len(created[e])) \cup {l}
      BY <1>0 DEF l
    <3> QED
      BY <1>0, <1>1, <1>2, <1>6, <3>1 DEF Noted
  <2>4. Cardinality(S) <= Cardinality(T) /\ Cardinality(S) \in Nat
    BY <1>3, <2>2, SmallerSet
  <2> DEFINE x == Cardinality(S)
             y == Cardinality(T)
             z == Cardinality(N)
  <2>5. x \in Nat /\ y \in Nat /\ z \in Nat /\ x <= y /\ y <= z
    BY <1>4, <2>4
  <2> HIDE DEF x, y, z
  <2>6. x <= z
    BY <2>5
  <2> QED
    BY <2>3, <2>6 DEF x, z
<1> QED
  BY <1>5, <1>6

LEMMA FillKeepsRate ==
  ASSUME TypeOK, TypeOK', RateInv, NEW e \in Engine, Fill(e)
  PROVE  RateInv'
<1>0. store \in Seq(Incident) /\ Place = DOMAIN store /\ \A i \in Place : store[i] \in Incident
  BY LenProperties, ElementOfSeq DEF TypeOK, Place
<1>1. pending[e] \in Filling
  BY PlanKinds DEF TypeOK, Fill
<1> DEFINE at == pending[e].at
<1>2. PICK whole \in BOOLEAN :
        store' = [store EXCEPT ![at] = [pending[e].inc EXCEPT !.whole = whole]]
  BY DEF Fill
<1>3. at \in Place /\ pending' = Saved(e, at, Nothing) /\ pending'[e] = Nothing
  BY <1>1 DEF Filling, Fill, Saved
<1>4. Place' = Place /\ \A i \in Place : Alike(store'[i], store[i])
  <2>1. Alike(pending[e].inc, store[at])
    BY <1>1 DEF RateInv, PlanInv, Filling
  <2>2. Alike([pending[e].inc EXCEPT !.whole = whole], store[at])
    BY <1>1, <2>1 DEF Filling, Incident, Alike
  <2> QED
    BY <1>0, <1>2, <1>3, <2>2 DEF Place, Alike
<1>5. UNCHANGED <<now, started>>
      /\ created' = IF pending[e].new THEN [created EXCEPT ![e] = Append(@, now)] ELSE created
  BY DEF Fill
<1>6. ASSUME NEW o \in Engine, o # e
      PROVE  PlanInv(o)' /\ Counts(o)' /\ Cardinality(Opened(o)') <= RateLimit
  <2>1. created'[o] = created[o]
    BY <1>5, <1>6 DEF TypeOK
  <2>2. PlanInv(o)' /\ BeingFilled(o)' = BeingFilled(o)
    BY <1>3, <1>4, <1>5, <1>6, <2>1, ToldPlan DEF RateInv
  <2> QED
    BY <1>4, <1>5, <2>1, <2>2, QuietStep DEF RateInv, RateIsKept
<1>7. PlanInv(e)' /\ BeingFilled(e)' = {}
  BY <1>3 DEF PlanInv, BeingFilled, Nothing
<1>8. Counts(e)'
  <2>1. CASE pending[e].new
    <3>1. BeingFilled(e) = {at}
      BY <1>1, <1>3, <2>1 DEF BeingFilled, Filling
    <3>2. created'[e] = Append(created[e], now)
      BY <1>5, <2>1 DEF TypeOK
    <3>3. \A t \in Nat : Ours(e, t)' = Ours(e, t)
      BY <1>4, <1>5 DEF Ours, Alike
    <3> QED
      BY <1>0, <1>3, <3>1, <3>2, <3>3, NotedWhenFilled DEF RateInv
  <2>2. CASE ~pending[e].new
    <3>1. BeingFilled(e) = {}
      BY <2>2 DEF BeingFilled
    <3>2. created' = created
      BY <1>5, <2>2
    <3> QED
      BY <1>4, <1>5, <1>7, <3>1, <3>2, QuietStep DEF RateInv, RateIsKept
  <2> QED
    BY <2>1, <2>2
<1>9. Cardinality(Opened(e)') <= RateLimit
  BY <1>4, <1>5, OpenedShrinks DEF RateInv, RateIsKept
<1>10. \A i \in Place' : store'[i].born <= now'
  BY <1>4, <1>5 DEF RateInv, Alike
<1> QED
  BY <1>6, <1>7, <1>8, <1>9, <1>10 DEF RateInv, RateIsKept

\* A restart takes a tick, so that nothing of the past life is of the new one.
LEMMA ForgetKeepsRate ==
  ASSUME TypeOK, TypeOK', RateInv, NEW e \in Engine, Forget(e), now' = now + 1
  PROVE  RateInv'
<1>0. /\ now \in Nat /\ store' = store /\ Place' = Place
      /\ \A i \in Place : store[i] \in Incident
  BY LenProperties, ElementOfSeq DEF TypeOK, Place, Forget
<1>1. \A i \in Place : Alike(store'[i], store[i]) /\ store'[i].born <= now
  BY <1>0 DEF Alike, RateInv
<1>2. \A i \in Place' : store'[i].born <= now'
  BY <1>0, <1>1 DEF Incident
<1>3. /\ started'[e] = now' /\ created'[e] = <<>> /\ pending'[e] = Nothing
  BY DEF Forget, TypeOK
<1>4. ASSUME NEW o \in Engine, o # e
      PROVE  PlanInv(o)' /\ Counts(o)' /\ Cardinality(Opened(o)') <= RateLimit
  <2>1. /\ started'[o] = started[o] /\ created'[o] = created[o]
        /\ pending'[o] = pending[o]
    BY <1>4 DEF Forget, TypeOK
  <2>2. PlanInv(o)' /\ BeingFilled(o)' = BeingFilled(o)
    BY <1>0, <1>1, <2>1, PlanStays DEF RateInv, BeingFilled
  <2> QED
    BY <1>0, <1>1, <2>1, <2>2, QuietStep DEF RateInv, RateIsKept
<1>5. PlanInv(e)'
  BY <1>3 DEF PlanInv, Nothing
<1>6. \A i \in Place : ~(store'[i].born >= started'[e])
  BY <1>0, <1>1, <1>3 DEF Incident
<1>7. Opened(e)' = {} /\ \A t \in Nat : Ours(e, t)' = {}
  BY <1>0, <1>6 DEF Opened, Ours, Place
<1>8. Cardinality(Opened(e)') <= RateLimit
  BY <1>7, FS_EmptySet, EngineAssumption
<1>9. ASSUME NEW t \in Nat
      PROVE  Cardinality(Ours(e, t)' \ BeingFilled(e)') <= Cardinality(Noted(e, t)')
  <2>1. Ours(e, t)' \ BeingFilled(e)' = {}
    BY <1>7
  <2>2. Noted(e, t)' = {}
    BY <1>3 DEF Noted
  <2> QED
    BY <2>1, <2>2, FS_EmptySet
<1> QED
  BY <1>2, <1>4, <1>5, <1>8, <1>9 DEF RateInv, RateIsKept, Counts

LEMMA OthersKeepRate ==
  ASSUME TypeOK, TypeOK', RateInv,
         RecordDeploy \/ Close \/ Tick \/ (\E e \in Engine : Catch(e)) \/ UNCHANGED engineVars
  PROVE  RateInv'
<1>0. /\ now \in Nat /\ Place = DOMAIN store /\ \A i \in Place : store[i] \in Incident
  BY LenProperties, ElementOfSeq DEF TypeOK, Place
<1>1. /\ now' = now \/ now' = now + 1
      /\ UNCHANGED <<created, started>>
  BY DEF RecordDeploy, Close, Tick, Catch, engineVars
<1>2. Place' = Place /\ \A i \in Place : Alike(store'[i], store[i])
  <2>1. CASE Close
    BY <1>0, <2>1 DEF Close, Place, Alike, Incident
  <2>2. CASE store' = store
    BY <2>2 DEF Place, Alike
  <2> QED
    BY <2>1, <2>2 DEF RecordDeploy, Tick, Catch, engineVars
<1>3. \A i \in Place' : store'[i].born <= now'
  <2>1. \A i \in Place : store'[i].born = store[i].born /\ store[i].born <= now
                         /\ store[i].born \in Nat
    BY <1>0, <1>2 DEF RateInv, Alike, Incident
  <2> QED
    BY <1>0, <1>1, <1>2, <2>1
<1>4. ASSUME NEW o \in Engine
      PROVE  PlanInv(o)' /\ BeingFilled(o)' = BeingFilled(o)
  <2>1. CASE pending'[o] = pending[o]
    BY <1>1, <1>2, <2>1, PlanStays DEF RateInv, BeingFilled
  <2>2. CASE pending[o] = Throw /\ pending'[o] = Nothing
    BY <2>2 DEF PlanInv, BeingFilled, Throw, Nothing
  <2> QED
    BY <2>1, <2>2 DEF RecordDeploy, Close, Tick, Catch, engineVars, TypeOK
<1>5. \A o \in Engine : Counts(o)' /\ Cardinality(Opened(o)') <= RateLimit
  BY <1>1, <1>2, <1>4, QuietStep DEF RateInv, RateIsKept
<1> QED
  BY <1>3, <1>4, <1>5 DEF RateInv, RateIsKept

LEMMA NextKeepsRate ==
  ASSUME TypeOK, TypeOK', RateInv, [Next]_engineVars
  PROVE  RateInv'
<1>1. CASE \E e \in Engine, ev \in Event, force \in BOOLEAN : Ingest(e, ev, force)
  BY <1>1, IngestKeepsRate
<1>2. CASE \E e \in Engine : Save(e)
  BY <1>2, OpenNewKeepsRate, OpenCountedKeepsRate, FillKeepsRate DEF Save
<1>3. CASE \E e \in Engine : Restart(e) \/ Die(e)
  BY <1>3, ForgetKeepsRate DEF Restart, Die
<1> QED
  BY <1>1, <1>2, <1>3, OthersKeepRate DEF Next

LEMMA InitRate == Init => RateInv
<1> SUFFICES ASSUME Init PROVE RateInv
  OBVIOUS
<1>1. Place = {}
  BY DEF Init, Place
<1>2. ASSUME NEW e \in Engine
      PROVE  PlanInv(e) /\ Counts(e) /\ Cardinality(Opened(e)) <= RateLimit
  <2>1. PlanInv(e)
    BY DEF Init, PlanInv, Nothing
  <2>2. Opened(e) = {} /\ \A t \in Nat : Ours(e, t) \ BeingFilled(e) = {}
    BY <1>1 DEF Opened, Ours, Place
  <2>3. \A t \in Nat : Noted(e, t) = {}
    BY DEF Init, Noted
  <2> QED
    BY <2>1, <2>2, <2>3, FS_EmptySet, EngineAssumption DEF Counts
<1> QED
  BY <1>1, <1>2 DEF RateInv, RateIsKept

\* For every limit and every rule set, and however the processes interleave and restart,
\* the triggers of a process never open more incidents in an hour than the limit.
THEOREM LimitIsKept == Spec => []RateIsKept
<1>1. Init => TypeOK /\ RateInv
  BY InitType, InitRate
<1>2. TypeOK /\ RateInv /\ [Next]_engineVars => TypeOK' /\ RateInv'
  BY NextKeepsType, NextKeepsRate
<1>3. RateInv => RateIsKept
  BY DEF RateInv
<1> QED
  BY <1>1, <1>2, <1>3, PTL DEF Spec

\* An incident keeps its failure, its creator and the moment of its birth.
LEMMA StoreStaysAlike ==
  ASSUME TypeOK, RateInv, [Next]_engineVars
  PROVE  Place \subseteq Place' /\ \A i \in Place : Alike(store'[i], store[i])
<1>0. /\ store \in Seq(Incident) /\ Place = 1 .. Len(store) /\ Len(store) \in Nat
      /\ \A i \in Place : store[i] \in Incident
  BY LenProperties, ElementOfSeq DEF TypeOK, Place
<1>1. CASE \E e \in Engine : OpenNew(e)
  <2>1. PICK e \in Engine : OpenNew(e)
    BY <1>1
  <2>2. pending[e] \in Creating
    BY <2>1, PlanKinds DEF TypeOK, OpenNew
  <2> DEFINE inc == [pending[e].inc EXCEPT !.whole = FALSE]
  <2>3. inc \in Incident /\ store' = Append(store, inc)
    BY <2>1, <2>2 DEF OpenNew, Creating, Incident
  <2> HIDE DEF inc
  <2>4. store' \in Seq(Incident) /\ Len(store') = Len(store) + 1
        /\ \A i \in Place : store'[i] = store[i]
    BY <1>0, <2>3, AppendProperties
  <2> QED
    BY <1>0, <2>4, LenProperties DEF Place, Alike
<1>2. CASE \E e \in Engine : OpenCounted(e)
  <2>1. PICK e \in Engine : OpenCounted(e)
    BY <1>2
  <2>2. store' = [store EXCEPT ![pending[e].at].whole = FALSE]
    BY <2>1 DEF OpenCounted
  <2> QED
    BY <1>0, <2>2 DEF Place, Alike, Incident
<1>3. CASE \E e \in Engine : Fill(e)
  <2>1. PICK e \in Engine : Fill(e)
    BY <1>3
  <2>2. pending[e] \in Filling
    BY <2>1, PlanKinds DEF TypeOK, Fill
  <2> DEFINE at == pending[e].at
  <2>3. PICK whole \in BOOLEAN :
          store' = [store EXCEPT ![at] = [pending[e].inc EXCEPT !.whole = whole]]
    BY <2>1 DEF Fill
  <2>4. Alike(pending[e].inc, store[at])
    BY <2>2 DEF RateInv, PlanInv, Filling
  <2>5. Alike([pending[e].inc EXCEPT !.whole = whole], store[at])
    BY <2>2, <2>4 DEF Filling, Incident, Alike
  <2> QED
    BY <1>0, <2>3, <2>5 DEF Place, Alike
<1>4. CASE Close
  BY <1>0, <1>4 DEF Close, Place, Alike, Incident
<1>5. CASE store' = store
  BY <1>5 DEF Place, Alike
<1>6. \/ \E e \in Engine : OpenNew(e) \/ OpenCounted(e) \/ Fill(e)
      \/ Close \/ store' = store
  BY DEF Next, Ingest, Save, Restart, Die, Catch, Forget, RecordDeploy, Tick, engineVars
<1> QED
  BY <1>1, <1>2, <1>3, <1>4, <1>5, <1>6

-----------------------------------------------------------------------------
(***************************************************************************)
(* Duplicates do not add up.  A process that looks and finds nothing open  *)
(* may create an incident while each of the others holds an old copy that  *)
(* it will save, or is about to create one too: the incidents that are     *)
(* open, or may be by such a save, and those about to be created are       *)
(* together no more than the processes.                                    *)
(***************************************************************************)
\* Who is about to save an incident of the failure again, and which ones.
Aiming(fp) ==
  {o \in Engine : pending[o].do \in {"open", "fill"} /\ pending[o].inc.fp = fp}

Aims(fp) == {pending[o].at : o \in Aiming(fp)}

\* Who is about to create one.
Makers(fp) == {o \in Engine : pending[o].do = "create" /\ pending[o].inc.fp = fp}

Crowd(fp) == OpenMatches(fp) \cup Aims(fp)

CrowdInv ==
  \A fp \in Fingerprint : Cardinality(Crowd(fp)) + Cardinality(Makers(fp)) <= Cardinality(Engine)

LEMMA AimsAreFew ==
  ASSUME NEW S, IsFiniteSet(S), NEW p
  PROVE  /\ IsFiniteSet({p[o].at : o \in S})
         /\ Cardinality({p[o].at : o \in S}) <= Cardinality(S)
         /\ Cardinality({p[o].at : o \in S}) \in Nat /\ Cardinality(S) \in Nat
<1> DEFINE T == {p[o].at : o \in S}
           at == [o \in S |-> p[o].at]
<1>1. at \in Surjection(S, T)
  BY DEF Surjection
<1>2. IsFiniteSet(T) /\ Cardinality(T) <= Cardinality(S)
  <2> HIDE DEF at, T
  <2> QED
    BY <1>1, FS_Surjection
<1> QED
  BY <1>2, FS_CardinalityType

LEMMA CrowdIsFinite ==
  ASSUME TypeOK, IsFiniteSet(Engine), NEW fp
  PROVE  /\ IsFiniteSet(Crowd(fp)) /\ Cardinality(Crowd(fp)) \in Nat
         /\ IsFiniteSet(Makers(fp)) /\ Cardinality(Makers(fp)) \in Nat
         /\ Cardinality(Engine) \in Nat
<1>1. DOMAIN store = 1 .. Len(store) /\ Len(store) \in Nat
  BY LenProperties DEF TypeOK
<1>2. IsFiniteSet(OpenMatches(fp))
  <2>1. OpenMatches(fp) \subseteq DOMAIN store
    BY DEF OpenMatches
  <2>2. IsFiniteSet(DOMAIN store)
    BY <1>1, FS_Interval
  <2> QED
    BY <2>1, <2>2, FS_Subset
<1>3. IsFiniteSet(Crowd(fp))
  <2>1. IsFiniteSet(Aiming(fp))
    BY FS_Subset DEF Aiming
  <2>2. IsFiniteSet(Aims(fp))
    BY <2>1, AimsAreFew DEF Aims
  <2> QED
    BY <1>2, <2>2, FS_Union DEF Crowd
<1>4. IsFiniteSet(Makers(fp))
  BY FS_Subset DEF Makers
<1> QED
  BY <1>3, <1>4, FS_CardinalityType

\* A step after which nobody more is in the crowd, or about to join it.
LEMMA CrowdShrinks ==
  ASSUME TypeOK, IsFiniteSet(Engine), NEW fp \in Fingerprint, CrowdInv,
         Crowd(fp)' \subseteq Crowd(fp), Makers(fp)' \subseteq Makers(fp)
  PROVE  Cardinality(Crowd(fp)') + Cardinality(Makers(fp)') <= Cardinality(Engine)
<1> DEFINE a == Cardinality(Crowd(fp)')
           b == Cardinality(Crowd(fp))
           c == Cardinality(Makers(fp)')
           d == Cardinality(Makers(fp))
           n == Cardinality(Engine)
<1>1. /\ a \in Nat /\ b \in Nat /\ c \in Nat /\ d \in Nat /\ n \in Nat
      /\ a <= b /\ c <= d /\ b + d <= n
  BY CrowdIsFinite, SmallerSet DEF CrowdInv
<1> HIDE DEF a, b, c, d, n
<1>2. a + c <= n
  BY <1>1
<1> QED
  BY <1>2 DEF a, c, n

\* What leaves the store alone, but for the clock.
LEMMA WindowShrinks ==
  ASSUME TypeOK, NEW fp, store' = store, now' = now \/ now' = now + 1
  PROVE  OpenMatches(fp)' \subseteq OpenMatches(fp)
<1>1. now \in Nat /\ \A i \in DOMAIN store : store[i] \in Incident
  BY ElementOfSeq, LenProperties DEF TypeOK
<1>2. /\ Before(DedupeWindow) \in Nat /\ Before(DedupeWindow)' \in Nat
      /\ Before(DedupeWindow) <= Before(DedupeWindow)'
  BY <1>1, EngineAssumption, BeforeType, BeforeGrows
<1> DEFINE x == Before(DedupeWindow)
           y == Before(DedupeWindow)'
<1>3. /\ OpenMatches(fp) = {i \in DOMAIN store : store[i].fp = fp /\ store[i].status = "open"
                                                /\ store[i].last_seen >= x}
      /\ OpenMatches(fp)' = {i \in DOMAIN store : store[i].fp = fp /\ store[i].status = "open"
                                                 /\ store[i].last_seen >= y}
  BY DEF OpenMatches
<1> HIDE DEF x, y
<1>4. \A i \in DOMAIN store : store[i].last_seen \in Nat
  BY <1>1 DEF Incident
<1>5. x \in Nat /\ y \in Nat /\ x <= y
  BY <1>2 DEF x, y
<1>6. \A i \in DOMAIN store : store[i].last_seen >= y => store[i].last_seen >= x
  BY <1>4, <1>5
<1> QED
  BY <1>3, <1>6

\* A step in which e lets go of what it was about to do, takes aim at an incident that is
\* in the crowd, or plans for another failure.
LEMMA AimStays ==
  ASSUME NEW e \in Engine, NEW fp,
         \A o \in Engine \ {e} :
           /\ pending'[o].do = pending[o].do
           /\ pending[o].do \in {"create", "open", "fill"} => pending'[o].inc = pending[o].inc
           /\ pending[o].do \in {"open", "fill"} => pending'[o].at = pending[o].at,
         pending'[e].do = "create" => pending'[e].inc.fp # fp,
         /\ pending'[e].do \in {"open", "fill"}
         /\ pending'[e].inc.fp = fp
         => pending'[e].at \in Crowd(fp)
  PROVE  Aims(fp)' \subseteq Crowd(fp) /\ Makers(fp)' \subseteq Makers(fp)
<1>1. ASSUME NEW o \in Engine, pending'[o].do \in {"open", "fill"}, pending'[o].inc.fp = fp
      PROVE  pending'[o].at \in Crowd(fp)
  <2>1. CASE o = e
    BY <1>1, <2>1
  <2>2. CASE o # e
    <3>1. o \in Aiming(fp) /\ pending'[o].at = pending[o].at
      BY <1>1, <2>2 DEF Aiming
    <3> QED
      BY <3>1 DEF Aims, Crowd
  <2> QED
    BY <2>1, <2>2
<1>2. ASSUME NEW o \in Engine, pending'[o].do = "create", pending'[o].inc.fp = fp
      PROVE  o \in Makers(fp)
  <2>1. o # e
    BY <1>2
  <2> QED
    BY <1>2, <2>1 DEF Makers
<1>3. Aims(fp)' \subseteq Crowd(fp)
  BY <1>1 DEF Aims, Aiming
<1>4. Makers(fp)' \subseteq Makers(fp)
  BY <1>2 DEF Makers
<1> QED
  BY <1>3, <1>4

\* Who looks and finds nothing open makes one more, of which there is then room for:
\* each of the others has at most one in hand.
LEMMA EmptyLookKeepsCrowd ==
  ASSUME IsFiniteSet(Engine), NEW fp, OpenMatches(fp)' = {}
  PROVE  Cardinality(Crowd(fp)') + Cardinality(Makers(fp)') <= Cardinality(Engine)
<1> DEFINE A == Aiming(fp)'
           T == Aims(fp)'
           M == Makers(fp)'
<1>1. Crowd(fp)' = T
  BY DEF Crowd
<1>2. A \subseteq Engine /\ M \subseteq Engine /\ A \cap M = {}
  BY DEF Aiming, Makers
<1>3. T = {pending'[o].at : o \in A}
  BY DEF Aims
<1> HIDE DEF A, T, M
<1>4. IsFiniteSet(A) /\ IsFiniteSet(M) /\ Cardinality(M) \in Nat /\ Cardinality(A) \in Nat
  BY <1>2, FS_Subset, FS_CardinalityType
<1>5. Cardinality(T) <= Cardinality(A) /\ Cardinality(T) \in Nat
  BY <1>3, <1>4, AimsAreFew
<1>6. Cardinality(A \cup M) = Cardinality(A) + Cardinality(M)
  <2>1. Cardinality(A \cap M) = 0
    BY <1>2, FS_EmptySet
  <2>2. Cardinality(A \cup M) = Cardinality(A) + Cardinality(M) - Cardinality(A \cap M)
    BY <1>4, FS_Union
  <2> QED
    BY <1>4, <2>1, <2>2
<1>7. Cardinality(A \cup M) <= Cardinality(Engine) /\ Cardinality(Engine) \in Nat
  <2>1. A \cup M \subseteq Engine
    BY <1>2
  <2> QED
    BY <2>1, SmallerSet
<1>8. Cardinality(T) + Cardinality(M) <= Cardinality(Engine)
  BY <1>4, <1>5, <1>6, <1>7
<1> QED
  BY <1>1, <1>8 DEF M

LEMMA IngestKeepsCrowd ==
  ASSUME TypeOK, CrowdInv, IsFiniteSet(Engine), NEW fp \in Fingerprint,
         NEW e \in Engine, NEW ev \in Event, NEW force \in BOOLEAN, Ingest(e, ev, force)
  PROVE  Cardinality(Crowd(fp)') + Cardinality(Makers(fp)') <= Cardinality(Engine)
<1>1. OpenMatches(fp)' = OpenMatches(fp)
  BY DEF Ingest, OpenMatches, Before
<1>2. CASE pending' = pending
  <2>1. Crowd(fp)' = Crowd(fp) /\ Makers(fp)' = Makers(fp)
    BY <1>1, <1>2 DEF Crowd, Aims, Aiming, Makers
  <2> QED
    BY <2>1, CrowdShrinks
<1>3. ASSUME NEW next \in {Throw} \cup Found(e, ev, force),
             pending' = [pending EXCEPT ![e] = next]
      PROVE  Cardinality(Crowd(fp)') + Cardinality(Makers(fp)') <= Cardinality(Engine)
  <2>1. pending'[e] = next /\ \A o \in Engine \ {e} : pending'[o] = pending[o]
    BY <1>3 DEF TypeOK
  <2>2. CASE next \in Found(e, ev, force) /\ OpenMatches(ev.fp) = {} /\ ev.fp = fp
    BY <1>1, <2>2, EmptyLookKeepsCrowd
  <2>3. CASE next \in Found(e, ev, force) /\ OpenMatches(ev.fp) = {} /\ ev.fp # fp
    <3>1. next.do = "create" /\ next.inc.fp = ev.fp
      BY <2>3 DEF Found, NewIncident
    <3>2. Aims(fp)' \subseteq Crowd(fp) /\ Makers(fp)' \subseteq Makers(fp)
      BY <2>1, <2>3, <3>1, AimStays
    <3>3. Crowd(fp)' \subseteq Crowd(fp)
      BY <1>1, <3>2 DEF Crowd
    <3> QED
      BY <3>2, <3>3, CrowdShrinks
  <2>4. CASE next \in Found(e, ev, force) /\ OpenMatches(ev.fp) # {}
    <3>1. PICK i \in OpenMatches(ev.fp) :
            next = [do |-> "open", at |-> i, inc |-> Counted(store[i], ev), raced |-> {}]
      BY <2>4 DEF Found
    <3>2. next.do = "open" /\ next.at = i /\ next.inc.fp = ev.fp
      <4>1. store[i] \in Incident /\ store[i].fp = ev.fp
        BY <3>1, ElementOfSeq, LenProperties DEF OpenMatches, TypeOK
      <4> QED
        BY <3>1, <4>1 DEF Counted, Incident
    <3>3. next.inc.fp = fp => next.at \in Crowd(fp)
      BY <3>2 DEF Crowd
    <3>4. Aims(fp)' \subseteq Crowd(fp) /\ Makers(fp)' \subseteq Makers(fp)
      BY <2>1, <3>2, <3>3, AimStays
    <3>5. Crowd(fp)' \subseteq Crowd(fp)
      BY <1>1, <3>4 DEF Crowd
    <3> QED
      BY <3>4, <3>5, CrowdShrinks
  <2>5. CASE next = Throw
    <3>1. next.do = "throw"
      BY <2>5 DEF Throw
    <3>2. Aims(fp)' \subseteq Crowd(fp) /\ Makers(fp)' \subseteq Makers(fp)
      BY <2>1, <3>1, AimStays
    <3>3. Crowd(fp)' \subseteq Crowd(fp)
      BY <1>1, <3>2 DEF Crowd
    <3> QED
      BY <3>2, <3>3, CrowdShrinks
  <2> QED
    BY <1>3, <2>2, <2>3, <2>4, <2>5
<1>4. pending' = pending \/ \E next \in {Throw} \cup Found(e, ev, force) :
                              pending' = [pending EXCEPT ![e] = next]
  BY DEF Ingest
<1> QED
  BY <1>2, <1>3, <1>4

LEMMA OpenNewKeepsCrowd ==
  ASSUME TypeOK, CrowdInv, IsFiniteSet(Engine), NEW fp \in Fingerprint,
         NEW e \in Engine, OpenNew(e)
  PROVE  Cardinality(Crowd(fp)') + Cardinality(Makers(fp)') <= Cardinality(Engine)
<1>0. /\ store \in Seq(Incident) /\ Len(store) \in Nat /\ DOMAIN store = 1 .. Len(store)
      /\ pending[e] \in Creating
  BY PlanKinds, LenProperties DEF TypeOK, OpenNew
<1> DEFINE l == Len(store')
           inc == [pending[e].inc EXCEPT !.whole = FALSE]
           next == [do |-> "fill", new |-> TRUE, at |-> l,
                    inc |-> pending[e].inc, raced |-> pending[e].raced]
<1>1. store' = Append(store, inc) /\ pending' = Saved(e, l, next) /\ now' = now
  BY DEF OpenNew
<1>2. inc \in Incident /\ inc.fp = pending[e].inc.fp
  BY <1>0 DEF Creating, Incident
<1> HIDE DEF inc
<1>3. /\ DOMAIN store' = DOMAIN store \cup {l} /\ store'[l] = inc
      /\ \A i \in DOMAIN store : store'[i] = store[i]
  <2>1. /\ store' \in Seq(Incident) /\ Len(store') = Len(store) + 1
        /\ \A i \in 1 .. Len(store) : store'[i] = store[i]
        /\ store'[Len(store) + 1] = inc
    BY <1>0, <1>1, <1>2, AppendProperties
  <2>2. DOMAIN store' = 1 .. Len(store')
    BY <2>1, LenProperties
  <2>3. 1 .. (Len(store) + 1) = 1 .. Len(store) \cup {Len(store) + 1}
    BY <1>0
  <2> QED
    BY <1>0, <2>1, <2>2, <2>3
<1>4. pending'[e] = next
  BY <1>1 DEF Saved
<1>5. pending'[e].do = "fill" /\ pending'[e].at = l /\ pending'[e].inc = pending[e].inc
  BY <1>4
<1> HIDE DEF next, l
<1>6. \A o \in Engine \ {e} :
        /\ pending'[o].do = pending[o].do
        /\ pending[o].do \in {"create", "open", "fill"} => pending'[o].inc = pending[o].inc
        /\ pending[o].do \in {"open", "fill"} => pending'[o].at = pending[o].at
  BY <1>1, Told
<1>7. Before(DedupeWindow)' = Before(DedupeWindow)
  BY <1>1 DEF Before
<1>8. CASE pending[e].inc.fp # fp
  <2>1. OpenMatches(fp)' \subseteq OpenMatches(fp)
    BY <1>2, <1>3, <1>7, <1>8 DEF OpenMatches
  <2>2. Aims(fp)' \subseteq Crowd(fp) /\ Makers(fp)' \subseteq Makers(fp)
    BY <1>5, <1>6, <1>8, AimStays
  <2>3. Crowd(fp)' \subseteq Crowd(fp)
    BY <2>1, <2>2 DEF Crowd
  <2> QED
    BY <2>2, <2>3, CrowdShrinks
<1>9. CASE pending[e].inc.fp = fp
  <2>1. OpenMatches(fp)' \subseteq OpenMatches(fp) \cup {l}
    BY <1>3, <1>7 DEF OpenMatches
  <2>2. ASSUME NEW o \in Engine, pending'[o].do \in {"open", "fill"}, pending'[o].inc.fp = fp
        PROVE  pending'[o].at \in Aims(fp) \cup {l}
    <3>1. CASE o = e
      BY <1>5, <3>1
    <3>2. CASE o # e
      BY <1>6, <2>2, <3>2 DEF Aims, Aiming
    <3> QED
      BY <3>1, <3>2
  <2>3. Aims(fp)' \subseteq Aims(fp) \cup {l}
    BY <2>2 DEF Aims, Aiming
  <2>4. Crowd(fp)' \subseteq Crowd(fp) \cup {l}
    BY <2>1, <2>3 DEF Crowd
  <2>5. e \in Makers(fp)
    BY <1>0, <1>9 DEF Makers, OpenNew
  <2>6. Makers(fp)' \subseteq Makers(fp) \ {e}
    <3>1. ASSUME NEW o \in Engine, pending'[o].do = "create", pending'[o].inc.fp = fp
          PROVE  o \in Makers(fp) \ {e}
      <4>1. o # e
        BY <1>5, <3>1
      <4> QED
        BY <1>6, <3>1, <4>1 DEF Makers
    <3> QED
      BY <3>1 DEF Makers
  <2> DEFINE a == Cardinality(Crowd(fp)')
             b == Cardinality(Crowd(fp))
             c == Cardinality(Makers(fp)')
             d == Cardinality(Makers(fp))
             n == Cardinality(Engine)
  <2>7. a \in Nat /\ b \in Nat /\ a <= b + 1
    BY <2>4, CrowdIsFinite, OneMore
  <2>8. c \in Nat /\ d \in Nat /\ c <= d - 1
    <3>1. /\ IsFiniteSet(Makers(fp) \ {e})
          /\ Cardinality(Makers(fp) \ {e}) = Cardinality(Makers(fp)) - 1
      BY <2>5, CrowdIsFinite, FS_RemoveElement
    <3>2. /\ Cardinality(Makers(fp)') <= Cardinality(Makers(fp) \ {e})
          /\ Cardinality(Makers(fp)') \in Nat
      BY <2>6, <3>1, SmallerSet
    <3> QED
      BY <3>1, <3>2, CrowdIsFinite
  <2>9. n \in Nat /\ b + d <= n
    BY CrowdIsFinite DEF CrowdInv
  <2> HIDE DEF a, b, c, d, n
  <2>10. a + c <= n
    BY <2>7, <2>8, <2>9
  <2> QED
    BY <2>10 DEF a, c, n
<1> QED
  BY <1>8, <1>9

\* A save of an incident that is aimed at brings it back, or keeps it.
LEMMA SaveKeepsCrowd ==
  ASSUME TypeOK, CrowdInv, IsFiniteSet(Engine), NEW fp \in Fingerprint,
         NEW e \in Engine, OpenCounted(e) \/ Fill(e)
  PROVE  Cardinality(Crowd(fp)') + Cardinality(Makers(fp)') <= Cardinality(Engine)
<1>0. /\ store \in Seq(Incident) /\ pending[e] \in Opening \cup Filling
      /\ \A i \in DOMAIN store : store[i] \in Incident
  BY PlanKinds, LenProperties, ElementOfSeq DEF TypeOK, OpenCounted, Fill
<1> DEFINE at == pending[e].at
           inc == pending[e].inc
<1>1. at \in DOMAIN store /\ inc \in Incident /\ pending[e].do \in {"open", "fill"}
  BY <1>0 DEF Opening, Filling, Place
<1>2. PICK next :
        /\ pending' = Saved(e, at, next)
        /\ \/ next = Nothing
           \/ next.do = "fill" /\ next.at = at /\ next.inc = inc
  <2>1. CASE OpenCounted(e)
    <3> DEFINE next == [do |-> "fill", new |-> FALSE, at |-> at,
                        inc |-> inc, raced |-> pending[e].raced]
    <3>1. pending' = Saved(e, at, next)
      BY <2>1 DEF OpenCounted
    <3>2. next.do = "fill" /\ next.at = at /\ next.inc = inc
      OBVIOUS
    <3> QED
      BY <3>1, <3>2
  <2>2. CASE Fill(e)
    BY <2>2 DEF Fill
  <2> QED
    BY <2>1, <2>2
<1>3. /\ DOMAIN store' = DOMAIN store
      /\ \A i \in DOMAIN store : i # at => store'[i] = store[i]
      /\ \/ /\ store'[at].fp = store[at].fp /\ store'[at].status = store[at].status
            /\ store'[at].last_seen = store[at].last_seen
         \/ store'[at].fp = inc.fp
  <2>1. CASE OpenCounted(e)
    BY <1>0, <1>1, <2>1 DEF OpenCounted, Incident
  <2>2. CASE Fill(e)
    <3>1. PICK whole \in BOOLEAN :
            store' = [store EXCEPT ![at] = [inc EXCEPT !.whole = whole]]
      BY <2>2 DEF Fill
    <3>2. [inc EXCEPT !.whole = whole].fp = inc.fp
      BY <1>1 DEF Incident
    <3> QED
      BY <1>0, <1>1, <3>1, <3>2
  <2> QED
    BY <2>1, <2>2
<1>4. now' = now
  BY DEF OpenCounted, Fill
<1>5. inc.fp = fp => at \in Crowd(fp)
  BY <1>1 DEF Crowd, Aims, Aiming
<1>6. OpenMatches(fp)' \subseteq Crowd(fp)
  <2>1. Before(DedupeWindow)' = Before(DedupeWindow)
    BY <1>4 DEF Before
  <2>2. ASSUME NEW i \in OpenMatches(fp)'
        PROVE  i \in Crowd(fp)
    <3>1. /\ i \in DOMAIN store /\ store'[i].fp = fp /\ store'[i].status = "open"
          /\ store'[i].last_seen >= Before(DedupeWindow)
      BY <1>3, <2>1 DEF OpenMatches
    <3>2. CASE i # at
      BY <1>3, <3>1, <3>2 DEF OpenMatches, Crowd
    <3>3. CASE i = at
      BY <1>3, <1>5, <3>1, <3>3 DEF OpenMatches, Crowd
    <3> QED
      BY <3>2, <3>3
  <2> QED
    BY <2>2
<1>7. pending'[e] = next
  BY <1>2 DEF Saved
<1>8. \A o \in Engine \ {e} :
        /\ pending'[o].do = pending[o].do
        /\ pending[o].do \in {"create", "open", "fill"} => pending'[o].inc = pending[o].inc
        /\ pending[o].do \in {"open", "fill"} => pending'[o].at = pending[o].at
  BY <1>2, Told
<1>9. Aims(fp)' \subseteq Crowd(fp) /\ Makers(fp)' \subseteq Makers(fp)
  <2>1. pending'[e].do # "create"
    BY <1>2, <1>7 DEF Nothing
  <2>2. pending'[e].do \in {"open", "fill"} /\ pending'[e].inc.fp = fp
        => pending'[e].at \in Crowd(fp)
    BY <1>2, <1>5, <1>7 DEF Nothing
  <2> HIDE DEF at, inc
  <2> QED
    BY <1>8, <2>1, <2>2, AimStays
<1>10. Crowd(fp)' \subseteq Crowd(fp)
  BY <1>6, <1>9 DEF Crowd
<1> QED
  BY <1>9, <1>10, CrowdShrinks

LEMMA OthersKeepCrowd ==
  ASSUME TypeOK, CrowdInv, IsFiniteSet(Engine), NEW fp \in Fingerprint,
         \/ \E e \in Engine : Restart(e) \/ Die(e) \/ Catch(e)
         \/ RecordDeploy \/ Close \/ Tick \/ UNCHANGED engineVars
  PROVE  Cardinality(Crowd(fp)') + Cardinality(Makers(fp)') <= Cardinality(Engine)
<1>1. OpenMatches(fp)' \subseteq OpenMatches(fp)
  <2>1. CASE Close
    <3>1. \A i \in DOMAIN store : store[i] \in Incident
      BY LenProperties, ElementOfSeq DEF TypeOK
    <3>2. PICK i \in DOMAIN store : store' = [store EXCEPT ![i].status = "closed"]
      BY <2>1 DEF Close
    <3>3. now' = now /\ DOMAIN store' = DOMAIN store
      BY <2>1, <3>2 DEF Close
    <3>4. store'[i].status = "closed" /\ \A j \in DOMAIN store : j # i => store'[j] = store[j]
      BY <3>1, <3>2 DEF Incident
    <3>5. Before(DedupeWindow)' = Before(DedupeWindow)
      BY <3>3 DEF Before
    <3> QED
      BY <3>3, <3>4, <3>5 DEF OpenMatches
  <2>2. CASE ~Close
    <3>1. store' = store /\ (now' = now \/ now' = now + 1)
      BY <2>2 DEF Restart, Die, Catch, Forget, RecordDeploy, Tick, engineVars
    <3> QED
      BY <3>1, WindowShrinks
  <2> QED
    BY <2>1, <2>2
<1>2. \A o \in Engine : pending'[o] = pending[o] \/ pending'[o] = Nothing
  BY DEF Restart, Die, Catch, Forget, RecordDeploy, Close, Tick, engineVars, TypeOK
<1>3. Nothing.do = "nothing"
  BY DEF Nothing
<1>4. Aims(fp)' \subseteq Aims(fp) /\ Makers(fp)' \subseteq Makers(fp)
  BY <1>2, <1>3 DEF Aims, Aiming, Makers
<1>5. Crowd(fp)' \subseteq Crowd(fp)
  BY <1>1, <1>4 DEF Crowd
<1> QED
  BY <1>4, <1>5, CrowdShrinks

LEMMA NextKeepsCrowd ==
  ASSUME TypeOK, CrowdInv, IsFiniteSet(Engine), [Next]_engineVars
  PROVE  CrowdInv'
<1> SUFFICES ASSUME NEW fp \in Fingerprint
             PROVE  Cardinality(Crowd(fp)') + Cardinality(Makers(fp)') <= Cardinality(Engine)
  BY DEF CrowdInv
<1>1. CASE \E e \in Engine, ev \in Event, force \in BOOLEAN : Ingest(e, ev, force)
  BY <1>1, IngestKeepsCrowd
<1>2. CASE \E e \in Engine : Save(e)
  BY <1>2, OpenNewKeepsCrowd, SaveKeepsCrowd DEF Save
<1> QED
  BY <1>1, <1>2, OthersKeepCrowd DEF Next

LEMMA InitCrowd ==
  ASSUME Init, IsFiniteSet(Engine)
  PROVE  CrowdInv
<1> SUFFICES ASSUME NEW fp \in Fingerprint
             PROVE  Cardinality(Crowd(fp)) + Cardinality(Makers(fp)) <= Cardinality(Engine)
  BY DEF CrowdInv
<1>1. Crowd(fp) = {} /\ Makers(fp) = {}
  BY DEF Init, Nothing, Crowd, OpenMatches, Aims, Aiming, Makers
<1>2. Cardinality({}) = 0 /\ Cardinality(Engine) \in Nat
  BY FS_EmptySet, FS_CardinalityType
<1> QED
  BY <1>1, <1>2

\* For any windows, rules, limits and interleavings with closing, forcing, torn files and
\* restarts: of one failure at most as many incidents are open within the deduplication
\* window as there are processes, if those are finitely many.
THEOREM DuplicatesDoNotAddUp ==
  ASSUME IsFiniteSet(Engine)
  PROVE  Spec => []DuplicatesBounded
<1>1. Init => TypeOK /\ CrowdInv
  BY InitType, InitCrowd
<1>2. TypeOK /\ CrowdInv /\ [Next]_engineVars => TypeOK' /\ CrowdInv'
  BY NextKeepsType, NextKeepsCrowd
<1>3. TypeOK /\ CrowdInv => DuplicatesBounded
  <2> SUFFICES ASSUME TypeOK, CrowdInv, NEW fp \in Fingerprint
               PROVE  Cardinality(OpenMatches(fp)) <= Cardinality(Engine)
    BY DEF DuplicatesBounded, OpenMatches
  <2>1. OpenMatches(fp) \subseteq Crowd(fp)
    BY DEF Crowd
  <2> DEFINE a == Cardinality(OpenMatches(fp))
             b == Cardinality(Crowd(fp))
             d == Cardinality(Makers(fp))
             n == Cardinality(Engine)
  <2>2. a \in Nat /\ b \in Nat /\ d \in Nat /\ n \in Nat /\ a <= b /\ b + d <= n
    BY <2>1, CrowdIsFinite, SmallerSet DEF CrowdInv
  <2> HIDE DEF a, b, d, n
  <2>3. a <= n
    BY <2>2
  <2> QED
    BY <2>3 DEF a, n
<1> QED
  BY <1>1, <1>2, <1>3, PTL DEF Spec

=============================================================================
