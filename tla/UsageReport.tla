---------------------------- MODULE UsageReport -----------------------------
(***************************************************************************)
(* What a project called and used and what it has to pay.  The log of calls*)
(* (the second part) has variables, an Init and a Next of its own.         *)
(***************************************************************************)
EXTENDS Integers, Sequences, FiniteSets, FiniteSetsExt, TLC

-----------------------------------------------------------------------------
(***************************************************************************)
(* What a project used and what it costs: a call that was answered is logged *)
(* and then metered as an event of an append-only ledger, an operator        *)
(* reverses events and adds cost models, and summaries and series are made   *)
(* of the ledger, or of the call log as long as the ledger has nothing.      *)
(* This is one project in one process, and the log is the one in its memory: *)
(* how several processes save and restore the ledger is in ControlState.     *)
(***************************************************************************)

CONSTANTS
  Tasks,     (* what runs at the same time                                 *)
  Scenes,    (* for each task what it does, one after the other            *)
  MaxTime,   (* bound on the clock                                         *)
  DayLength, (* the time of a day, a month has two                         *)
  Limit,     (* rows of the call log that are looked at                    *)
  Price,     (* what a call and an image cost, by version of the cost model *)
  Windows,   (* the times that are asked for: since and until, or Nil      *)
  Periods,   (* the series that are asked for: a time zone, and day or month *)
  MaxFaults, (* bound on saves and audit records that fail                 *)
  Nil        (* no value                                                   *)

VARIABLES
  now,
  todo,     (* what each task does yet                                     *)
  task,     (* where it is: idle, begun, logged, read or written, since    *)
            (* when, the state it has read and, if that was the last, the   *)
            (* one it wrote                                                *)
  log,      (* _CALL_LOGS                                                  *)
  ledger,   (* _STATE: the usage events and the cost models                *)
  unmetered, (* calls whose event was refused or lost                      *)
  undone,   (* an audit failure has taken away what others had added       *)
  left      (* faults that may still come                                  *)

vars == <<now, todo, task, log, ledger, unmetered, undone, left>>

Idle == [at |-> "idle", start |-> 0, seen |-> Nil, wrote |-> Nil]

Init ==
  /\ now = 0 /\ todo \in Scenes /\ task = [t \in Tasks |-> Idle] /\ log = <<>>
  /\ ledger = [events |-> <<>>, models |-> {}] /\ unmetered = 0 /\ undone = FALSE /\ left = MaxFaults

Op(t) == Head(todo[t])
Does(t, at, ops) == todo[t] # <<>> /\ task[t].at = at /\ Op(t).op \in ops
To(t, at)   == task' = [task EXCEPT ![t].at = at]
Finish(t)   == task' = [task EXCEPT ![t] = Idle] /\ todo' = [todo EXCEPT ![t] = Tail(@)]
Fault       == left > 0 /\ left' = left - 1

-----------------------------------------------------------------------------
(* The middleware.                                                         *)
Begin(t) ==
  /\ Does(t, "idle", {"call"})
  /\ task' = [task EXCEPT ![t] = [Idle EXCEPT !.at = "begun", !.start = now]]
  /\ UNCHANGED <<now, todo, log, ledger, unmetered, undone, left>>

LogCall(t) ==
  /\ Does(t, "begun", {"call"}) /\ To(t, "logged")
  /\ log' = Append(log, [at |-> task[t].start, call |-> Op(t)])
  /\ UNCHANGED <<now, todo, ledger, unmetered, undone, left>>

Events == DOMAIN ledger.events
Event(i) == ledger.events[i]
Added(e) == ledger' = [ledger EXCEPT !.events = Append(@, e)]

\* A save that fails leaves what was added in memory, to be saved with the next change;
\* only if another process was first is it gone.
Unsaved(there) == Fault /\ (there \/ UNCHANGED ledger)

\* record_http_usage_event: the key of a call is its request id and the kind of its delivery.
UsageOf(c, start) ==
  [type |-> "usage", at |-> start, key |-> <<c.id, c.kind>>, outcome |-> c.outcome, kind |-> c.kind, app |-> c.app,
   calls |-> 1, images |-> c.images, of |-> 0]

\* record_usage_event: a key that is there already is refused, or it is the same event.
Record(e) ==
  LET same == {i \in Events : Event(i).key = e.key}
  IN  \/ same # {} /\ unmetered' = unmetered + 1 /\ UNCHANGED <<ledger, left>>
      \/ same = {} /\ Added(e) /\ UNCHANGED <<unmetered, left>>
      \/ same = {} /\ Unsaved(Added(e)) /\ unmetered' = unmetered + (IF ledger' = ledger THEN 1 ELSE 0)

\* Nothing is recorded of the excluded paths, and what fails is only logged.
Meter(t) ==
  /\ Does(t, "logged", {"call"}) /\ Finish(t)
  /\ \/ Op(t).excluded /\ UNCHANGED <<ledger, unmetered, left>>
     \/ ~Op(t).excluded /\ Record(UsageOf(Op(t), task[t].start))
  /\ UNCHANGED <<now, log, undone>>

-----------------------------------------------------------------------------
(* The operator's routes: the state is read, the record is added, and if the *)
(* audit fails the state that was read is put back; if the save fails, not.  *)
Change == {"reverse", "model"}

Read(t) ==
  /\ Does(t, "idle", Change)
  /\ task' = [task EXCEPT ![t] = [Idle EXCEPT !.at = "read", !.seen = ledger]]
  /\ UNCHANGED <<now, todo, log, ledger, unmetered, undone, left>>

Usages == {i \in Events : Event(i).type = "usage"}
Reversed(i) == \E j \in Events : Event(j).of = i

\* reverse_usage_event: one that exists is returned as it is.
Reversal(i) ==
  [Event(i) EXCEPT !.type = "reversal", !.at = now, !.key = <<"reversal", i>>, !.kind = "reversal",
                   !.calls = -@, !.images = -@, !.of = i]

Refuse(t)  == Finish(t) /\ UNCHANGED ledger
Written(t) ==
  /\ task' = [task EXCEPT ![t].at = "written", ![t].wrote = IF ledger = task[t].seen THEN ledger' ELSE Nil]
  /\ UNCHANGED todo

Reverse(t) ==
  /\ Does(t, "read", {"reverse"})
  /\ LET i == Op(t).nth
     IN \/ i \notin Usages /\ Refuse(t) /\ UNCHANGED left
        \/ i \in Usages /\ Reversed(i) /\ UNCHANGED <<ledger, left>> /\ Written(t)
        \/ i \in Usages /\ ~Reversed(i) /\ Added(Reversal(i)) /\ Written(t) /\ UNCHANGED left
        \/ i \in Usages /\ ~Reversed(i) /\ Unsaved(Added(Reversal(i))) /\ Finish(t)
  /\ UNCHANGED <<now, log, unmetered, undone>>

\* create_cost_model
CreateModel(t) ==
  /\ Does(t, "read", {"model"})
  /\ LET m == Op(t).model
         known == \E n \in ledger.models : n.version = m.version
         added == ledger' = [ledger EXCEPT !.models = @ \cup {m}]
     IN \/ known /\ Refuse(t) /\ UNCHANGED left
        \/ ~known /\ added /\ Written(t) /\ UNCHANGED left
        \/ ~known /\ Unsaved(added) /\ Finish(t)
  /\ UNCHANGED <<now, log, unmetered, undone>>

Audit(t) ==
  /\ Does(t, "written", Change) /\ Finish(t)
  /\ \/ UNCHANGED <<ledger, undone, left>>
     \/ Fault /\ ledger' = task[t].seen /\ undone' = (undone \/ ledger # task[t].wrote)
  /\ UNCHANGED <<now, log, unmetered>>

Tick == now < MaxTime /\ now' = now + 1 /\ UNCHANGED <<todo, task, log, ledger, unmetered, undone, left>>

Next ==
  \/ \E t \in Tasks : Begin(t) \/ LogCall(t) \/ Meter(t) \/ Read(t) \/ Reverse(t) \/ CreateModel(t) \/ Audit(t)
  \/ Tick

Spec == Init /\ [][Next]_vars

-----------------------------------------------------------------------------
(* The reports.                                                            *)
Outcomes == {"success", "rejection", "failure"}
Kinds    == {"original", "retry", "duplicate", "reversal"}
In(at, w) == (w.since = Nil \/ at >= w.since) /\ (w.until = Nil \/ at <= w.until)

\* list_usage_events
EventsIn(w) == {i \in Events : In(Event(i).at, w)}

\* _bucket_key: the day or the month in the time zone.
Period(at, z) == (at + z.zone) \div (IF z.unit = "month" THEN 2 * DayLength ELSE DayLength)

\* _cost_model_for_event: of those that begin at the same time the first version is taken.
ModelAt(at) ==
  LET eligible == {m \in ledger.models : m.from <= at}
      latest   == {m \in eligible : \A n \in eligible : n.from <= m.from}
  IN  IF eligible = {} THEN Nil ELSE CHOOSE m \in latest : \A n \in latest : m.version <= n.version

CostUnder(e, m) == e.calls * Price[m.version].call + e.images * Price[m.version].image

CostOf(i) == IF ModelAt(Event(i).at) = Nil THEN 0 ELSE CostUnder(Event(i), ModelAt(Event(i).at))
Calls(S)  == MapThenSumSet(LAMBDA i : Event(i).calls, S)
Images(S) == MapThenSumSet(LAMBDA i : Event(i).images, S)
Costs(S)  == MapThenSumSet(CostOf, S)

\* aggregate_usage
Aggregate(w, z) ==
  LET S == EventsIn(w)
      With(R, o) == {i \in R : Event(i).outcome = o}
      Kind(R, k) == {i \in R : Event(i).kind = k}
      Line(R) == [calls |-> Calls(R), success |-> Calls(With(R, "success")), rejected |-> Calls(With(R, "rejection")),
                  failed |-> Calls(With(R, "failure")), retries |-> Calls(Kind(R, "retry")),
                  duplicates |-> Calls(Kind(R, "duplicate")), images |-> Images(R), cost |-> Costs(R)]
      priced == {i \in S : ModelAt(Event(i).at) # Nil}
  IN  [count |-> Cardinality(S), calls |-> Calls(S), success |-> Calls(With(S, "success")), images |-> Images(S),
       outcomes |-> [o \in Outcomes |-> Calls(With(S, o))],
       kinds |-> [k \in Kinds |-> Calls(Kind(S, k))],
       apps |-> [a \in {Event(i).app : i \in S} |-> Calls({i \in S : Event(i).app = a})],
       cost |-> Costs(S), priced |-> Cardinality(priced), unpriced |-> Cardinality(S \ priced),
       series |-> [p \in {Period(Event(i).at, z) : i \in S} |->
                     Line({i \in S : Period(Event(i).at, z) = p})]]

\* list_call_logs: the newest first, and then without the excluded paths.
Newest(w) ==
  LET rows == SelectSeq(log, LAMBDA r : In(r.at, w))
  IN  SubSeq(rows, IF Len(rows) > Limit THEN Len(rows) - Limit + 1 ELSE 1, Len(rows))
Logged(w) == SelectSeq(Newest(w), LAMBDA r : ~r.call.excluded)
Good(r) == r.call.outcome = "success"

\* usage_summary and usage_timeseries, with the events or with the log.
Summary(w) ==
  LET a == Aggregate(w, [zone |-> 0, unit |-> "day"])
      rows == Logged(w)
      good == SelectSeq(rows, Good)
  IN  IF a.count > 0 THEN [source |-> "events", calls |-> a.calls, success |-> a.success, complete |-> TRUE]
      ELSE [source |-> "log", calls |-> Len(rows), success |-> Len(good), complete |-> Len(rows) < Limit]

Timeseries(w, z) ==
  LET a == Aggregate(w, z)
      rows == Logged(w)
      Of(p) == {i \in DOMAIN rows : Period(rows[i].at, z) = p}
  IN  IF a.count > 0 THEN [p \in DOMAIN a.series |-> [calls |-> a.series[p].calls, success |-> a.series[p].success]]
      ELSE [p \in {Period(rows[i].at, z) : i \in DOMAIN rows} |->
              [calls |-> Cardinality(Of(p)), success |-> Cardinality({i \in Of(p) : Good(rows[i])})]]

\* percentile of the latencies, by linear interpolation, in hundredths.
Ordered(rows) == SortSeq([i \in DOMAIN rows |-> rows[i].call.latency], LAMBDA x, y : x < y)
Percentile(values, q) ==
  LET position == q * (Len(values) - 1)
      lower == position \div 100
      weight == position % 100
  IN  IF weight = 0 THEN 100 * values[lower + 1]
      ELSE values[lower + 1] * (100 - weight) + values[lower + 2] * weight

\* quota_forecast of an application that has used so much of its daily quota: when it is
\* exhausted if it goes on like this, as a fraction of a time.
Forecast(quota, used, elapsed) ==
  LET remaining == IF used < quota THEN quota - used ELSE 0
  IN  [alert |-> IF remaining = 0 THEN "exhausted" ELSE IF 10 * used >= 8 * quota THEN "warning" ELSE "ok",
       after |-> IF remaining = 0 THEN <<0, 1>> ELSE IF used = 0 THEN Nil ELSE <<remaining * elapsed, used>>]

-----------------------------------------------------------------------------
(* Properties.                                                             *)
Total(f) == MapThenSumSet(LAMBDA x : f[x], DOMAIN f)

\* The parts of a report add up: periods, outcomes, deliveries and applications to the calls,
\* the costs of the periods to the costs, and every event was priced or not.
PartsAddUp ==
  \A w \in Windows, z \in Periods :
    LET a == Aggregate(w, z) IN
      /\ Total([p \in DOMAIN a.series |-> a.series[p].calls]) = a.calls
      /\ Total([p \in DOMAIN a.series |-> a.series[p].cost]) = a.cost
      /\ \A p \in DOMAIN a.series : a.series[p].calls = a.series[p].success + a.series[p].rejected + a.series[p].failed
      /\ Total(a.outcomes) = a.calls /\ Total(a.kinds) = a.calls /\ Total(a.apps) = a.calls
      /\ a.priced + a.unpriced = a.count

\* Over all time what was reversed counts as if it had never been, however often it was
\* reversed, and costs nothing unless another cost model began between it and its reversal.
ReversedIsNothing ==
  LET a == Aggregate([since |-> Nil, until |-> Nil], [zone |-> 0, unit |-> "day"])
      net == {i \in Usages : ~Reversed(i)}
      repriced == \E j \in Events : Event(j).of # 0 /\ ModelAt(Event(j).at) # ModelAt(Event(Event(j).of).at)
  IN  /\ a.calls = Cardinality(net)
      /\ a.success = Cardinality({i \in net : Event(i).outcome = "success"})
      /\ a.images = Images(net)
      /\ repriced \/ a.cost = Costs(net)

\* A call is metered once: a call that was answered has an event, or its event was refused
\* or not saved, or an audit that failed took it away.
MeteredOnce ==
  LET over == Cardinality({i \in DOMAIN log : ~log[i].call.excluded})
                - Cardinality({t \in Tasks : task[t].at = "logged" /\ ~Op(t).excluded})
  IN  /\ \A i, j \in Usages : Event(i).key = Event(j).key => i = j
      /\ ~undone => Cardinality(Usages) + unmetered = over

\* The summary and the series of a time say the same, in whatever time zone.  A summary of the
\* log that is said to be complete has every call of that time, unless excluded calls were
\* among the rows that were looked at.
SummariesAgree ==
  \A w \in Windows :
    LET s == Summary(w) IN
      /\ \A z \in Periods :
           LET p == Timeseries(w, z) IN
             /\ Total([x \in DOMAIN p |-> p[x].calls]) = s.calls
             /\ Total([x \in DOMAIN p |-> p[x].success]) = s.success
      /\ s.source = "log" /\ s.complete =>
           \/ s.calls = Len(SelectSeq(log, LAMBDA r : In(r.at, w) /\ ~r.call.excluded))
           \/ Len(Newest(w)) > s.calls

\* Half of the calls, 95 and 99 of a hundred were not slower than it says, in this order, and
\* no latency is outside of those there were.
LatenciesAreOrdered ==
  \A w \in Windows :
    LET v == Ordered(Logged(w)) IN
      v # <<>> => /\ 100 * v[1] <= Percentile(v, 50) /\ Percentile(v, 50) <= Percentile(v, 95)
                  /\ Percentile(v, 95) <= Percentile(v, 99) /\ Percentile(v, 99) <= 100 * v[Len(v)]
                  /\ 2 * Cardinality({i \in DOMAIN v : 100 * v[i] <= Percentile(v, 50)}) >= Len(v)

\* An application with a quota of five or more is warned before it is refused, and more use
\* never moves the end of its quota away.
Warned ==
  \A quota \in 1..6, elapsed \in 1..3 : \A used \in 0..quota :
    LET f == Forecast(quota, used, elapsed) IN
      /\ f.alert = "exhausted" <=> used = quota
      /\ quota >= 5 /\ used = quota - 1 => f.alert = "warning"
      /\ \A more \in used..quota : LET g == Forecast(quota, more, elapsed) IN
           f.after # Nil => g.after[1] * f.after[2] <= f.after[1] * g.after[2]

ReportsAreSound ==
  /\ PartsAddUp /\ ReversedIsNothing /\ MeteredOnce /\ SummariesAgree /\ LatenciesAreOrdered
  /\ log = <<>> => Warned

-----------------------------------------------------------------------------
(***************************************************************************)
(* The log of the calls that were answered: a bounded queue in the memory of *)
(* a process, and with postgres a table, which the lists and the summaries   *)
(* then read.  (What is counted for each application is in Access.)         *)
(* Calls are logged when they are answered, with the time they   *)
(* came at, so that the log is not in the order of its times.               *)
(***************************************************************************)

CONSTANTS
  CallScenes,    (* sequences of calls [tenant, app, good, at] in the order they *)
             (* are answered in                                             *)
  Kept,      (* _CALL_LOG_LIMIT                                             *)
  PageLengths,    (* page lengths that are asked for                             *)
  MaxLost (* bound on inserts that fail, and on restarts                 *)

VARIABLES
  calls,    (* the calls still to be answered                                *)
  queue,   (* _CALL_LOGS                                                    *)
  callTable,   (* portrait_call_logs, in the order of its ids                   *)
  answered, fresh, (* the calls that were answered, and those since the     *)
           (* process started                                               *)
  lost,    (* calls whose insert failed                                     *)
  postgres,
  logLeft     (* faults that may still come                                    *)

logVars == <<calls, queue, callTable, answered, fresh, lost, postgres, logLeft>>

LogInit ==
  /\ calls \in CallScenes /\ queue = <<>> /\ callTable = <<>> /\ answered = <<>> /\ fresh = <<>> /\ lost = <<>>
  /\ postgres \in BOOLEAN /\ logLeft = MaxLost

Latest(s, n) == SubSeq(s, IF Len(s) > n THEN Len(s) - n + 1 ELSE 1, Len(s))

\* record_call_log: an insert that fails is not told to anyone.
Answer ==
  /\ calls # <<>> /\ calls' = Tail(calls)
  /\ LET c == Head(calls)
     IN /\ answered' = Append(answered, c) /\ fresh' = Append(fresh, c) /\ queue' = Latest(Append(queue, c), Kept)
        /\ \/ ~postgres /\ UNCHANGED <<callTable, lost, logLeft>>
           \/ postgres /\ callTable' = Append(callTable, c) /\ UNCHANGED <<lost, logLeft>>
           \/ postgres /\ logLeft > 0 /\ logLeft' = logLeft - 1 /\ lost' = Append(lost, c) /\ UNCHANGED callTable
  /\ UNCHANGED postgres

Restart ==
  /\ logLeft > 0 /\ logLeft' = logLeft - 1 /\ queue' = <<>> /\ fresh' = <<>>
  /\ UNCHANGED <<calls, callTable, answered, lost, postgres>>

LogNext == Answer \/ Restart
LogSpec == LogInit /\ [][LogNext]_logVars

-----------------------------------------------------------------------------
(* What is read from it: the rows of a tenant, of an application and since   *)
(* a time, if these are asked for.                                         *)
Tenants == {c.tenant : c \in {calls[i] : i \in DOMAIN calls} \cup {answered[i] : i \in DOMAIN answered}}
Times   == {c.at : c \in {answered[i] : i \in DOMAIN answered}}
OfTenant(s, t, since) == SelectSeq(s, LAMBDA c : c.tenant = t /\ c.at >= since)
Backward(s) == [i \in 1..Len(s) |-> s[Len(s) - i + 1]]

\* _filter_call_logs, query_call_logs: the newest first, in memory by the end of the call
\* and in the table by its beginning.
Rows(t, since) ==
  IF ~postgres THEN Backward(OfTenant(queue, t, since))
  ELSE LET r == Backward(OfTenant(callTable, t, since))
           ord == SortSeq([i \in 1..Len(r) |-> i], LAMBDA i, j : r[i].at > r[j].at \/ (r[i].at = r[j].at /\ i < j))
       IN [i \in 1..Len(r) |-> r[ord[i]]]

List(t, since, limit) == SubSeq(Rows(t, since), 1, IF limit < Len(Rows(t, since)) THEN limit ELSE Len(Rows(t, since)))

\* summarize_call_logs
LogSummary(t, since) ==
  LET rows == Rows(t, since)
      good == Len(SelectSeq(rows, LAMBDA c : c.good))
  IN  [count |-> Len(rows), success |-> good, error |-> Len(rows) - good,
       times |-> {rows[i].at : i \in DOMAIN rows}, complete |-> postgres \/ Len(queue) < Kept]

\* application_usage_summaries
Usage(t, app) ==
  LET rows == SelectSeq(callTable, LAMBDA c : c.tenant = t /\ c.app = app /\ app # Nil)
  IN  [calls |-> Len(rows), errors |-> Len(SelectSeq(rows, LAMBDA c : ~c.good))]

-----------------------------------------------------------------------------
Count(s, c) == Cardinality({i \in DOMAIN s : s[i] = c})

\* A summary that says it is complete counts every call there was: with postgres those whose
\* insert did not fail, in memory those since the process started.
Complete ==
  \A t \in Tenants, since \in Times : LET s == LogSummary(t, since) IN s.complete =>
    /\ s.count = (IF postgres THEN Len(OfTenant(answered, t, since)) - Len(OfTenant(lost, t, since)) ELSE Len(OfTenant(fresh, t, since)))
    /\ s.error = Len(SelectSeq(OfTenant(IF postgres THEN answered ELSE fresh, t, since), LAMBDA c : ~c.good))
                   - (IF postgres THEN Len(SelectSeq(OfTenant(lost, t, since), LAMBDA c : ~c.good)) ELSE 0)

\* A list has the rows that the summary counts, up to its length, no row of another tenant
\* and no row twice; what is left out is older than what is listed.
Listed ==
  \A t \in Tenants, since \in Times, limit \in PageLengths :
    LET l == List(t, since, limit)
    IN /\ Len(l) = (IF LogSummary(t, since).count < limit THEN LogSummary(t, since).count ELSE limit)
       /\ \A i \in DOMAIN l : l[i].tenant = t /\ Count(l, l[i]) <= Count(answered, l[i])
       /\ postgres => \A i \in DOMAIN l, j \in DOMAIN callTable :
            callTable[j].tenant = t /\ callTable[j].at > l[i].at => Count(l, callTable[j]) = Count(callTable, callTable[j])

\* What applications used adds up to the calls of the tenant that had one.
Used ==
  \A t \in Tenants :
    LET apps == {callTable[i].app : i \in DOMAIN callTable} \ {Nil}
        named == SelectSeq(callTable, LAMBDA c : c.tenant = t /\ c.app # Nil)
    IN \A a \in apps : Usage(t, a).calls = Len(named) - Len(SelectSeq(named, LAMBDA c : c.app # a)) /\ Usage(t, a).errors <= Usage(t, a).calls

CallsAreLogged == Complete /\ Listed /\ Used
=============================================================================
