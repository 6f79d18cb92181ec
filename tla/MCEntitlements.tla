--------------------------- MODULE MCEntitlements ---------------------------
(***************************************************************************)
(* The commercial side of a project and its records, for TLC: its            *)
(* entitlements (Entitlements), what operators govern beside them           *)
(* (Governance), its licence (License), the audit log of what they do        *)
(* (Audit), the log of calls and what they use and cost (UsageReport), the   *)
(* archive of analyses and lists of what is kept (Records) and the cleanup   *)
(* of what is old (Retention).  They share no variable: every behaviour is a *)
(* behaviour of one of them, the part that is chosen at the beginning.       *)
(***************************************************************************)
EXTENDS Entitlements, TLC

CONSTANTS q1, q2, y1, y2, b1, b2, Never, Nil, e1, e2, tA, tB, p1, p2, i1, i2, j1, j2, k1, k2, use

VARIABLES part,
  state, saved, clock, todo, task, left, won, odd, \* of Governance
  closed, table, auTodo, auTask, auFile, auRows, auAcked, auRefused, auMet, auLeft, \* of Audit, the chain
  arFields, arRecord, \* of Audit, a record
  reNow, people, objects, jobs, stream, touch, own, later, met, days, clean, calls, enrol, shared, crossed, back, stray, reLeft, \* of Retention
  liRows, liOrder, walk, steady, inOrder, liLeft, \* of Records, the lists
  clTodo, queue, clTable, answered, fresh, lost, postgres, clLeft, \* of UsageReport, the log
  aaCalls, aaTask, aaObjects, aaTable, shown, aaLeft, \* of Records, the archive
  lcScene, lcNow, licence, key, former, cache, lcLock, projects, lcStreams, capacity, lcTask, lcTodo, lcLeft, backdated, restored, \* of License
  urNow, urTodo, urTask, urLog, ledger, unmetered, undone, urLeft \* of UsageReport

gvVars == <<state, saved, clock, todo, task, left, won, odd>>
auVars == <<closed, table, auTodo, auTask, auFile, auRows, auAcked, auRefused, auMet, auLeft>>
arVars == <<arFields, arRecord>>
reVars == <<reNow, people, objects, jobs, stream, touch, own, later, met, days, clean, calls, enrol, shared, crossed, back, stray, reLeft>>
liVars == <<liRows, liOrder, walk, steady, inOrder, liLeft>>
clVars == <<clTodo, queue, clTable, answered, fresh, lost, postgres, clLeft>>
aaVars == <<aaCalls, aaTask, aaObjects, aaTable, shown, aaLeft>>
lcVars == <<lcScene, lcNow, licence, key, former, cache, lcLock, projects, lcStreams, capacity, lcTask, lcTodo, lcLeft, backdated, restored>>
urVars == <<urNow, urTodo, urTask, urLog, ledger, unmetered, undone, urLeft>>
\* What is kept, looked at, licensed and metered.
keptVars == <<liVars, clVars, aaVars, lcVars, urVars>>

Term(delay, length, grace, temp) ==
  [delay |-> delay, length |-> length, grace |-> grace, temp |-> temp]

\* One that starts later and ends with a grace period, and a temporary
\* expansion with a grace period, which starts at once.
MixedTerms == {Term(1, 1, 1, FALSE), Term(0, 1, 1, TRUE)}

-----------------------------------------------------------------------------
(* Governance.                                                             *)
Apply(y) == << [op |-> "preview", template |-> y], [op |-> "apply", template |-> y] >>
Back(n)  == << [op |-> "back", nth |-> n] >>
Asks(k)  == << [op |-> "ask", kind |-> k] >>
Right(s, proven, done) == << [op |-> "rights", status |-> s, proven |-> proven, done |-> done, expect |-> Nil] >>
Control(yes, whole, until) == << [op |-> "control", approved |-> yes, complete |-> whole, until |-> until] >>
Opens(k, severity) == << [op |-> "open", kind |-> k, severity |-> severity] >>
Moves(k, severity, s, expect) == << [op |-> k, severity |-> severity, status |-> s, expect |-> expect] >>
Report == << [op |-> "report"] >>
Sla    == << [op |-> "define", version |-> 2] >>

\* Templates that are applied over each other and rolled back out of order; requests of
\* data subjects under a control that expires; updates that meet, some with a severity
\* that is refused; and reports beside a new definition.
Governed ==
  { q1 :> (Apply(y1) \o Apply(y2) \o Apply(y1) \o Back(1)) @@ q2 :> (Apply(y2) \o Back(2) \o Back(3)),
    q1 :> (Control(TRUE, TRUE, 1) \o Asks("export") \o Right("identity_pending", Nil, Nil) \o Asks("deletion")
             \o Right("identity_pending", Nil, Nil) \o Right("verified", TRUE, {b1})
             \o Right("in_progress", Nil, Nil) \o Right("completed", Nil, {b1, b2}))
      @@ q2 :> (Control(TRUE, FALSE, Never) \o Right("completed", TRUE, {b2}) \o Right("completed", FALSE, Nil)),
    q1 :> (Opens("case", "sev1") \o Moves("case", "bad", "closed", Nil) \o Moves("case", "sev1", "closed", 1)
             \o Moves("case", "sev1", "open", 1))
      @@ q2 :> (Opens("incident", "bad") \o Opens("incident", "sev1") \o Moves("incident", "bad", "closed", 1)
                  \o Moves("case", "sev1", "open", 1)),
    q1 :> (Report \o Sla \o Report) @@ q2 :> (Report \o Sla) }

Govern == INSTANCE Governance WITH
  Tasks <- {q1, q2}, Templates <- {y1, y2}, Backends <- {b1, b2}, Workloads <- Governed, MaxFaults <- 2,
  st <- state, disk <- saved, now <- clock

-----------------------------------------------------------------------------
(* The audit log: small and large records of two tenants, with and without  *)
(* the table, and with a log that may fail.                                 *)
Note(tenant, large) == [tenant |-> tenant, large |-> large]
Noted ==
  { [todo |-> e1 :> <<Note(tA, TRUE), Note(tB, FALSE), Note(tA, FALSE)>> @@ e2 :> <<Note(tA, FALSE), Note(tA, FALSE)>>,
     closed |-> strict, table |-> rows] : strict \in BOOLEAN, rows \in BOOLEAN }

\* Values of one and of two levels, with a sensitive field and a list that is too long.
Plain(n)     == [kind |-> "leaf", size |-> n]
Field(n, secret, v) == [name |-> n, secret |-> secret, value |-> v]
Dict(fs)     == [kind |-> "dict", entries |-> fs]
Listed(vs)   == [kind |-> "list", items |-> vs]
Leaves == {Plain(1), Plain(4)}
Nested == Leaves \cup {Dict(<<Field(1, secret, v)>>) : secret \in BOOLEAN, v \in Leaves}
            \cup {Dict(<<Field(1, TRUE, Plain(4)), Field(2, FALSE, v)>>) : v \in Leaves}
            \cup {Listed(<<v, v>>) : v \in Leaves} \cup {Listed(<<Plain(1), Plain(1), Plain(1)>>)}
Deeper == Nested \cup {Dict(<<Field(1, FALSE, v), Field(2, secret, Plain(4))>>) : v \in Nested, secret \in BOOLEAN}
            \cup {Listed(<<v, Plain(1)>>) : v \in Nested}
Happened ==
  {<<Field(1, FALSE, v)>> : v \in Deeper}
    \cup {<<Field(1, secret, v), Field(2, FALSE, w)>> : v \in Deeper, w \in Nested, secret \in BOOLEAN}
    \cup {<<Field(1, FALSE, v), Field(2, TRUE, Plain(4)), Field(3, FALSE, w), Field(4, FALSE, Plain(1))>> :
            v \in Nested, w \in Nested}

Log == INSTANCE Audit WITH
  Writers <- {e1, e2}, Scenes <- Noted, MaxFaults <- 2,
  todo <- auTodo, task <- auTask, file <- auFile, rows <- auRows, acked <- auAcked, refused <- auRefused,
  met <- auMet, left <- auLeft,
  Events <- Happened, MaxDepth <- 2, MaxKeys <- 3, MaxItems <- 2, MaxSize <- 9, Core <- <<4, 3, 2, 2>>, MaxNames <- 1,
  fields <- arFields, record <- arRecord

-----------------------------------------------------------------------------
(* The cleanup: of all that is there, beside the enrolment of two persons   *)
(* with the same image; of one person beside the enrolment of another one   *)
(* with its image; and beside what happens to the stream.                   *)
Person(at, images) == [at |-> at, images |-> images]
Enrols(p, i) == [person |-> p, image |-> i]
Old ==
  { [people |-> p1 :> Person(0, {i1}) @@ p2 :> Person(0, {i1}), jobs |-> j1 :> 0 @@ j2 :> 1, events |-> {0}, days |-> 0,
     touches |-> 0, calls |-> e1 :> Enrols(p1, i2) @@ e2 :> Enrols(p2, i2)],
    [people |-> p1 :> Person(0, {i1}) @@ p2 :> Nil, jobs |-> j1 :> 0 @@ j2 :> Nil, events |-> {0, 1}, days |-> 0,
     touches |-> 0, calls |-> e1 :> Enrols(p1, i2) @@ e2 :> Enrols(p2, i1)],
    [people |-> p1 :> Person(0, {i1}) @@ p2 :> Nil, jobs |-> j1 :> 0 @@ j2 :> Nil, events |-> {0}, days |-> 0,
     touches |-> 3, calls |-> e1 :> Nil @@ e2 :> Nil] }

Keeping == INSTANCE Retention WITH
  Persons <- {p1, p2}, Images <- {i1, i2}, Jobs <- {j1, j2}, Tasks <- {e1, e2}, Scenes <- Old, MaxTime <- 2, MaxFaults <- 1,
  now <- reNow, left <- reLeft

-----------------------------------------------------------------------------
(* Walks through lists of all kinds, with one row or two to a page.         *)
Walk(kind, limit, desc, since) == [kind |-> kind, limit |-> limit, desc |-> desc, since |-> since]
Walked == {Walk(k, l, FALSE, Nil) : k \in {"keyset", "table", "events"}, l \in 1..2} \cup {Walk("keyset", 0, FALSE, Nil)}
           \cup {Walk("offset", l, d, s) : l \in 0..2, d \in BOOLEAN, s \in {Nil, 2}}

-----------------------------------------------------------------------------
(* Calls of two tenants, answered in another order than they came in, and    *)
(* more than are kept.                                                     *)
Answered(t, app, good, at) == [tenant |-> t, app |-> app, good |-> good, at |-> at]
Called == { <<Answered(tA, q1, TRUE, 2), Answered(tB, Nil, TRUE, 1), Answered(tA, q1, FALSE, 1),
              Answered(tA, Nil, TRUE, 3), Answered(tB, q1, FALSE, 2)>> }

-----------------------------------------------------------------------------
(* Two attempts of one job from the beginning; one from the beginning and    *)
(* one behind a checkpoint; and a payload whose second frame has no image    *)
(* beside images without a payload.                                        *)
Analysis(id, source, frames, embedded, images) ==
  [id |-> id, source |-> source, frames |-> frames, embedded |-> embedded, images |-> images]
Analysed ==
  { e1 :> Analysis(j1, y1, <<i1, i2>>, {}, <<i1, i2>>) @@ e2 :> Analysis(j1, y1, <<i2, p1>>, {}, <<i2, p1>>),
    e1 :> Analysis(j1, y1, <<i1, i2>>, {}, <<i1, i2>>) @@ e2 :> Analysis(j1, y1, <<i1, i2>>, {}, <<i2>>),
    e1 :> Analysis(j1, Nil, <<i1, p2, i2>>, {1, 3}, <<>>) @@ e2 :> Analysis(j2, y1, <<>>, {}, <<i1, Nil>>) }

Record == INSTANCE Records WITH
  Writers <- {e1, e2}, Scenes <- Analysed, MaxFaults <- 2,
  calls <- aaCalls, task <- aaTask, objects <- aaObjects, table <- aaTable, left <- aaLeft,
  Ids <- 1..3, Ranks <- {1, 2}, Walks <- Walked, Changes <- 2, MaxListed <- 6,
  rows <- liRows, order <- liOrder, sorted <- inOrder, changesLeft <- liLeft

-----------------------------------------------------------------------------
(* The licence: that ends, is replaced, put back or has its key changed      *)
(* while projects are created; creations that meet at the limit; streams      *)
(* under a plan; changes of one credential; and a capability in use.          *)
Licensed(from, to, grace, k, names, most, run) ==
  [starts |-> from, expires |-> to, grace |-> grace, key |-> k, here |-> TRUE, names |-> names,
   projects |-> most, streams |-> run, caps |-> {use}]
First == Licensed(0, 1, 1, k1, {q1, p1, p2}, 2, 1)
Then  == Licensed(1, 3, 0, k2, {q1, p1}, 3, 2)
Does(op, id, v) == [op |-> op, id |-> id, value |-> v]
Scene(plan, a, b, moved, faulty, until) ==
  [doc |-> First, key |-> k1, plan |-> plan, projects |-> {q1}, running |-> {i1}, todo |-> e1 :> a @@ e2 :> b,
   moves |-> moved, faults |-> faulty, time |-> until]
Licences ==
  { Scene(Nil, <<Does("project", p1, 0), Does("use", use, 0)>>, <<Does("project", p2, 0)>>, 2, 0, 3),
    Scene(Nil, <<Does("project", p1, 0), Does("project", p2, 0)>>, <<Does("project", p1, 0)>>, 0, 1, 2),
    Scene([projects |-> 3, streams |-> 2], <<Does("stream", p1, 0), Does("start", p1, 0)>>,
          <<Does("stop", i1, 0), Does("start", i1, 0)>>, 1, 1, 2),
    Scene(Nil, <<Does("patch", q1, 2), Does("patch", q1, 1)>>, <<Does("patch", q1, 1), Does("patch", q1, 2)>>, 0, 1, 3),
    Scene(Nil, <<Does("use", use, 0)>>, <<Does("use", use, 0)>>, 3, 0, 3) }

Licence == INSTANCE License WITH
  Reqs <- {e1, e2}, Names <- {q1, p1, p2, i1}, Docs <- {First, Then}, Home <- q1, Scenes <- Licences,
  scene <- lcScene, now <- lcNow, old <- former, lock <- lcLock, streams <- lcStreams, cap <- capacity, task <- lcTask,
  todo <- lcTodo, left <- lcLeft

-----------------------------------------------------------------------------
(* Calls of one request id, as a retry and as another call; reversals that   *)
(* meet beside new cost models, one with an earlier date; and excluded calls *)
(* beside more than are looked at.                                         *)
Call(id, kind, outcome, app, images, excluded, latency) ==
  << [op |-> "call", id |-> id, kind |-> kind, outcome |-> outcome, app |-> app, images |-> images,
      excluded |-> excluded, latency |-> latency] >>
Reverses(n) == << [op |-> "reverse", nth |-> n] >>
CostModel(version, from) == << [op |-> "model", model |-> [version |-> version, from |-> from]] >>
Metering ==
  { e1 :> (Call(i1, "original", "success", q1, 1, FALSE, 3) \o Call(i1, "retry", "rejection", q1, 1, FALSE, 1))
      @@ e2 :> (Call(i1, "original", "failure", q2, 0, FALSE, 2) \o Reverses(1)),
    e1 :> (CostModel(2, 0) \o Call(i1, "original", "success", q1, 1, FALSE, 1) \o Reverses(1))
      @@ e2 :> (CostModel(1, 1) \o Reverses(1)),
    e1 :> (Call(i1, "original", "success", q1, 1, TRUE, 5) \o Call(i2, "original", "failure", q1, 0, FALSE, 4))
      @@ e2 :> (Call(p1, "original", "success", q2, 0, FALSE, 1) \o Call(p1, "duplicate", "success", q2, 0, FALSE, 1)) }
Window(since, until) == [since |-> since, until |-> until]
In(zone, unit) == [zone |-> zone, unit |-> unit]

Usage == INSTANCE UsageReport WITH
  Tasks <- {e1, e2}, Scenes <- Metering, MaxTime <- 2, DayLength <- 2, Limit <- 2, MaxFaults <- 1,
  Price <- [v \in 1..2 |-> [call |-> v, image |-> 2]],
  Windows <- {Window(Nil, Nil), Window(Nil, 0), Window(1, Nil), Window(1, 1)},
  Periods <- {In(0, "day"), In(1, "day"), In(1, "month")},
  now <- urNow, todo <- urTodo, task <- urTask, log <- urLog, left <- urLeft,
  CallScenes <- Called, Kept <- 3, PageLengths <- {1, 2}, MaxLost <- 2,
  calls <- clTodo, callTable <- clTable, logLeft <- clLeft

-----------------------------------------------------------------------------
CommercialInit ==
  /\ part \in {"entitlements", "governance", "log", "noting", "retention", "lists", "calls", "archives", "licence", "usage"}
  /\ Init
  /\ Govern!Init /\ (part # "governance" => todo = CHOOSE w \in Governed : TRUE)
  /\ Log!ChainInit /\ (part # "log" => [todo |-> auTodo, closed |-> closed, table |-> table] = CHOOSE s \in Noted : TRUE)
  /\ Log!RecordInit /\ (part # "noting" => arFields = CHOOSE e \in Happened : TRUE)
  /\ Keeping!Init /\ (part # "retention" =>
       [people |-> people, jobs |-> jobs, events |-> stream.events, days |-> days,
        touches |-> touch.left, calls |-> calls] = CHOOSE s \in Old : TRUE)
  /\ Record!ListInit /\ (part # "lists" => liRows = [i \in 1..3 |-> Nil] /\ walk.kind = "keyset" /\ walk.limit = 0)
  /\ Usage!LogInit /\ (part # "calls" => ~postgres)
  /\ Record!ArchiveInit /\ (part # "archives" => aaCalls = CHOOSE c \in Analysed : TRUE)
  /\ Licence!Init /\ (part # "licence" => lcScene = CHOOSE c \in Licences : TRUE)
  /\ Usage!Init /\ (part # "usage" => urTodo = CHOOSE c \in Metering : TRUE)

\* There are two entitlements at most beside a copy that may be put back.
Entitled ==
  /\ part = "entitlements" /\ Next /\ (held' = {} \/ Len(ents') < MaxEnts)
  /\ UNCHANGED <<part, gvVars, auVars, arVars, reVars, keptVars>>
Operators == part = "governance" /\ Govern!Next /\ UNCHANGED <<part, vars, auVars, arVars, reVars, keptVars>>
Logs      == part = "log" /\ Log!ChainNext /\ UNCHANGED <<part, vars, gvVars, arVars, reVars, keptVars>>
Notes     == part = "noting" /\ Log!RecordNext /\ UNCHANGED <<part, vars, gvVars, auVars, reVars, keptVars>>
Keeps     == part = "retention" /\ Keeping!Next /\ UNCHANGED <<part, vars, gvVars, auVars, arVars, keptVars>>

\* What is kept, looked at and licensed: the lists, the calls, the archives, the
\* licence and the usage.
Looks ==
  /\ \/ part = "lists" /\ Record!ListNext /\ UNCHANGED <<clVars, aaVars, lcVars, urVars>>
     \/ part = "calls" /\ Usage!LogNext /\ UNCHANGED <<liVars, aaVars, lcVars, urVars>>
     \/ part = "archives" /\ Record!ArchiveNext /\ UNCHANGED <<liVars, clVars, lcVars, urVars>>
     \/ part = "licence" /\ Licence!Next /\ UNCHANGED <<liVars, clVars, aaVars, urVars>>
     \/ part = "usage" /\ Usage!Next /\ UNCHANGED <<liVars, clVars, aaVars, lcVars>>
  /\ UNCHANGED <<part, vars, gvVars, auVars, arVars, reVars>>

CommercialSpec ==
  /\ CommercialInit
  /\ [][Entitled \/ Operators \/ Logs \/ Notes \/ Keeps \/ Looks]_<<part, vars, gvVars, auVars, arVars, reVars, keptVars>>

\* Templates come off in the order they went on, completed requests have their
\* evidence, and of two updates one is answered; what is created and used was licensed.
GovernanceIsSound ==
  CASE part = "governance" -> Govern!GovernanceIsSound [] part = "licence" -> Licence!LicenceIsSound [] OTHER -> TRUE

\* The audit log loses nothing that the verification would not tell, its chain holds as
\* long as writers do not meet, and its records are bounded and have no sensitive values;
\* summaries of calls count each call; what was used is metered once, what was reversed is
\* nothing, and reports of it add up.
AuditIsSound ==
  CASE part = "log" -> Log!AuditIsSound [] part = "noting" -> Log!RecordsAreSound
    [] part = "calls" -> Usage!CallsAreLogged [] part = "usage" -> Usage!ReportsAreSound [] OTHER -> TRUE

\* The cleanup removes what is old and nothing else, or nothing at all, and images are
\* kept as long as someone has them; archives are whole, and walks through lists exact.
RetentionIsSound ==
  CASE part = "retention" -> Keeping!RetentionIsSound [] part = "lists" -> Record!WalksAreExact
    [] part = "archives" -> Record!ArchivesAreWhole [] OTHER -> TRUE
=============================================================================
