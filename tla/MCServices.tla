----------------------------- MODULE MCServices ----------------------------
(***************************************************************************)
(* Services of one process and of its replicas, for TLC: a video job that  *)
(* runs in the process of the API (VideoJob), the access of a tenant       *)
(* (Access), the sessions of a browser (Sessions), the rate limit           *)
(* (RateLimit), a person of the gallery (Gallery), a search for it and      *)
(* whether two images show the same person (Matching), and what people say  *)
(* of the results (Feedback).  They share no variable: every behaviour is a *)
(* behaviour of one of them, the part that is chosen at the beginning.      *)
(***************************************************************************)
EXTENDS MCVideoJob, Access, Integers

CONSTANTS ta, tb, xa, xb, q1, q2, dp, qp, m1, m2, hk,
  g1, g2, pk, gr1, gr2, gr3, f0, f1, f2,
  fa, fb, s1, s2, s3, s4, va, vb, e1, e2, d1, d2, rp, rq,
  ba, bb, oa, ob, ra, rb

VARIABLES part,
  gaScene, base, wal, gaMem, walCount, gaLock, objs, vectors, index, gaReq, gaLeft, fresh, odd, \* the variables of Gallery
  fbState, fbDisk, fbTodo, fbTask, fbLeft, answered, fbOdd, \* of Feedback
  seConfig, seNow, house, jar, tab, seTodo, sso, proof, tickets, opened, danger, random, seLeft, \* of Sessions
  reviews, reviewed, reClock, limits, \* of Feedback, reviews
  coRequest, profile, coScores, verdict, \* of Matching, comparisons
  query, shIndex, scan, pool, seeds, merged, found, shStage, \* of Matching, searches
  raScene, raPolicy, bucket, cleaned, raClock, raTime, raTold, raAdmitted, asked, gift \* and of RateLimit

gaVars == <<gaScene, base, wal, gaMem, walCount, gaLock, objs, vectors, index, gaReq, gaLeft, fresh, odd>>
fbVars == <<fbState, fbDisk, fbTodo, fbTask, fbLeft, answered, fbOdd>>
seVars == <<seConfig, seNow, house, jar, tab, seTodo, sso, proof, tickets, opened, danger, random, seLeft>>
reVars == <<reviews, reviewed, reClock, limits>>
coVars == <<coRequest, profile, coScores, verdict>>
shVars == <<query, shIndex, scan, pool, seeds, merged, found, shStage>>
raVars == <<raScene, raPolicy, bucket, cleaned, raClock, raTime, raTold, raAdmitted, asked, gift>>

-----------------------------------------------------------------------------
(* Access.                                                                 *)

Try == [op |-> "use", x |-> xa, in |-> dp, status |-> Nil, bad |-> FALSE, project |-> Nil, quota |-> 0,
        app |-> Nil, url |-> Nil, phone |-> Nil, subject |-> Nil]
Rotate         == [Try EXCEPT !.op = "rotate"]
App(st, bad)   == [Try EXCEPT !.op = "app", !.status = st, !.bad = bad]
Limit          == [Try EXCEPT !.op = "app", !.quota = 1]
Move           == [Try EXCEPT !.op = "app", !.project = qp]
Member(op, x, ph, su) == [Try EXCEPT !.op = op, !.x = x, !.phone = ph, !.subject = su]
Bind(ph, su)   == Member("bind", Nil, ph, su)
Tenant(op, st) == [Try EXCEPT !.op = op, !.x = IF op = "newTenant" THEN xa ELSE Nil, !.project = dp, !.status = st]
Project(op, st) == [Try EXCEPT !.op = op, !.x = qp, !.status = st]
NewApp         == [Try EXCEPT !.op = "newApp", !.x = xb, !.project = qp, !.status = "active", !.in = qp]
NewHook        == [Try EXCEPT !.op = "newHook", !.x = hk, !.app = xa, !.status = "disabled"]
Hook(st, url, app, bad) == [Try EXCEPT !.op = "hook", !.x = hk, !.app = app, !.status = st, !.url = url, !.bad = bad]
TurnHook       == [Try EXCEPT !.op = "rotateHook", !.x = hk]

\* Keys that are rotated while their application is disabled, and half enabled; a
\* quota that is used and set; members that meet by phone and by subject; a tenant
\* from nothing, with a project that comes and goes; webhooks and moving applications.
Accesses ==
  { ta :> << Rotate, App("disabled", FALSE), App("active", TRUE) >> @@ tb :> << Rotate, Try, Rotate >>,
    ta :> << Try, Limit, Try >> @@ tb :> << Try, Try, App("disabled", FALSE) >>,
    ta :> << Member("newMember", m1, 1, Nil), Bind(1, 1), Member("member", m1, 2, Nil) >>
      @@ tb :> << Member("newMember", m2, 2, Nil), Bind(2, 1), Member("dropMember", m2, Nil, Nil) >>,
    ta :> << Member("newMember", m1, 1, 1), Bind(1, 2), Bind(1, 1) >>
      @@ tb :> << Member("newMember", m2, 2, Nil), Member("member", m2, 1, 1), Member("member", m2, Nil, 2) >>,
    ta :> << Tenant("newTenant", "active"), Project("newProject", "active"), NewHook, Hook("active", Nil, Nil, FALSE) >>
      @@ tb :> << Project("project", "disabled"), Tenant("tenant", "disabled") >>,
    ta :> << NewHook, Hook("active", TRUE, xb, FALSE), TurnHook, Hook("disabled", FALSE, Nil, TRUE) >>
      @@ tb :> << Project("newProject", "active"), NewApp, Move, TurnHook >> }

NoTenant == [tenant |-> "none", projects |-> [x \in {dp, qp} |-> "none"], apps |-> [x \in {xa, xb} |-> Nil],
             hooks |-> [x \in {hk} |-> Nil], members |-> [x \in {m1, m2} |-> Nil]]
OneApp   == [NoTenant EXCEPT !.tenant = "active", !.projects[dp] = "active",
               !.apps[xa] = [project |-> dp, status |-> "active", key |-> xa, prev |-> <<>>,
                             quota |-> 1, day |-> 0, used |-> 0]]

AccessDocuments == {NoTenant, OneApp}
AccessHomes     == {ta :> q1 @@ tb :> q1, ta :> q1 @@ tb :> q2}

-----------------------------------------------------------------------------
(* Gallery.                                                                *)

Ask(op, p, files) == [op |-> op, proc |-> p, person |-> pk, files |-> files]
Kept(store, backend, feats, calls, failing, crashes) ==
  [store |-> store, vectors |-> backend, calls |-> calls, left |-> [faults |-> failing, crashes |-> crashes],
   people |-> [k \in {pk} |-> IF feats = {} THEN Nil ELSE [name |-> Nil, feats |-> feats]]]

\* An enrolment beside a deletion; two enrolments and a search; an enrolment and a
\* deletion beside a reindexing of Qdrant, or a crash; and the tables, changed by two replicas.
Galleries ==
  { Kept("file", "local", {f0}, gr1 :> Ask("enroll", g1, <<f1, f2>>) @@ gr2 :> Ask("delete", g1, <<>>)
                                  @@ gr3 :> Ask("none", g1, <<>>), 1, 1),
    Kept("file", "local", {}, gr1 :> Ask("enroll", g1, <<f1>>) @@ gr2 :> Ask("enroll", g1, <<f2>>)
                                @@ gr3 :> Ask("search", g1, <<>>), 1, 0),
    Kept("file", "qdrant", {f0}, gr1 :> Ask("enroll", g1, <<f1>>) @@ gr2 :> Ask("delete", g1, <<>>)
                                   @@ gr3 :> Ask("reindex", g1, <<>>), 1, 0),
    Kept("file", "qdrant", {f0}, gr1 :> Ask("enroll", g1, <<f1>>) @@ gr2 :> Ask("delete", g1, <<>>)
                                   @@ gr3 :> Ask("none", g1, <<>>), 1, 1),
    Kept("rows", "pgvector", {f0}, gr1 :> Ask("enroll", g1, <<f1>>) @@ gr2 :> Ask("delete", g2, <<>>)
                                     @@ gr3 :> Ask("patch", g1, <<>>), 1, 0),
    Kept("rows", "qdrant", {}, gr1 :> Ask("enroll", g1, <<f1, f2>>) @@ gr2 :> Ask("enroll", g2, <<f0>>)
                                 @@ gr3 :> Ask("search", g1, <<>>), 2, 1) }

Persons == INSTANCE Gallery WITH
  Procs <- {g1, g2}, Persons <- {pk}, Reqs <- {gr1, gr2, gr3}, Scenes <- Galleries, CompactEvery <- 2,
  scene <- gaScene, mem <- gaMem, count <- walCount, lock <- gaLock, cache <- vectors, req <- gaReq, left <- gaLeft

-----------------------------------------------------------------------------
(* Feedback.                                                               *)
Sample(x)   == << [op |-> "create", sample |-> x] >>
Export(e, xs) == << [op |-> "export", id |-> e, samples |-> xs] >>
Import(e, labels, policy) == << [op |-> "import", export |-> e, labels |-> labels, policy |-> policy] >>
Dataset(d, name, splits) == << [op |-> "dataset", id |-> d, name |-> name, splits |-> splits] >>
Report(r, ds, from, to) == << [op |-> "report", id |-> r, datasets |-> ds, baseline |-> from, candidate |-> to] >>
Annotate(n) == << [op |-> "annotate", id |-> n] >>
Correct(n, action, tracks) == << [op |-> "correct", id |-> n, action |-> action, tracks |-> 1..tracks] >>
Yes == "positive"
No  == "negative"

\* A sample that two people label, and what datasets and a report make of it; imports
\* that conflict; and annotations that push out older ones.
Feedbacks ==
  { fa :> (Sample(s1) \o Export(e1, {s1}) \o Import(e1, s1 :> Yes, "reject") \o Dataset(d1, 1, [train |-> {s1}])
             \o Report(rp, <<d1, d2>>, va, vb) \o Dataset(d1, 1, [test |-> {s1}]))
      @@ fb :> (Sample(s1) \o Export(e2, {s1}) \o Import(e2, s1 :> No, "overwrite") \o Dataset(d2, 2, [test |-> {s1}])),
    fa :> (Sample(s1) \o Sample(s2) \o Sample(s4) \o Export(e1, {s1, s2, s4})
             \o Import(e1, s1 :> Yes @@ s2 :> No @@ s4 :> Yes, "keep_existing")
             \o Dataset(d1, 1, [train |-> {s1}, test |-> {s2, s4}]) \o Report(rp, <<d1>>, vb, va))
      @@ fb :> (Sample(s3) \o Export(e2, {s3, s1}) \o Import(e2, s3 :> No @@ s1 :> No, "keep_existing")
                  \o Dataset(d2, 2, [train |-> {s3}, test |-> {s1, s3}]) \o Dataset(d2, 2, [test |-> {s3}])
                  \o Report(rq, <<d2, d1>>, va, vb)),
    fa :> (Annotate(1) \o Annotate(2) \o Correct(1, "merge", 1))
      @@ fb :> (Annotate(3) \o Annotate(4) \o Correct(2, "split", 1)) }

Said(t, track, label, seen) == [tenant |-> t, track |-> track, label |-> label, proof |-> seen]
Reviews ==
  {Said(1, 1, label, TRUE) : label \in {"confirmed", "mismatch"}}
    \cup {Said(1, 2, "mismatch", FALSE), Said(2, 1, "low_quality", TRUE)}
Thresholds == [body |-> 985, fusion |-> 985]

\* Thresholds, scores and the smallest count of a report, in percent.
Opinions == INSTANCE Feedback WITH
  Tasks <- {fa, fb}, Samples <- {s1, s2, s3, s4}, Workloads <- Feedbacks,
  Facts <- s1 :> [confidence |-> 90, model |-> va, sha |-> 1] @@ s2 :> [confidence |-> 20, model |-> vb, sha |-> 2]
             @@ s3 :> [confidence |-> 40, model |-> vb, sha |-> 3] @@ s4 :> [confidence |-> Nil, model |-> va, sha |-> Nil],
  MinCount <- 1, MinScore <- 50, MaxDrop <- 10, Threshold <- 50, Candidates <- {10, 30, 95}, MaxKept <- 2, MaxFaults <- 2,
  st <- fbState, disk <- fbDisk, todo <- fbTodo, task <- fbTask, left <- fbLeft, odd <- fbOdd,
  Written <- Reviews, Tenants <- {1, 2}, Limits <- {1, 2}, MaxReviews <- 4, MaxWritten <- 5, MaxTime <- 2,
  Start <- Thresholds, store <- reviews, count <- reviewed, clock <- reClock

-----------------------------------------------------------------------------
(* Sessions.                                                               *)
SignIn(step) == << [op |-> "login", step |-> step] >>
Act(op) == << [op |-> op] >>
Socket(op, on) == << [op |-> op, on |-> on] >>
Provider(redis, tells, ahead, verified) ==
  [redis |-> redis, tells |-> tells, ahead |-> ahead, verified |-> verified]
Nobody == [tenant |-> "none", member |-> Nil]
Person(subject) == [tenant |-> "active", member |->
                      [subject |-> subject, phone |-> TRUE, status |-> "active", roles |-> {"writer", "reader"}]]
InTabs(first, second) == ba :> first @@ bb :> second
Browser(provider, h, w) == [config |-> provider, house |-> h, todo |-> w]

\* A sign-in and a step-up beside a logout, with a clock that is ahead, without a time of
\* authentication; two sign-ins that meet; a local session beside an enterprise sign-in;
\* and tickets, in the memory of a process or in Redis.
Browsers ==
  { Browser(Provider(FALSE, TRUE, 0, TRUE), Person(Nil),
            InTabs(SignIn(FALSE) \o SignIn(TRUE) \o Act("danger"), Act("danger") \o Act("logout"))),
    Browser(Provider(FALSE, TRUE, 1, TRUE), Person("me"),
            InTabs(SignIn(FALSE) \o SignIn(TRUE) \o Act("danger"), Act("danger"))),
    Browser(Provider(FALSE, FALSE, 0, FALSE), Nobody,
            InTabs(SignIn(FALSE) \o Act("danger"), SignIn(TRUE) \o Act("danger"))),
    Browser(Provider(FALSE, TRUE, 2, FALSE), Person("me"),
            InTabs(SignIn(FALSE) \o Act("danger"), SignIn(FALSE))),
    Browser(Provider(FALSE, TRUE, 0, TRUE), Person("me"),
            InTabs(Act("local") \o SignIn(FALSE) \o Act("logout"), Act("localStep") \o Act("danger"))),
    Browser(Provider(FALSE, TRUE, 0, TRUE), Nobody,
            InTabs(Act("local") \o Socket("ticket", "job") \o Socket("connect", "job") \o Socket("connect", "job"),
                 Socket("ticket", "stream") \o Socket("connect", "job"))),
    Browser(Provider(TRUE, TRUE, 0, TRUE), Nobody,
            InTabs(Act("local") \o Socket("ticket", "job") \o Socket("connect", "job") \o Socket("connect", "job"),
                 Socket("ticket", "stream") \o Socket("connect", "stream"))) }

SignedIn == INSTANCE Sessions WITH
  Tabs <- {ba, bb}, Procs <- {oa, ob}, Scenes <- Browsers,
  FlowAge <- 2, SessionAge <- 2, TokenAge <- 2, StepUpAge <- 1, TicketAge <- 1, MaxTickets <- 1,
  Skew <- 1, MaxTime <- 2, MaxFaults <- 1, MaxChanges <- 1,
  config <- seConfig, now <- seNow, todo <- seTodo, fresh <- random, left <- seLeft

-----------------------------------------------------------------------------
(* Comparisons: pairs of one modality, two modalities that agree or not,     *)
(* and all of them; images that are copies, alike or different.             *)
Pairs(m, sims, as, bs) == [m -> [sim : sims, a : as, b : bs]]
Compared(pairs, fused, distances) == [pairs : pairs, fused : {fused}, distance : distances]
Comparisons ==
  LET qs == {Nil, 100, 200, 300, 400, 600, 1000} IN
    Compared(Pairs({"body"}, {-200, 0, 640, 690, 720, 760, 1000}, qs, qs), FALSE, {Nil, 0, 3, 5})
      \cup Compared(Pairs({"gait"}, {690, 760, 1000}, qs, qs), FALSE, {0})
      \cup Compared(Pairs({"face", "body"}, {0, 700, 1000}, {Nil, 400}, {Nil, 1000}), TRUE, {Nil, 0, 4})
      \cup Compared(Pairs({"face", "body", "appearance", "gait"}, {400, 1000}, {400}, {0, 1000}), TRUE, {5})
Profiles ==
  [normal |-> [face |-> 620, body |-> 680, gait |-> 700, appearance |-> 580, fusion |-> 720],
   strict |-> [face |-> 700, body |-> 740, gait |-> 760, appearance |-> 640, fusion |-> 800]]

\* Searches: three images of two or three persons, and one of another tenant.
Image(ours, person, quality, sim, again) ==
  [own |-> ours, person |-> person, quality |-> quality, sim |-> sim, again |-> again]
Searches ==
  LET alike == {640, 690, 740} \X {690, 760}
      images == {<<Image(TRUE, 1, 600, a[1], a[2]), Image(TRUE, p, 200, b[1], b[2]), Image(TRUE, 2, 500, c[1], c[2]),
                   Image(FALSE, 4, 900, 999, 999)>> : a \in alike, b \in alike, c \in alike, p \in {1, 3}}
  IN  [feature : images, quality : {Nil, 100, 300}, top : {1}, remote : BOOLEAN]
        \cup [feature : images, quality : {500}, top : {2}, remote : {FALSE}]

Finder == INSTANCE Matching WITH
  Requests <- Comparisons, Thresholds <- Profiles, request <- coRequest, scores <- coScores,
  Queries <- Searches, Threshold <- 680, Extra <- 1, ExtraAgain <- 2, Seeds <- 2,
  index <- shIndex, answer <- found, stage <- shStage

\* A table for one caller and a clock set back; an application whose policy is changed, and a
\* policy without a burst; buckets that never go, and a clock set forward; policies alone.
Unsaid == [rate |-> 0, burst |-> 0]
Pace(r, b, ttl, n, first, second, jumps) ==
  [settings |-> [rate |-> r, burst |-> b, ttl |-> ttl, buckets |-> n],
   policies |-> (ra :> first @@ rb :> second), jumps |-> jumps]
Paces ==
  { Pace(2, 1, 3, 1, {Unsaid}, {Unsaid}, {-2}),
    Pace(2, 1, 3, 2, {Unsaid, [rate |-> 1, burst |-> 2]}, {[rate |-> 3, burst |-> 0]}, {}),
    Pace(2, 0, 0, 1, {Unsaid}, {[rate |-> 0, burst |-> 1]}, {2}),
    Pace(0, 1, 3, 0, {Unsaid, [rate |-> 1, burst |-> 1]}, {Unsaid}, {}) }

Limited == INSTANCE RateLimit WITH
  Keys <- {ra, rb}, Scenes <- Paces, Minute <- 4, MaxTime <- 4, MaxAsks <- 3,
  scene <- raScene, policy <- raPolicy, clock <- raClock, time <- raTime, told <- raTold, admitted <- raAdmitted

-----------------------------------------------------------------------------
ServicesInit ==
  /\ part \in {"video", "access", "gallery", "feedback", "sessions", "reviews", "compare", "search", "limit"}
  /\ Init
  /\ AccessInit
  /\ part # "access" => mode = "file" /\ row.st = NoTenant /\ todo = CHOOSE w \in Accesses : TRUE
  /\ Persons!Init
  /\ part # "gallery" => gaScene = CHOOSE g \in Galleries : TRUE
  /\ Opinions!Init
  /\ part # "feedback" => fbTodo = CHOOSE w \in Feedbacks : TRUE
  /\ SignedIn!Init
  /\ part # "sessions" => [config |-> seConfig, house |-> house, todo |-> seTodo] = CHOOSE b \in Browsers : TRUE
  /\ Opinions!ReviewInit
  /\ part # "compare" => coRequest = (CHOOSE c \in Comparisons : TRUE) /\ profile = "normal"
  /\ Finder!CompareInit
  /\ part # "search" => query = CHOOSE q \in Searches : TRUE
  /\ Finder!SearchInit
  /\ part # "limit" => raScene = (CHOOSE s \in Paces : s.settings.buckets = 0) /\ raPolicy = (ra :> Unsaid @@ rb :> Unsaid)
  /\ Limited!Init

RunsJob  == part = "video" /\ Next /\ UNCHANGED <<part, accessVars, gaVars, fbVars, seVars, reVars, coVars, shVars, raVars>>
Accessed == part = "access" /\ AccessNext /\ UNCHANGED <<part, vars, gaVars, fbVars, seVars, reVars, coVars, shVars, raVars>>
Enrolled == part = "gallery" /\ Persons!Next /\ UNCHANGED <<part, vars, accessVars, fbVars, seVars, reVars, coVars, shVars, raVars>>
Opined   == part = "feedback" /\ Opinions!Next /\ UNCHANGED <<part, vars, accessVars, gaVars, seVars, reVars, coVars, shVars, raVars>>
Browses  == part = "sessions" /\ SignedIn!Next /\ UNCHANGED <<part, vars, accessVars, gaVars, fbVars, reVars, coVars, shVars, raVars>>
Reports  == part = "reviews" /\ Opinions!ReviewNext /\ UNCHANGED <<part, vars, accessVars, gaVars, fbVars, seVars, coVars, shVars, raVars>>
Compares == part = "compare" /\ Finder!CompareNext /\ UNCHANGED <<part, vars, accessVars, gaVars, fbVars, seVars, reVars, shVars, raVars>>
Searched == part = "search" /\ Finder!SearchNext /\ UNCHANGED <<part, vars, accessVars, gaVars, fbVars, seVars, reVars, coVars, raVars>>
Limits   == part = "limit" /\ Limited!Next /\ UNCHANGED <<part, vars, accessVars, gaVars, fbVars, seVars, reVars, coVars, shVars>>

ServicesSpec ==
  /\ ServicesInit
  /\ [][RunsJob \/ Accessed \/ Enrolled \/ Opined \/ Browses \/ Reports \/ Compares \/ Searched \/ Limits]_
       <<part, vars, accessVars, gaVars, fbVars, seVars, reVars, coVars, shVars, raVars>>

-----------------------------------------------------------------------------
(* What is asked of the parts.                                             *)

\* A restart finds the gallery that is in memory, every feature has its image, and
\* searches use the features there are; their answers are ranked and say what they are
\* worth, and no image matches better for being worse.
GalleryIsSound ==
  CASE part = "gallery" -> Persons!GalleryIsSound [] part = "search" -> Finder!SearchIsSound
    [] part = "compare" -> Finder!VerdictsAreSound [] OTHER -> TRUE

\* Labels come from imports, reports can be made again from their datasets, and what was
\* answered is kept; what is listed, counted and pooled is what reviewers wrote, and
\* thresholds are raised on evidence.  A browser has one session whatever its tabs do, with
\* the rights that its member has now, tickets open one connection, and danger asks for a
\* recent proof of identity; callers are admitted as often as their limit says, and find a
\* token when they were told to come back.
ServicesAreSound ==
  CASE part = "feedback" -> Opinions!FeedbackIsSound [] part = "reviews" -> Opinions!ReviewsAreSound
    [] part = "sessions" -> SignedIn!SessionsAreSound [] part = "limit" -> Limited!RatesHold [] OTHER -> TRUE
=============================================================================
