------------------------------- MODULE MCJobs -------------------------------
(***************************************************************************)
(* What is around the run of a video job, for TLC: the write requests that *)
(* the server takes once (WriteRequests), the upload of a video (Uploads),   *)
(* the file and the frames that are taken from it (VideoInput), the tracks   *)
(* that are made of them (Tracking), the                                    *)
(* announcement of its end to a webhook (Delivery), and a batch that runs in *)
(* the background of the API (BatchJob).  They share no variable: every      *)
(* behaviour is a behaviour of one of them, the part that is chosen at the   *)
(* beginning.                                                              *)
(***************************************************************************)
EXTENDS WriteRequests, Delivery, TLC

CONSTANTS d1, d2, na, nb, nc, res, ua, ub, uk, r1, r2, r3, ka, kb, h1, h2

VARIABLES part,
  upNow, upMem, upDisk, files, inputs, made, upQueue, upRunning, upTodo, upTask, used, shared, upLeft, \* of Uploads
  asScore, asRow, asColumn, asU, asV, asMatching, asBefore, asLeast, asReached, asLoop, \* of Tracking, the solver
  trPc, trFrame, trPersons, trTracks, trActive, trAlike, trGroups, trFilled, \* of Tracking, the tracks
  video, thread, vfQueue, stop, reader, vfClock, \* of VideoInput, the frames
  fcFrames, selected, stage, \* of VideoInput, the choice
  file, fiStep, filePart, target, answer, fiLeft, \* of VideoInput, the file
  baConfig, object, listed, baRow, baRun, work, done, baNext, stopping, turn, writes, baLoader, baApi, baTodo, baLeft, early, \* of BatchJob
  hits, samples, decisions \* of Tracking, the report

upVars == <<upNow, upMem, upDisk, files, inputs, made, upQueue, upRunning, upTodo, upTask, used, shared, upLeft>>
asVars == <<asScore, asRow, asColumn, asU, asV, asMatching, asBefore, asLeast, asReached, asLoop>>
trVars == <<trPc, trFrame, trPersons, trTracks, trActive, trAlike, trGroups, trFilled>>
vfVars == <<video, thread, vfQueue, stop, reader, vfClock>>
fcVars == <<fcFrames, selected, stage>>
fiVars == <<file, fiStep, filePart, target, answer, fiLeft>>
rpVars == <<hits, samples, decisions>>
mediaVars == <<vfVars, fcVars, fiVars, rpVars>>
baVars == <<baConfig, object, listed, baRow, baRun, work, done, baNext, stopping, turn, writes, baLoader, baApi, baTodo, baLeft, early>>

-----------------------------------------------------------------------------
(* WriteRequests: a request, its repetition, and one that repeats it too,  *)
(* misuses its key for something else, or has another key.                 *)

Call(k, h) == [key |-> k, hash |-> h]

ThreeCalls ==
  {[r \in {r1, r2, r3} |-> IF r = r3 THEN third ELSE Call(ka, h1)] :
     third \in {Call(ka, h1), Call(ka, h2), Call(kb, h1)}}

\* The first two send the same, so that either may be the one that comes first.
InOrder == pc'[r2] = "new" \/ pc'[r1] # "new"

\* Every kind of fault once.
FaultQuota == [k \in Kinds |-> 1]

-----------------------------------------------------------------------------
(* Delivery: the event of a job that comes twice beside retries by hand, in *)
(* one process and in two.                                                  *)
Event == << [op |-> "event", resource |-> res] >>
Again == << [op |-> "retry", resource |-> res] >>

Notices ==
  { [home |-> na :> d1 @@ nb :> d1 @@ nc :> d1, todo |-> na :> Event @@ nb :> (Event \o Again) @@ nc :> Again],
    [home |-> na :> d1 @@ nb :> d1 @@ nc :> d2, todo |-> na :> Event @@ nb :> Again @@ nc :> Event] }

-----------------------------------------------------------------------------
(* Uploads: two clients with one key, or with two uploads; parts that come  *)
(* twice, overlap or hold something else; completions at once, and an abort. *)
Opens(key) == << [op |-> "create", key |-> key] >>
Puts(n, from, len, good) == << [op |-> "put", part |-> [number |-> n, from |-> from, len |-> len, good |-> good]] >>
Asks(op)   == << [op |-> op] >>

Videos ==
  { ua :> (Opens(uk) \o Puts(1, 0, 1, TRUE) \o Puts(2, 1, 1, TRUE) \o Asks("complete"))
      @@ ub :> (Opens(uk) \o Asks("complete") \o Asks("abort")),
    ua :> (Opens(uk) \o Puts(1, 0, 2, TRUE) \o Asks("complete")) @@ ub :> (Opens(uk) \o Puts(2, 0, 1, FALSE)),
    ua :> (Opens(Nil) \o Puts(1, 1, 1, TRUE) \o Asks("complete") \o Puts(2, 0, 1, FALSE) \o Asks("complete"))
      @@ ub :> Opens(Nil) }

Uploaded == INSTANCE Uploads WITH
  Tasks <- {ua, ub}, Ids <- 1..2, Jobs <- 1..3, Size <- 2, Workloads <- Videos,
  TTL <- 1, MaxTime <- 1, MaxFaults <- 1, MaxCrashes <- 1,
  now <- upNow, mem <- upMem, disk <- upDisk, jobs <- made, queue <- upQueue, running <- upRunning,
  todo <- upTodo, task <- upTask, left <- upLeft

-----------------------------------------------------------------------------
(* The solver: more persons than tracks, more tracks than persons, and      *)
(* squares up to the order of the first row with a last score of 1.  The     *)
(* tracks: frames that are skipped, a sure and an unsure detection in each. *)
Scores == {0, 1, 3}
Square == {g \in [(1..3) \X (1..3) -> Scores] : g[<<3, 3>>] = 1}
Grids  == [(1..2) \X (1..3) -> Scores] \cup [(1..3) \X (1..2) -> Scores]
            \cup {g \in Square : g[<<1, 1>>] <= g[<<1, 2>>] /\ g[<<1, 2>>] <= g[<<1, 3>>]
                                /\ g[<<2, 1>>] <= g[<<3, 1>>] /\ g[<<2, 1>>] <= g[<<2, 2>>]}

\* The report of a track: sure and poor persons of three looks, one without an embedding,
\* and matches at the edges of what is a risk.
Agrees(a, b) == CASE a = b -> 20 [] a + 1 = b \/ b + 1 = a -> 15 [] OTHER -> 7
Matched(look, good, usable, geometry, appearance, minimum) ==
  [look |-> look, good |-> good, usable |-> usable, geometry |-> geometry, motion |-> 100,
   appearance |-> appearance, minimum |-> minimum]
Looked ==
  {Matched(l, g, TRUE, 60, 90, 28) : l \in 0..2, g \in BOOLEAN}
    \cup {Matched(1, TRUE, FALSE, 0, 100, 28), Matched(Nil, TRUE, TRUE, 4, Nil, 20), Matched(Nil, FALSE, TRUE, 14, Nil, 20),
          Matched(0, TRUE, TRUE, 30, 30, 28), Matched(2, TRUE, TRUE, 2, 45, 28), Matched(1, TRUE, TRUE, 0, 80, 28)}

Tracker == INSTANCE Tracking WITH
  MaxAge <- 1, MaxGap <- 1, Steps <- {1, 2}, MaxHigh <- 1, MaxLow <- 1, MaxFrame <- 5, MaxTracks <- 3,
  pc <- trPc, frame <- trFrame, persons <- trPersons, tracks <- trTracks, active <- trActive,
  alike <- trAlike, groups <- trGroups, filled <- trFilled,
  Tables <- Grids, Infinity <- 99,
  score <- asScore, row <- asRow, column <- asColumn, u <- asU, v <- asV, matching <- asMatching,
  predecessor <- asBefore, least <- asLeast, reached <- asReached, loop <- asLoop,
  Hits <- Looked, Agreement <- Agrees, MaxHits <- 4

-----------------------------------------------------------------------------
(* Frames: videos with times of their own, with none, with times that go     *)
(* back, and one that breaks off; samples of two scenes or more.            *)
Video(times, fps, breaks) == [times |-> times, fps |-> fps, breaks |-> breaks]
Decoded == {Video(<<0, 1, 2, 3, 4, 5, 6>>, 1, Nil), Video(<<0, 3, 1, 4, 4, 9>>, 1, Nil), Video(<<0, 0, 0, 0>>, 0, Nil),
            Video(<<0, 0, 0, 0, 0, 0>>, 1, Nil), Video(<<0, 1, 2, 3, 4, 5>>, 1, 3)}

Shot(at, relevance, cut, look) == [at |-> at, relevance |-> relevance, cut |-> cut, look |-> look]
Shots == LET at == <<0, 2, 3, 6, 9>> IN
  {[i \in 1..5 |-> Shot(at[i], r[i], i \in cuts, l[i])] : r \in [1..5 -> 1..2], cuts \in {{}, {3}, {2, 4}, {2, 3, 5}},
     l \in {<<0, 0, 0, 0, 0>>, <<0, 1, 0, 1, 0>>, <<0, 0, 1, 0, 2>>}} \cup {<<Shot(0, 1, FALSE, 0), Shot(4, 2, FALSE, 0)>>}

\* Files with one box or two, that are too large, empty, or not what their name says.
Box(size, known, large) == [size |-> size, known |-> known, large |-> large]
Boxes == {Box(8, FALSE, FALSE), Box(20, TRUE, FALSE), Box(4, TRUE, FALSE), Box(0, TRUE, FALSE),
          Box(0, FALSE, FALSE), Box(16, FALSE, TRUE), Box(40, FALSE, FALSE)}
File(suffix, lead, boxes, size) == [suffix |-> suffix, lead |-> lead, boxes |-> boxes, size |-> size]
Sent == {File("mp4", "boxes", <<b, c>>, n) : b \in Boxes, c \in Boxes, n \in {24, 48, 64}}
          \cup {File(s, l, <<>>, n) : s \in {"avi", "mkv", "exe", "none"}, l \in {"avi", "matroska"}, n \in {0, 10, 48, 49}}

Input == INSTANCE VideoInput WITH
  Files <- Sent, MaxBytes <- 48, Chunk <- 20, SniffBytes <- 40, PrefixBytes <- 16, MaxFaults <- 1,
  step <- fiStep, part <- filePart, left <- fiLeft,
  Videos <- Decoded, Interval <- 2, BatchSize <- 2, MaxPasses <- 2,
  queue <- vfQueue, job <- reader, clock <- vfClock,
  Samples <- Shots, Wanted <- 3, AlikeUpTo <- 0, frames <- fcFrames

-----------------------------------------------------------------------------
(* Batch: two items and two workers, beside a client that asks, or changes  *)
(* its mind.                                                               *)
Requested == {<<"poll">>, <<"cancel", "poll">>, <<"pause">>}

Batched == INSTANCE BatchJob WITH
  Items <- {1, 2}, Workers <- {"a", "b"}, Calls <- Requested, MaxTrouble <- 1,
  config <- baConfig, loader <- baLoader, row <- baRow, run <- baRun, next <- baNext, api <- baApi, todo <- baTodo, left <- baLeft

-----------------------------------------------------------------------------
JobsInit ==
  /\ part \in {"requests", "delivery", "uploads", "assignment", "tracking", "frames", "choice", "files", "batch", "report"}
  /\ Init /\ (part # "requests" => redis /\ sent = CHOOSE c \in Inputs : TRUE)
  /\ DeliveryInit
  /\ part # "delivery" => [home |-> home, todo |-> todo] = CHOOSE s \in Notices : TRUE
  /\ Uploaded!Init
  /\ part # "uploads" => upTodo = CHOOSE w \in Videos : TRUE
  /\ part # "assignment" => asScore = [p \in (1..2) \X (1..3) |-> 1]
  /\ Tracker!AssignInit
  /\ Tracker!TracksInit
  /\ Input!FramesInit /\ (part # "frames" => video = CHOOSE v \in Decoded : TRUE)
  /\ Input!ChoiceInit /\ (part # "choice" => fcFrames = <<Shot(0, 1, FALSE, 0), Shot(4, 2, FALSE, 0)>>)
  /\ Input!FilesInit /\ (part # "files" => file = CHOOSE f \in Sent : TRUE)
  /\ Batched!Init /\ Tracker!ReportInit
  /\ part # "batch" => baConfig = [shared |-> TRUE, rows |-> FALSE] /\ baTodo = CHOOSE c \in Requested : TRUE

Writes   == part = "requests" /\ Next /\ InOrder /\ UNCHANGED <<part, deliveryVars, upVars, asVars, trVars, mediaVars, baVars>>
Notifies == part = "delivery" /\ DeliveryNext /\ UNCHANGED <<part, vars, upVars, asVars, trVars, mediaVars, baVars>>
Receives == part = "uploads" /\ Uploaded!Next /\ UNCHANGED <<part, vars, deliveryVars, asVars, trVars, mediaVars, baVars>>
Assigns  == part = "assignment" /\ Tracker!AssignNext /\ UNCHANGED <<part, vars, deliveryVars, upVars, trVars, mediaVars, baVars>>
Follows  == part = "tracking" /\ Tracker!TracksNext /\ UNCHANGED <<part, vars, deliveryVars, upVars, asVars, mediaVars, baVars>>
Decodes ==
  /\ \/ part = "frames" /\ Input!FramesNext /\ UNCHANGED <<fcVars, fiVars, rpVars>>
     \/ part = "choice" /\ Input!ChoiceNext /\ UNCHANGED <<vfVars, fiVars, rpVars>>
     \/ part = "files" /\ Input!FilesNext /\ UNCHANGED <<vfVars, fcVars, rpVars>>
     \/ part = "report" /\ Tracker!ReportNext /\ UNCHANGED <<vfVars, fcVars, fiVars>>
  /\ UNCHANGED <<part, vars, deliveryVars, upVars, asVars, trVars, baVars>>
Compares == part = "batch" /\ Batched!Next /\ UNCHANGED <<part, vars, deliveryVars, upVars, asVars, trVars, mediaVars>>

JobsSpec ==
  /\ JobsInit
  /\ [][Writes \/ Notifies \/ Receives \/ Assigns \/ Follows \/ Decodes \/ Compares]_
       <<part, vars, deliveryVars, upVars, asVars, trVars, mediaVars, baVars>>
  /\ Fairness

-----------------------------------------------------------------------------
(* What is asked of the parts.                                             *)

\* The input of a waiting job is there, and each upload is the input of one job; a file is
\* in its place only whole, and what its name says.  A batch that says completed has the
\* result of every item, and its end is stored.
JobsAreSound ==
  CASE part = "uploads" -> Uploaded!UploadsAreSound [] part = "files" -> Input!FilesAreSound
    [] part = "batch" -> Batched!BatchesAreSound [] OTHER -> TRUE

\* Frames come in order and as far apart as was asked, whatever passes it takes, and the
\* best ones are kept; the persons of a frame are given to the tracks in the best way, and
\* a track is one person: it has one observation in a frame, and no gaps that are too long.
TracksAreSound ==
  CASE part = "assignment" -> Tracker!MatchesAreBest [] part = "tracking" -> Tracker!TracksAreSound
    [] part = "report" -> Tracker!ReportIsSound
    [] part = "frames" -> Input!FramesAreInOrder [] part = "choice" -> Input!FramesAreChosen [] OTHER -> TRUE
=============================================================================
