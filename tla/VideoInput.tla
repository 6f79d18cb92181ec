----------------------------- MODULE VideoInput -----------------------------
(***************************************************************************)
(* The way of a video into a job: the file that is uploaded, the frames    *)
(* that are decoded from it, and those that a short analysis keeps.  The   *)
(* three parts share no variable; each has an Init and a Next of its own.  *)
(***************************************************************************)
EXTENDS Integers, Sequences, FiniteSets, SequencesExt

-----------------------------------------------------------------------------
(***************************************************************************)
(* A video that is uploaded in one request: it is copied beside its place,   *)
(* looked at, and moved there (stage_video_upload).  What it is is told from *)
(* its beginning: the boxes of an ISO file are walked until one says so      *)
(* (sniff_video_container).                                                 *)
(***************************************************************************)

CONSTANTS
  Files,     (* [suffix, lead: "avi", "matroska" or "boxes", boxes, size:    *)
             (* in bytes]; a box is [size, known, large]: what its header    *)
             (* says, whether its type says what the file is, and whether    *)
             (* the size is in the longer field                              *)
  MaxBytes,  (* MAX_VIDEO_BYTES                                             *)
  Chunk,     (* bytes copied at once                                        *)
  SniffBytes, PrefixBytes, (* what is looked at: of a staged file, and of    *)
             (* one that is read into memory                                *)
  MaxFaults, (* bound on failing writes and crashes                         *)
  Nil        (* no value                                                    *)

VARIABLES
  file,   (* what is uploaded                                               *)
  step,   (* what the request is doing                                      *)
  part,   (* the bytes of the temporary file, or Nil                        *)
  target, (* the bytes of the file in its place, or Nil                     *)
  answer, (* "ok", "refused", "failed", or Nil                              *)
  left    (* faults that may still come                                     *)

filesVars == <<file, step, part, target, answer, left>>

FilesInit == file \in Files /\ step = "suffix" /\ part = Nil /\ target = Nil /\ answer = Nil /\ left = MaxFaults

-----------------------------------------------------------------------------
(* The first n bytes of a file.                                            *)

\* Where a box begins.
Offset(f, k) == LET o[j \in 1..k] == IF j = 1 THEN 0 ELSE o[j - 1] + f.boxes[j - 1].size IN o[k]
Header(b) == IF b.large THEN 16 ELSE 8

\* A box is reached when all before it are whole, within the n bytes, and say nothing.
Reached(f, k, n) ==
  /\ Offset(f, k) + Header(f.boxes[k]) <= n
  /\ \A j \in 1..(k - 1) : ~f.boxes[j].known /\ f.boxes[j].size >= Header(f.boxes[j]) /\ Offset(f, j + 1) <= n
\* A size of 0 means to the end of the file.
Tells(b) == b.known /\ (b.size = 0 \/ b.size >= Header(b))

Sniff(f, n) ==
  LET have == IF f.size < n THEN f.size ELSE n
  IN  IF f.lead # "boxes" THEN IF have >= (IF f.lead = "avi" THEN 12 ELSE 4) THEN f.lead ELSE Nil
      ELSE IF \E k \in DOMAIN f.boxes : Reached(f, k, have) /\ Tells(f.boxes[k]) THEN "iso_bmff" ELSE Nil

\* VIDEO_EXTENSION_CONTAINERS
Containers == [avi |-> {"avi"}, mp4 |-> {"iso_bmff"}, mov |-> {"iso_bmff"}, mkv |-> {"matroska"}, none |-> {"avi", "iso_bmff", "matroska"}]
Valid(f, n) == Sniff(f, n) # Nil /\ Sniff(f, n) \in Containers[f.suffix]

-----------------------------------------------------------------------------
Fault == left > 0 /\ left' = left - 1
NoFault == UNCHANGED left
Ends(a) == step' = "clean" /\ answer' = a

Suffix ==
  /\ step = "suffix" /\ NoFault /\ UNCHANGED <<file, part, target>>
  /\ IF file.suffix \in DOMAIN Containers THEN step' = "copy" /\ UNCHANGED answer ELSE step' = "end" /\ answer' = "refused"

\* _copy_video_upload
Copy ==
  /\ step = "copy" /\ UNCHANGED <<file, target>>
  /\ LET had  == IF part = Nil THEN 0 ELSE part
         more == IF file.size - had < Chunk THEN file.size - had ELSE Chunk
     IN \/ /\ NoFault /\ more > 0
           /\ IF had + more > MaxBytes THEN part' = had /\ Ends("refused")
              ELSE part' = had + more /\ UNCHANGED <<step, answer>>
        \/ /\ NoFault /\ more = 0 /\ part' = had
           /\ IF had = 0 THEN Ends("refused") ELSE step' = "look" /\ UNCHANGED answer
        \/ Fault /\ part' = had /\ Ends("failed")

Look ==
  /\ step = "look" /\ NoFault /\ UNCHANGED <<file, part, target>>
  /\ IF Valid(file, SniffBytes) THEN step' = "move" /\ UNCHANGED answer ELSE Ends("refused")

Move ==
  /\ step = "move" /\ UNCHANGED file
  /\ \/ NoFault /\ target' = part /\ part' = Nil /\ Ends("ok")
     \/ Fault /\ Ends("failed") /\ UNCHANGED <<part, target>>

\* The temporary file goes whatever happened, if it can be removed.
Clean ==
  /\ step = "clean" /\ step' = "end" /\ UNCHANGED <<file, target, answer>>
  /\ \/ NoFault /\ part' = Nil
     \/ part # Nil /\ Fault /\ UNCHANGED part

Crash == step # "end" /\ step # "suffix" /\ Fault /\ step' = "end" /\ UNCHANGED <<file, part, target, answer>>

FilesNext == Suffix \/ Copy \/ Look \/ Move \/ Clean \/ Crash
FilesSpec == FilesInit /\ [][FilesNext]_filesVars

-----------------------------------------------------------------------------
\* What is in its place is the whole file, not empty and not too large, and is what its
\* name says; who was answered "ok" finds it there, and who was refused does not.
PlacedIsWhole ==
  /\ target # Nil => target = file.size /\ file.size \in 1..MaxBytes /\ Valid(file, file.size)
  /\ answer = "ok" => target # Nil
  /\ answer \in {"refused", "failed"} => target = Nil

\* Nothing is left beside it, unless a removal failed or the process ended.
NothingLeft == step = "end" /\ left = MaxFaults => part = Nil

\* What a short look tells a longer one tells too, so that a file that may be analysed at
\* once may also be staged; a short look may refuse what a longer one takes.
LooksAgree ==
  \A n \in {PrefixBytes, SniffBytes} : Sniff(file, n) # Nil => Sniff(file, file.size) = Sniff(file, n)

FilesAreSound == PlacedIsWhole /\ NothingLeft /\ LooksAgree

-----------------------------------------------------------------------------
(***************************************************************************)
(* The frames of a video on their way to a job: a thread decodes it from a   *)
(* place on, samples it by its times and puts full batches into a queue of  *)
(* one (iter_video_frame_batches, aiter_video_frame_batches); the job takes  *)
(* them, keeps the place after the last frame it took, and may stop, and    *)
(* begin again at that place.                                              *)
(***************************************************************************)

CONSTANTS
  Videos,    (* [times: per frame the time the decoder reports, 0 if none,  *)
             (* fps: time units per frame, or 0, breaks: the frame that     *)
             (* cannot be decoded, or Nil, for an exception]                *)
  Interval, BatchSize,
  MaxPasses (* bound on the times the job begins                           *)

VARIABLES
  video,
  thread, (* the decoder: [pc, at, prev, last, batch, fell]                 *)
  queue,  (* batches, an "error" or the "end", at most one                  *)
  stop,   (* stop_event                                                     *)
  job,    (* [pc, next: next_source_frame_index, taken: batches of frames,   *)
          (* starts: how many frames were taken when a pass began]          *)
  clock   (* the time since the decoder began, for videos without times     *)

framesVars == <<video, thread, queue, stop, job, clock>>

N == Len(video.times)
Place(i, seconds) == [index |-> i, seconds |-> seconds]
NoThread == [pc |-> "none", at |-> 0, prev |-> 0, last |-> Nil, batch |-> <<>>]

FramesInit ==
  /\ video \in Videos /\ thread = NoThread /\ queue = <<>> /\ stop = FALSE /\ clock = 0
  /\ job = [pc |-> "idle", next |-> 0, taken |-> <<>>, starts |-> <<>>]

\* Frames are counted from 0.
Reported(i) == video.times[i + 1]

\* video_frame_timestamp_seconds: times never go back.
Seconds(i, prev) ==
  LET most(a, b) == IF a > b THEN a ELSE b
  IN  IF Reported(i) >= prev /\ (Reported(i) > 0 \/ i = 0) THEN Reported(i)
      ELSE IF video.fps > 0 THEN most(prev, i * video.fps) ELSE most(prev, clock)

-----------------------------------------------------------------------------
(* The decoder.                                                            *)
SameJob == UNCHANGED <<video, job, clock>>

\* A frame is sampled when the interval since the last sample is over.
Decode ==
  /\ thread.pc = "decode" /\ ~stop /\ thread.at < N /\ thread.at # video.breaks /\ SameJob /\ UNCHANGED <<queue, stop>>
  /\ LET s == Seconds(thread.at, thread.prev)
         sampled == thread.last = Nil \/ s - thread.last >= Interval
         batch == IF sampled THEN Append(thread.batch, Place(thread.at, s)) ELSE thread.batch
     IN thread' = [pc |-> IF Len(batch) >= BatchSize THEN "put" ELSE "decode", at |-> thread.at + 1, prev |-> s,
                   last |-> IF sampled THEN s ELSE thread.last, batch |-> batch]

\* The end of the video: a batch that is not full is put too.
Finish ==
  /\ thread.pc = "decode" /\ (stop \/ thread.at = N) /\ thread.at # video.breaks
  /\ thread' = [thread EXCEPT !.pc = IF thread.batch # <<>> THEN "put last" ELSE "end"]
  /\ SameJob /\ UNCHANGED <<queue, stop>>

Breaks ==
  /\ thread.pc = "decode" /\ ~stop /\ thread.at = video.breaks
  /\ thread' = [thread EXCEPT !.pc = "error"] /\ SameJob /\ UNCHANGED <<queue, stop>>

Batch(places) == [kind |-> "batch", places |-> places]
Failure == [kind |-> "error", places |-> <<>>]
TheEnd  == [kind |-> "end", places |-> <<>>]

\* put: it waits for room, and gives up when it is told to stop.
Given(item, pc) ==
  /\ thread' = [thread EXCEPT !.pc = IF stop THEN "end" ELSE pc, !.batch = <<>>]
  /\ queue' = IF stop THEN queue ELSE <<item>>

PutBatch ==
  /\ thread.pc \in {"put", "put last"} /\ (stop \/ queue = <<>>)
  /\ Given(Batch(thread.batch), IF thread.pc = "put" THEN "decode" ELSE "end") /\ SameJob /\ UNCHANGED stop
PutError ==
  /\ thread.pc = "error" /\ (stop \/ queue = <<>>) /\ Given(Failure, "end") /\ SameJob /\ UNCHANGED stop
PutEnd ==
  /\ thread.pc = "end" /\ (stop \/ queue = <<>>) /\ Given(TheEnd, "dead")
  /\ SameJob /\ UNCHANGED stop

-----------------------------------------------------------------------------
(* The job.                                                                *)

\* It begins where its checkpoint says, with a thread and a queue of its own.
Begin ==
  /\ job.pc \in {"idle", "stopped"} /\ Len(job.starts) < MaxPasses
  /\ job' = [job EXCEPT !.pc = "running", !.starts = Append(@, Len(job.taken))]
  /\ thread' = [NoThread EXCEPT !.pc = "decode", !.at = job.next, !.prev = IF video.fps > 0 THEN job.next * video.fps ELSE 0]
  /\ queue' = <<>> /\ stop' = FALSE /\ clock' = 0 /\ UNCHANGED video

\* A batch, after which the checkpoint is the place after its last frame.
Take ==
  /\ job.pc = "running" /\ queue # <<>> /\ queue[1].kind = "batch"
  /\ LET batch == queue[1].places
     IN job' = [job EXCEPT !.taken = Append(@, batch), !.next = batch[Len(batch)].index + 1]
  /\ queue' = <<>> /\ UNCHANGED <<video, thread, stop, clock>>

\* The end, an error, or a thread that is gone and has left nothing.
TakeEnd ==
  /\ job.pc = "running"
  /\ \/ queue # <<>> /\ queue[1].kind = "end" /\ job' = [job EXCEPT !.pc = "done"]
     \/ queue # <<>> /\ queue[1].kind = "error" /\ job' = [job EXCEPT !.pc = "failed"]
     \/ queue = <<>> /\ thread.pc = "dead" /\ job' = [job EXCEPT !.pc = "done"]
  /\ queue' = <<>> /\ stop' = TRUE /\ UNCHANGED <<video, thread, clock>>

\* A pause, a cancellation or a failure of the analysis: the iterator is closed.  The thread
\* is waited for only a moment; what it goes on to do no one sees.
Stop ==
  /\ job.pc = "running" /\ job' = [job EXCEPT !.pc = "stopped"] /\ stop' = TRUE
  /\ UNCHANGED <<video, thread, queue, clock>>

Tick == /\ video.fps = 0 /\ clock < N /\ clock' = clock + 1 /\ UNCHANGED <<video, thread, queue, stop, job>>

FramesNext == Decode \/ Finish \/ Breaks \/ PutBatch \/ PutError \/ PutEnd \/ Begin \/ Take \/ TakeEnd \/ Stop \/ Tick
FramesSpec == FramesInit /\ [][FramesNext]_framesVars

-----------------------------------------------------------------------------
Places == LET all[k \in 0..Len(job.taken)] == IF k = 0 THEN <<>> ELSE all[k - 1] \o job.taken[k] IN all[Len(job.taken)]
Before(k) == LET n[j \in 0..k] == IF j = 0 THEN 0 ELSE n[j - 1] + Len(job.taken[j]) IN n[k]

\* Over all passes the frames come in their order and none comes twice.
InOrder == LET p == Places IN \A m, n \in DOMAIN p : m < n => p[m].index < p[n].index

\* Samples are an interval apart, except that each pass samples its first frame whatever
\* was sampled before it.
Apart ==
  LET p == Places
      firsts == {Before(job.starts[k]) + 1 : k \in DOMAIN job.starts}
  IN \A n \in 2..Len(p) : p[n].seconds - p[n - 1].seconds >= Interval \/ n \in firsts

\* Batches are full, except one that a pass ended with.
Full == \A k \in DOMAIN job.taken :
  Len(job.taken[k]) = BatchSize \/ k = Len(job.taken) \/ k \in {job.starts[j] : j \in DOMAIN job.starts}

\* A video that is done was sampled to its end: no frame came an interval after the last
\* one that was sampled.
ToTheEnd ==
  job.pc = "done" /\ N > 0 =>
    LET p == Places IN
      /\ video.breaks = Nil \/ video.breaks >= N \/ video.breaks < job.next
      /\ p # <<>>
      /\ video.fps > 0 /\ (\A i \in 0..(N - 1) : Reported(i) = i * video.fps) =>
           (N - 1) * video.fps - p[Len(p)].seconds < Interval

FramesAreInOrder == InOrder /\ Apart /\ Full /\ ToTheEnd

-----------------------------------------------------------------------------
(***************************************************************************)
(* Which of the sampled frames of a short analysis are kept                  *)
(* (select_quality_diverse_positions): the best of each scene if there are   *)
(* not more scenes than frames wanted, then frames that are neither near     *)
(* nor alike to one that was chosen, then the best of the rest.  What the    *)
(* middle stage prefers, a weighted sum, is left open: any of its            *)
(* candidates may be next.                                                  *)
(***************************************************************************)

CONSTANTS
  Samples,  (* sequences of frames [at, relevance, cut, look]: the place in  *)
            (* the video, what it is worth, whether the scene changes, and   *)
            (* its fingerprint, as a number                                 *)
  Wanted,   (* max_frames                                                   *)
  AlikeUpTo (* duplicate_hash_distance                                      *)

VARIABLES frames, selected, stage
choiceVars == <<frames, selected, stage>>

Count == Len(frames)
All == 1..Count

ChoiceInit == frames \in Samples /\ selected = <<>> /\ stage = "start"

-----------------------------------------------------------------------------
Chosen == Range(selected)
Abs(n) == IF n < 0 THEN -n ELSE n
Most(a, b) == IF a > b THEN a ELSE b

\* derive_scene_segments
Segment == LET s[i \in All] == IF i = 1 THEN 0 ELSE s[i - 1] + IF frames[i].cut /\ frames[i].at - frames[i - 1].at >= 1 THEN 1 ELSE 0
           IN s
Segments == {Segment[i] : i \in All}

\* The better of two frames, of equals the one with the change of scene, then the earlier.
Better(i, j) ==
  \/ frames[i].relevance > frames[j].relevance
  \/ frames[i].relevance = frames[j].relevance /\ ((frames[i].cut /\ ~frames[j].cut) \/ (frames[i].cut = frames[j].cut /\ i < j))
Best(is) == CHOOSE i \in is : \A j \in is \ {i} : Better(i, j)

MinGap == Most(1, (frames[Count].at - frames[1].at) \div (Wanted * 2))
Near(i, j)  == Abs(frames[i].at - frames[j].at) < MinGap
Alike(i, j) == Abs(frames[i].look - frames[j].look) <= AlikeUpTo

\* The rest, by what they are worth.
Ranked == SetToSortSeq(All, LAMBDA i, j : frames[i].relevance > frames[j].relevance
                                          \/ (frames[i].relevance = frames[j].relevance /\ i < j))

-----------------------------------------------------------------------------
Start ==
  /\ stage = "start" /\ UNCHANGED frames
  /\ \/ Count <= Wanted /\ selected' = [i \in All |-> i] /\ stage' = "done"
     \/ /\ Count > Wanted /\ Wanted <= 1 /\ stage' = "done"
        /\ selected' = <<CHOOSE i \in All : \A j \in All : frames[i].relevance > frames[j].relevance
                                                          \/ (frames[i].relevance = frames[j].relevance /\ i <= j)>>
     \/ /\ Count > Wanted /\ Wanted > 1 /\ stage' = "choose"
        /\ selected' = IF Cardinality(Segments) <= Wanted
                       THEN SetToSortSeq({Best({i \in All : Segment[i] = s}) : s \in Segments}, LAMBDA i, j : i < j) ELSE <<>>

Candidates == {i \in All \ Chosen : \A j \in Chosen : ~Near(i, j) /\ ~Alike(i, j)}

Choose ==
  /\ stage = "choose" /\ Len(selected) < Wanted
  /\ \E i \in Candidates : selected' = Append(selected, i)
  /\ UNCHANGED <<frames, stage>>

Fill ==
  /\ stage = "choose" /\ (Len(selected) >= Wanted \/ Candidates = {})
  /\ LET rest == SelectSeq(Ranked, LAMBDA i : i \notin Chosen)
         some == selected \o SubSeq(rest, 1, Wanted - Len(selected))
     IN selected' = SetToSortSeq(Range(some), LAMBDA i, j : i < j)
  /\ stage' = "done" /\ UNCHANGED frames

ChoiceNext == Start \/ Choose \/ Fill
ChoiceSpec == ChoiceInit /\ [][ChoiceNext]_choiceVars

-----------------------------------------------------------------------------
\* As many frames as were wanted, or all, each once and in the order of the video.
AsManyAsWanted ==
  stage = "done" => /\ Len(selected) = (IF Count < Wanted THEN Count ELSE Wanted)
                    /\ \A m, n \in DOMAIN selected : m < n => frames[selected[m]].at < frames[selected[n]].at

\* Every scene is shown if there are frames enough, and the best frame is always among
\* them then.
ScenesAreShown ==
  stage = "done" /\ Cardinality(Segments) <= Wanted /\ Count > 0 /\ Wanted > 0 =>
    /\ {Segment[i] : i \in Chosen} = Segments
    /\ \E i \in Chosen : \A j \in All : frames[i].relevance >= frames[j].relevance

\* Frames that are near or alike are kept together only when each is the best of its scene
\* or nothing else was left: then whatever was left out is near or alike as well.
NoNeedlessLikeness ==
  stage = "done" /\ Count > Wanted /\ Wanted > 1 =>
    LET Bests == IF Cardinality(Segments) <= Wanted THEN {Best({i \in All : Segment[i] = s}) : s \in Segments} ELSE {}
        Close(i, j) == Near(i, j) \/ Alike(i, j)
    IN (\E i \in Chosen \ Bests, j \in Chosen : i # j /\ Close(i, j)) =>
         \A k \in All \ Chosen : \E j \in Chosen : j # k /\ Close(k, j)

FramesAreChosen == AsManyAsWanted /\ ScenesAreShown /\ NoNeedlessLikeness
=============================================================================
