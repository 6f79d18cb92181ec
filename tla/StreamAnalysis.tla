--------------------------- MODULE StreamAnalysis ---------------------------
(***************************************************************************)
(* What the analysis of a stream shows (portrait_stream_worker,             *)
(* inference_tracks): the settings a client asks for are checked and stored *)
(* by the API, and read again by a worker, perhaps after a restart with     *)
(* other limits; a batch of frames is searched for persons, those out of    *)
(* its scope are dropped, the pictures are masked, archived and published.  *)
(*                                                                         *)
(* The place of a person is a number, and so is the width of a picture.     *)
(* Model names, thresholds, tracks (see Tracking) and the session around    *)
(* the batches (see Streams) are left out.                                  *)
(***************************************************************************)
EXTENDS Integers, Sequences, FiniteSets

CONSTANTS
  Requests, (* the settings clients send: a value or Absent for each key    *)
  Limits,   (* INFERENCE_BATCH_SIZE_LIMIT, STREAM_INFERENCE_BATCH_SIZE and  *)
            (* STREAM_READ_TIMEOUT_SECONDS, at each start of a process      *)
  People,   (* [x, class]: who may be in front of the camera                *)
  Width, MaxFrames, MaxBatches, (* bounds                                   *)
  Absent, Nil

VARIABLES
  ask, limits, (* the request, and the limits of the process                *)
  stored,      (* settings of the stream, Nil before it is created          *)
  pc,          (* api, refused, begin, read, infer, scope, mask, archive,   *)
             (* emit, failed                                              *)
  images,      (* who can be seen in the pictures of the batch              *)
  frames,      (* who is found, and reported, per frame                     *)
  archived,    (* the pictures of an archive that no event names yet        *)
  published    (* the events: who is reported and what is shown              *)

vars == <<ask, limits, stored, pc, images, frames, archived, published>>

-----------------------------------------------------------------------------
(* The settings.                                                           *)
Profiles == {"balanced", "low_latency", "high_accuracy", "privacy_first"}

\* STREAM_ANALYSIS_PROFILES
Profile(p, key) ==
  CASE p = "low_latency"   /\ key = "batch"      -> 1
    [] p = "high_accuracy" /\ key = "batch"      -> 4
    [] p = "privacy_first" /\ key = "embeddings" -> "no"
    [] p = "privacy_first" /\ key = "mask"       -> "persons"
    [] OTHER -> Absent

\* A key that is given, even as null, comes before the profile, and that before the default.
ProfileOf(s) == IF s.profile = Absent THEN "balanced" ELSE s.profile
Setting(s, key, default) ==
  IF s[key] # Absent THEN s[key]
  ELSE IF Profile(ProfileOf(s), key) # Absent THEN Profile(ProfileOf(s), key) ELSE default

\* _privacy_mask_mode
MaskMode(value) == CASE value \in {"null", "no"} -> "none" [] value = "yes" -> "persons" [] OTHER -> value

\* _normalize_target_classes
Classes(value) == IF value = Nil THEN {"person"} ELSE value

\* stream_analysis_parameters: what it returns, and when it refuses.
Parameters(s, l) ==
  [profile |-> ProfileOf(s), mask |-> MaskMode(Setting(s, "mask", "null")), roi |-> Setting(s, "roi", Nil),
   classes |-> Classes(Setting(s, "classes", Nil)), embeddings |-> Setting(s, "embeddings", "no"),
   batch |-> Setting(s, "batch", l.batch), timeout |-> Setting(s, "timeout", l.timeout)]

Within(roi) == roi.x >= 0 /\ roi.width > 0 /\ roi.x + roi.width <= Width
Accepted(s, l) ==
  LET p == Parameters(s, l)
  IN /\ p.profile \in Profiles /\ p.mask \in {"none", "persons", "full"}
     /\ (p.roi = Nil \/ Within(p.roi)) /\ p.classes # {}
     /\ p.embeddings \in {"yes", "no"}
     /\ p.batch \in 1..l.maxBatch /\ p.timeout \in 1..l.timeout

\* normalize_stream_analysis_settings
Normalized(s, l) ==
  [key \in DOMAIN s |-> IF s[key] # Absent \/ key \in {"profile", "roi", "classes", "mask"}
                        THEN Parameters(s, l)[key] ELSE Absent]

Create ==
  /\ pc = "api"
  /\ IF Accepted(ask, limits) THEN pc' = "begin" /\ stored' = Normalized(ask, limits)
     ELSE pc' = "refused" /\ UNCHANGED stored
  /\ UNCHANGED <<ask, limits, images, frames, archived, published>>

-----------------------------------------------------------------------------
(* The worker.                                                             *)
Used == Parameters(stored, limits)
None == <<>>

\* The process begins again, with limits that may have been changed.
Restart ==
  /\ pc \in {"begin", "read", "infer", "scope", "mask", "archive", "emit", "failed"}
  /\ limits' \in Limits \ {limits} /\ pc' = "begin"
  /\ images' = None /\ frames' = None /\ archived' = None
  /\ UNCHANGED <<ask, stored, published>>

Begin ==
  /\ pc = "begin" /\ pc' = IF Accepted(stored, limits) THEN "read" ELSE "failed"
  /\ UNCHANGED <<ask, limits, stored, images, frames, archived, published>>

\* A batch of frames, the last of a source may be short.
Read ==
  /\ pc = "read" /\ Len(published) < MaxBatches
  /\ \E n \in 1..MaxFrames : n <= Used.batch /\ images' \in [1..n -> SUBSET People]
  /\ pc' = "infer"
  /\ UNCHANGED <<ask, limits, stored, frames, archived, published>>

\* _person_matches_stream_scope: the class, and the middle of the box.
InScope(p) ==
  /\ p.class \in Used.classes
  /\ Used.roi = Nil \/ (Used.roi.x <= p.x /\ p.x <= Used.roi.x + Used.roi.width)

\* _apply_privacy_mask: who can still be seen.
Masked(seen, reported) ==
  CASE Used.mask = "none" -> seen [] Used.mask = "full" -> {} [] OTHER -> seen \ reported

\* infer_detections_and_embeddings: the detector finds some of the persons.
Detect ==
  /\ pc = "infer" /\ pc' = "scope"
  /\ frames' \in {found \in [DOMAIN images -> SUBSET People] : \A i \in DOMAIN images : found[i] \subseteq images[i]}
  /\ UNCHANGED <<ask, limits, stored, images, archived, published>>

\* infer_tracks_for_images drops who is out of scope before tracks are made.
Scope ==
  /\ pc = "scope" /\ pc' = "mask"
  /\ frames' = [i \in DOMAIN frames |-> {p \in frames[i] : InScope(p)}]
  /\ UNCHANGED <<ask, limits, stored, images, archived, published>>

\* analyze_stream_frames puts the masked pictures in the place of those that came.
Mask ==
  /\ pc = "mask" /\ pc' = "archive"
  /\ images' = [i \in DOMAIN images |-> Masked(images[i], frames[i])]
  /\ UNCHANGED <<ask, limits, stored, frames, archived, published>>

\* The archive keeps the pictures of the batch; archives may be off.
Archive ==
  /\ pc = "archive" /\ pc' = "emit"
  /\ archived' \in {None, images}
  /\ UNCHANGED <<ask, limits, stored, images, frames, published>>

\* The event has the thumbnails; the batch is over.
Emit ==
  /\ pc = "emit" /\ pc' = "read"
  /\ published' = Append(published, [frames |-> frames, shown |-> images, archive |-> archived])
  /\ images' = None /\ frames' = None /\ archived' = None
  /\ UNCHANGED <<ask, limits, stored>>

\* The source, the models, the archive or the event fail: the batch is lost.
Fail ==
  /\ pc \in {"read", "infer", "scope", "mask", "archive", "emit"} /\ pc' \in {"begin", "failed"}
  /\ images' = None /\ frames' = None /\ archived' = None
  /\ UNCHANGED <<ask, limits, stored, published>>

Init ==
  /\ ask \in Requests /\ limits \in Limits /\ stored = Nil /\ pc = "api"
  /\ images = None /\ frames = None /\ archived = None /\ published = <<>>

Next == Create \/ Restart \/ Begin \/ Read \/ Detect \/ Scope \/ Mask \/ Archive \/ Emit \/ Fail
Spec == Init /\ [][Next]_vars

-----------------------------------------------------------------------------
(* Properties.                                                             *)


\* What the client asked for, whatever was stored of it since.
AskedMask == IF ask.mask # Absent THEN MaskMode(ask.mask)
             ELSE IF ask.profile = "privacy_first" THEN "persons" ELSE "none"
AskedScope(p) ==
  /\ p.class \in IF ask.classes \in {Absent, Nil} THEN {"person"} ELSE ask.classes
  /\ ask.roi \in {Absent, Nil} \/ (ask.roi.x <= p.x /\ p.x <= ask.roi.x + ask.roi.width)

Hides(pictures, reported) ==
  \A i \in DOMAIN pictures :
    /\ AskedMask = "full" => pictures[i] = {}
    /\ AskedMask = "persons" => pictures[i] \cap reported[i] = {}

\* No thumbnail and no archived picture shows someone who is reported, or anyone at all,
\* when the client asked that they be masked, be it by a profile (analyze_stream_frames,
\* which puts the masked pictures where the archive takes them from).
MaskIsKept ==
  /\ pc = "emit" => Hides(archived, frames)
  /\ \A e \in DOMAIN published : /\ Hides(published[e].shown, published[e].frames)
                                 /\ Hides(published[e].archive, published[e].frames)

\* Nobody out of the scope that was asked for is reported (_person_matches_stream_scope).
ScopeIsKept ==
  \A e \in DOMAIN published : \A i \in DOMAIN published[e].frames :
    \A p \in published[e].frames[i] : AskedScope(p)

\* What is stored means what the request meant: under any limits the worker uses what the
\* request would have given, and it refuses a stream only if its limits are lower than
\* some under which the request is accepted (normalize_stream_analysis_settings).
AtMost(k, l) == k.maxBatch <= l.maxBatch /\ k.batch <= l.batch /\ k.timeout <= l.timeout
MeansTheSame ==
  stored # Nil => \A l \in Limits :
    /\ Parameters(stored, l) = Parameters(ask, l)
    /\ (\E k \in Limits : Accepted(ask, k) /\ AtMost(k, l)) => Accepted(stored, l)

AnalysisIsPrivate == MaskIsKept /\ ScopeIsKept /\ MeansTheSame
=============================================================================
