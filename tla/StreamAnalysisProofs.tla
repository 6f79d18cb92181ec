------------------------ MODULE StreamAnalysisProofs ------------------------
(***************************************************************************)
(* Proofs about StreamAnalysis: whatever settings clients send, whatever    *)
(* limits a worker starts with, and whoever is in front of the camera, the   *)
(* pictures hide whom they should, and nobody out of scope is reported.     *)
(***************************************************************************)
EXTENDS StreamAnalysis, TLAPS

Keys == {"profile", "mask", "roi", "classes", "embeddings", "batch", "timeout"}

\* What is assumed of the constants: requests have a value for each key, and the mark of
\* a key that is not given is no value.
SettingsAreSound ==
  /\ \A s \in Requests : s = [key \in Keys |-> s[key]]
  /\ Absent \notin {"none", "persons", "full", "no", "balanced", "privacy_first", "low_latency", "high_accuracy"}
  /\ Absent # Nil /\ Absent # {"person"} /\ Nil # {"person"} /\ Absent # 1 /\ Absent # 4

-----------------------------------------------------------------------------
(* The invariant.                                                          *)
Photos == Seq(SUBSET People)
Events == [frames : Photos, shown : Photos, archive : Photos]

TypeInv ==
  /\ ask \in Requests /\ limits \in Limits
  /\ images \in Photos /\ frames \in Photos /\ archived \in Photos /\ published \in Seq(Events)
  /\ pc \in {"mask", "archive", "emit", "scope"} => DOMAIN frames = DOMAIN images
  /\ pc = "emit" => archived = None \/ archived = images

\* What is stored came from the request, under limits that accepted it.
Meant ==
  pc \notin {"api", "refused"} => \E k \in Limits : Accepted(ask, k) /\ stored = Normalized(ask, k)

Scoped(reported) == \A i \in DOMAIN reported : \A p \in reported[i] : AskedScope(p)

\* From each step of a batch on, what it was for holds.
Done ==
  /\ pc \in {"mask", "archive", "emit"} => Scoped(frames)
  /\ pc \in {"archive", "emit"} => Hides(images, frames)
  /\ \A e \in DOMAIN published : /\ Scoped(published[e].frames)
                                 /\ Hides(published[e].shown, published[e].frames)
                                 /\ Hides(published[e].archive, published[e].frames)

Inv == TypeInv /\ Meant /\ Done

-----------------------------------------------------------------------------
(* The settings.                                                           *)

\* The mask of a request is the one asked for.
LEMMA AskedLemma ==
  ASSUME SettingsAreSound, ask \in Requests, NEW k
  PROVE  Parameters(ask, k).mask = AskedMask
<1>1. ask = [key \in Keys |-> ask[key]]
  BY DEF SettingsAreSound
<1> QED
  BY <1>1 DEF Parameters, Setting, Profile, ProfileOf, AskedMask, MaskMode, SettingsAreSound, Keys

\* A mask that is accepted means the same when it is read again.
LEMMA MaskLemma ==
  ASSUME SettingsAreSound, ask \in Requests, NEW k, NEW l, Accepted(ask, k)
  PROVE  Parameters(Normalized(ask, k), l).mask = AskedMask
<1> DEFINE s == Normalized(ask, k)
<1>1. ask = [key \in Keys |-> ask[key]]
  BY DEF SettingsAreSound
<1>2. Parameters(ask, k).mask = AskedMask
  BY AskedLemma
<1>3. AskedMask \in {"none", "persons", "full"}
  BY <1>2 DEF Accepted
<1>4. s.mask = AskedMask
  BY <1>1, <1>2 DEF Normalized, Keys
<1>5. Parameters(s, l).mask = MaskMode(s.mask)
  BY <1>3, <1>4 DEF Parameters, Setting, SettingsAreSound
<1> QED  BY <1>3, <1>4, <1>5 DEF MaskMode

\* So does its scope.
LEMMA ScopeLemma ==
  ASSUME SettingsAreSound, ask \in Requests, NEW k, NEW l
  PROVE  /\ Parameters(Normalized(ask, k), l).roi = (IF ask.roi = Absent THEN Nil ELSE ask.roi)
         /\ Parameters(Normalized(ask, k), l).classes = (IF ask.classes \in {Absent, Nil} THEN {"person"} ELSE ask.classes)
<1> DEFINE s == Normalized(ask, k)
<1>1. ask = [key \in Keys |-> ask[key]]
  BY DEF SettingsAreSound
<1>2. /\ Parameters(ask, k).roi = (IF ask.roi = Absent THEN Nil ELSE ask.roi)
      /\ Parameters(ask, k).classes = (IF ask.classes \in {Absent, Nil} THEN {"person"} ELSE ask.classes)
  BY <1>1 DEF Parameters, Setting, Profile, Classes, SettingsAreSound
<1>3. s.roi = Parameters(ask, k).roi /\ s.classes = Parameters(ask, k).classes
  BY <1>1 DEF Normalized, Keys
<1>4. s.roi # Absent /\ s.classes \notin {Absent, Nil}
  BY <1>2, <1>3 DEF SettingsAreSound
<1> QED  BY <1>2, <1>3, <1>4 DEF Parameters, Setting, Classes

\* Whatever the limits of the worker, it uses what the client asked for.
LEMMA UsedLemma ==
  ASSUME SettingsAreSound, TypeInv, Meant, pc \notin {"api", "refused"}
  PROVE  Used.mask = AskedMask /\ \A p \in People : InScope(p) => AskedScope(p)
<1>1. PICK k \in Limits : Accepted(ask, k) /\ stored = Normalized(ask, k)
  BY DEF Meant
<1>2. Used = Parameters(Normalized(ask, k), limits)
  BY <1>1 DEF Used
<1>3. Used.mask = AskedMask
  BY <1>1, <1>2, MaskLemma DEF TypeInv
<1>4. /\ Used.roi = (IF ask.roi = Absent THEN Nil ELSE ask.roi)
      /\ Used.classes = (IF ask.classes \in {Absent, Nil} THEN {"person"} ELSE ask.classes)
  BY <1>2, ScopeLemma DEF TypeInv
<1>5. \A p \in People : InScope(p) => AskedScope(p)
  BY <1>4 DEF InScope, AskedScope
<1> QED  BY <1>3, <1>5

-----------------------------------------------------------------------------
(* The steps.                                                              *)

\* No batch is at hand where one begins.
LEMMA NoneLemma == None \in Photos /\ DOMAIN None = {}
BY DEF None, Photos

LEMMA InitInv == Init => Inv
<1> SUFFICES ASSUME Init PROVE Inv
  OBVIOUS
<1>1. TypeInv
  BY NoneLemma DEF Init, TypeInv
<1>2. Done
  BY DEF Init, Done
<1> QED  BY <1>1, <1>2 DEF Init, Inv, Meant

LEMMA TypeStep ==
  ASSUME TypeInv, [Next]_vars
  PROVE  TypeInv'
<1>1. CASE Create
  BY <1>1 DEF TypeInv, Create
<1>2. CASE Restart
  BY <1>2, NoneLemma DEF TypeInv, Restart
<1>3. CASE Begin
  BY <1>3 DEF TypeInv, Begin
<1>4. CASE Read
  BY <1>4 DEF TypeInv, Read, Photos
<1>5. CASE Detect
  <2>1. PICK n \in Nat : images \in [1..n -> SUBSET People]
    BY DEF TypeInv, Photos
  <2>2. frames' \in Photos /\ DOMAIN frames' = DOMAIN images
    BY <1>5, <2>1 DEF Detect, Photos
  <2> QED  BY <1>5, <2>2 DEF TypeInv, Detect
<1>6. CASE Scope
  <2>1. PICK n \in Nat : frames \in [1..n -> SUBSET People]
    BY DEF TypeInv, Photos
  <2>2. frames' \in Photos /\ DOMAIN frames' = DOMAIN frames
    BY <1>6, <2>1 DEF Scope, Photos
  <2> QED  BY <1>6, <2>2 DEF TypeInv, Scope
<1>7. CASE Mask
  <2>1. PICK n \in Nat : images \in [1..n -> SUBSET People]
    BY DEF TypeInv, Photos
  <2>2. images' \in [1..n -> SUBSET People]
    BY <1>7, <2>1 DEF Mask, Masked
  <2>3. images' \in Photos /\ DOMAIN images' = DOMAIN images
    BY <2>1, <2>2 DEF Photos
  <2> QED  BY <1>7, <2>3 DEF TypeInv, Mask
<1>8. CASE Archive
  BY <1>8, NoneLemma DEF TypeInv, Archive
<1>9. CASE Emit
  <2>1. [frames |-> frames, shown |-> images, archive |-> archived] \in Events
    BY DEF TypeInv, Events
  <2>2. published' \in Seq(Events)
    BY <1>9, <2>1 DEF TypeInv, Emit
  <2> QED  BY <1>9, <2>2, NoneLemma DEF TypeInv, Emit
<1>10. CASE Fail
  BY <1>10, NoneLemma DEF TypeInv, Fail
<1>11. CASE UNCHANGED vars
  BY <1>11 DEF TypeInv, vars
<1> QED  BY <1>1, <1>2, <1>3, <1>4, <1>5, <1>6, <1>7, <1>8, <1>9, <1>10, <1>11 DEF Next

LEMMA MeantStep ==
  ASSUME TypeInv, Meant, [Next]_vars
  PROVE  Meant'
<1>1. CASE Create
  BY <1>1 DEF TypeInv, Create, Meant
<1>2. ASSUME ask' = ask, stored' = stored, pc \notin {"api", "refused"} \/ pc' = pc
      PROVE  Meant'
  BY <1>2 DEF Meant
<1>3. CASE UNCHANGED vars
  BY <1>2, <1>3 DEF vars
<1> QED
  BY <1>1, <1>2, <1>3 DEF Next, Restart, Begin, Read, Detect, Scope, Mask, Archive, Emit, Fail

\* A masked picture hides whom the client wants hidden.
LEMMA HidesLemma ==
  ASSUME Used.mask = AskedMask, AskedMask \in {"none", "persons", "full"}, NEW pictures, NEW reported
  PROVE  Hides([i \in DOMAIN pictures |-> Masked(pictures[i], reported[i])], reported)
BY DEF Hides, Masked

LEMMA DoneStep ==
  ASSUME SettingsAreSound, TypeInv, Meant, Done, [Next]_vars
  PROVE  Done'
<1> DEFINE Kept == published' = published /\ ask' = ask
<1>1. ASSUME Kept, pc' \notin {"mask", "archive", "emit"} PROVE Done'
  BY <1>1 DEF Done, Hides, Scoped, AskedMask, AskedScope
<1>2. CASE Scope
  <2>1. Scoped(frames')
    BY <1>2, UsedLemma DEF Scope, Scoped, TypeInv, Photos
  <2> QED  BY <1>2, <2>1 DEF Scope, Done, Hides, Scoped, AskedMask, AskedScope
<1>3. CASE Mask
  <2>1. Used.mask = AskedMask /\ AskedMask \in {"none", "persons", "full"}
    <3>1. PICK k \in Limits : Accepted(ask, k) /\ stored = Normalized(ask, k)
      BY <1>3 DEF Meant, Mask
    <3>2. Parameters(ask, k).mask = AskedMask
      BY AskedLemma, <3>1 DEF TypeInv
    <3> QED  BY <1>3, <3>1, <3>2, UsedLemma DEF Mask, Accepted
  <2>2. Hides(images', frames)
    BY <1>3, <2>1, HidesLemma DEF Mask
  <2> QED  BY <1>3, <2>2 DEF Mask, Done, Hides, Scoped, AskedMask, AskedScope
<1>4. CASE Archive
  BY <1>4 DEF Archive, Done, Hides, Scoped, AskedMask, AskedScope
<1>5. CASE Emit
  <2> DEFINE event == [frames |-> frames, shown |-> images, archive |-> archived]
  <2>1. Scoped(frames) /\ Hides(images, frames)
    BY <1>5 DEF Emit, Done
  <2>2. Hides(archived, frames)
    BY <1>5, <2>1, NoneLemma DEF Emit, TypeInv, Hides
  <2>3. \A e \in DOMAIN published' : published'[e] = event \/ (e \in DOMAIN published /\ published'[e] = published[e])
    BY <1>5 DEF Emit, TypeInv
  <2>4. \A e \in DOMAIN published' : /\ Scoped(published'[e].frames)
                                     /\ Hides(published'[e].shown, published'[e].frames)
                                     /\ Hides(published'[e].archive, published'[e].frames)
    BY <2>1, <2>2, <2>3 DEF Done
  <2> QED  BY <1>5, <2>4 DEF Emit, Done, Hides, Scoped, AskedMask, AskedScope
<1>6. CASE UNCHANGED vars
  BY <1>6 DEF vars, Done, Hides, Scoped, AskedMask, AskedScope
<1>7. CASE Create \/ Restart \/ Begin \/ Read \/ Detect \/ Fail
  BY <1>1, <1>7 DEF Create, Restart, Begin, Read, Detect, Fail
<1> QED  BY <1>2, <1>3, <1>4, <1>5, <1>6, <1>7 DEF Next

\* No picture of an event shows whom the client asked to hide, and nobody out of the scope
\* that was asked for is reported (stream_analysis_parameters, analyze_stream_frames).
THEOREM Privacy ==
  ASSUME SettingsAreSound
  PROVE  Spec => [](MaskIsKept /\ ScopeIsKept)
<1>1. Inv /\ [Next]_vars => Inv'
  BY TypeStep, MeantStep, DoneStep DEF Inv
<1>2. Inv => MaskIsKept /\ ScopeIsKept
  <2> SUFFICES ASSUME Inv PROVE MaskIsKept /\ ScopeIsKept
    OBVIOUS
  <2>1. pc = "emit" => Hides(archived, frames)
    BY NoneLemma DEF Inv, TypeInv, Done, Hides
  <2> QED  BY <2>1 DEF Inv, Done, Scoped, MaskIsKept, ScopeIsKept
<1> QED  BY InitInv, <1>1, <1>2, PTL DEF Spec
=============================================================================
