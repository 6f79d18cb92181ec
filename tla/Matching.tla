------------------------------ MODULE Matching ------------------------------
(***************************************************************************)
(* Searches of the gallery, and comparisons of images.  The two parts share*)
(* no variable; each has an Init and a Next of its own.                    *)
(***************************************************************************)
EXTENDS Integers, Sequences, FiniteSets, FiniteSetsExt, SequencesExt, TLC

-----------------------------------------------------------------------------
(***************************************************************************)
(* A search in the gallery (search_gallery): the features that are most      *)
(* alike, a second search with what the surest of them add to the query, and  *)
(* from both the persons, with a decision on each.  The search is of the       *)
(* snapshot in memory, or of a vector database, which may change between the  *)
(* two searches or fail.  Similarities and qualities are in thousandths, what *)
(* is computed of them in hundred-thousandths.                              *)
(***************************************************************************)

CONSTANTS
  Queries,   (* [feature: what is known of each feature, quality, top, remote]: *)
             (* a feature is [own, person, quality, sim, again], with what the  *)
             (* query and the expanded query score it                          *)
  Threshold,
  Extra, ExtraAgain, (* how many more than asked are taken into the pools     *)
  Seeds,     (* max_features                                                 *)
  Nil

VARIABLES
  query, index,          (* the query, and the features in the database       *)
  scan, pool, seeds, merged, answer, stage

searchVars == <<query, index, scan, pool, seeds, merged, answer, stage>>

F == query.feature
SearchInit ==
  /\ query \in Queries /\ index = {f \in DOMAIN F : F[f].own}
  /\ scan = {} /\ pool = <<>> /\ seeds = <<>> /\ merged = <<>> /\ answer = <<>> /\ stage = "start"

-----------------------------------------------------------------------------
(* The searches.                                                           *)

\* The n best of some features, the best first, of equals any.
Best(fs, score, n) ==
  LET k == IF Cardinality(fs) < n THEN Cardinality(fs) ELSE n
  IN  {s \in SetToAllKPermutations(fs) :
         /\ Len(s) = k
         /\ \A i, j \in 1..k : i < j => score[s[i]] >= score[s[j]]
         /\ k = 0 \/ \A f \in fs \ ToSet(s) : score[f] <= score[s[k]]}

\* gallery_query_quality_gate
Gate ==
  CASE query.quality = Nil  -> [risk |-> "clear", share |-> 100]
    [] query.quality # Nil /\ query.quality < 120 -> [risk |-> "query_quality_unusable", share |-> 25]
    [] query.quality \in 120..249 -> [risk |-> "low_query_quality", share |-> 55]
    [] query.quality \in 250..399 -> [risk |-> "weak_query_quality", share |-> 78]
    [] OTHER -> [risk |-> "clear", share |-> 100]
Expands == Gate.risk = "clear"   \* query_expansion_quality_eligible

\* gallery_records_snapshot, where it is wanted.
Snapshot ==
  /\ stage = "start" /\ stage' = "first" /\ scan' = IF ~query.remote \/ Expands THEN index ELSE {}
  /\ UNCHANGED <<query, index, pool, seeds, merged, answer>>

\* VECTOR_STORE.search: the database, or if that fails the snapshot, which is taken now if
\* there is none.
Found == IF query.remote THEN {index, IF scan = {} THEN index ELSE scan} ELSE {scan}

\* gallery_query_expansion_plan: one feature of a person, of good quality and well above the
\* threshold, the surest first.
Stable(s) == SelectSeq(s, LAMBDA f : f \in scan /\ F[f].quality >= 450 /\ F[f].sim - Threshold >= 40)
SeedsOf(s) ==
  LET ok   == Stable(s)
      firsts == {i \in DOMAIN ok : \A j \in 1..(i - 1) : F[ok[j]].person # F[ok[i]].person}
      one  == SelectSeq([i \in DOMAIN ok |-> IF i \in firsts THEN ok[i] ELSE Nil], LAMBDA f : f # Nil)
  IN  SubSeq(one, 1, IF Len(one) < Seeds THEN Len(one) ELSE Seeds)

First ==
  /\ stage = "first"
  /\ \E fs \in Found : \E s \in Best(fs, [f \in fs |-> F[f].sim], query.top + Extra) :
       /\ pool' = s /\ seeds' = IF Expands THEN SeedsOf(s) ELSE <<>>
       /\ stage' = IF seeds' = <<>> THEN "people" ELSE "second"
       /\ merged' = [f \in ToSet(s) |-> F[f].sim]
  /\ UNCHANGED <<query, index, scan, answer>>

\* merge_gallery_candidate_pools: what both found is blended, what one found stays as it is.
Blend(f) == (F[f].again * 72 + F[f].sim * 28) \div 100
Second ==
  /\ stage = "second" /\ stage' = "people"
  /\ \E fs \in Found : \E s \in Best(fs, [f \in fs |-> F[f].again], query.top + ExtraAgain) :
       merged' = [f \in ToSet(pool) \cup ToSet(s) |->
                    IF f \notin ToSet(pool) THEN F[f].again ELSE IF f \in ToSet(s) THEN Blend(f) ELSE F[f].sim]
  /\ UNCHANGED <<query, index, scan, pool, seeds, answer>>

\* Another replica deletes a person.
Delete ==
  /\ query.remote /\ stage \in {"first", "second"}
  /\ \E f \in index : index' = {g \in index : F[g].person # F[f].person}
  /\ UNCHANGED <<query, scan, pool, seeds, merged, answer, stage>>

-----------------------------------------------------------------------------
(* The persons.                                                            *)
Severity ==
  [clear |-> 0, weak_query_quality |-> 1, rank_close |-> 2, borderline |-> 3, low_query_quality |-> 4,
   rank_ambiguous |-> 5, single_feature_borderline |-> 6, low_template_quality |-> 7, query_quality_unusable |-> 8]
Worse(r, s)  == IF Severity[s] > Severity[r] THEN s ELSE r
Over(x)      == IF x > 0 THEN x ELSE 0
AtMost(x, y) == IF x < y THEN x ELSE y
Weight(f)   == 350 + (65 * F[f].quality) \div 100
Adjusted(f) == (merged[f] * (9000 + F[f].quality)) \div 100
Of(p)       == {f \in DOMAIN merged : F[f].person = p}

\* aggregate_gallery_candidates, for one person.
Person(p) ==
  LET total    == MapThenSumSet(Weight, Of(p))
      mean     == (100 * MapThenSumSet(LAMBDA f : merged[f] * Weight(f), Of(p))) \div total
      quality  == MapThenSumSet(LAMBDA f : F[f].quality * Weight(f), Of(p)) \div total
      template == (65 * Max({Adjusted(f) : f \in Of(p)}) + 35 * mean) \div 100
      margin   == template - 100 * Threshold
      support  == Cardinality(Of(p))
      near(d)  == margin < d /\ margin > -d
      risk     == CASE quality < 250 -> "low_template_quality"
                    [] quality >= 250 /\ support = 1 /\ near(6000) -> "single_feature_borderline"
                    [] quality >= 250 /\ support > 1 /\ near(3000) -> "borderline"
                    [] OTHER -> "clear"
      sure     == AtMost(100000, ((((Over(50000 + (margin * 100) \div 35) * (700 + (30 * quality) \div 100)) \div 1000)
                                     * (750 + (250 * AtMost(support, 3)) \div 3)) \div 1000))
  IN  [person |-> p, template |-> template, margin |-> margin, passed |-> margin >= 0, risk |-> risk,
       sure |-> sure, factors |-> {risk} \ {"clear"}]

\* apply_gallery_query_quality
Gated(d) == [d EXCEPT !.sure = (@ * Gate.share) \div 100, !.risk = Worse(@, Gate.risk),
                      !.factors = @ \cup ({Gate.risk} \ {"clear"})]

\* apply_gallery_rank_context: how near the neighbours are in the whole list.
Gaps(ds, i) == {ds[j - 1].template - ds[j].template : j \in {i, i + 1} \cap (2..Len(ds))}
Ranked(ds, i) ==
  LET near == Gaps(ds, i) # {}
      risk == CASE near /\ Min(Gaps(ds, i)) < 2500 -> "rank_ambiguous"
                [] near /\ Min(Gaps(ds, i)) \in 2500..4999 -> "rank_close"
                [] OTHER -> "clear"
      share == CASE risk = "rank_ambiguous" -> 70 [] risk = "rank_close" -> 88 [] OTHER -> 100
  IN  [ds[i] EXCEPT !.sure = (@ * share) \div 100, !.risk = Worse(@, risk), !.factors = @ \cup ({risk} \ {"clear"})]

Decide ==
  /\ stage = "people" /\ stage' = "done"
  /\ LET people == {F[f].person : f \in DOMAIN merged}
         score  == [p \in people |-> Person(p).template]
     IN \E s \in Best(people, score, Cardinality(people)) :
          LET ds == [i \in DOMAIN s |-> Gated(Person(s[i]))]
          IN  answer' = [i \in 1..AtMost(Len(ds), query.top) |-> Ranked(ds, i)]
  /\ UNCHANGED <<query, index, scan, pool, seeds, merged>>

SearchNext == Snapshot \/ First \/ Second \/ Delete \/ Decide
SearchSpec == SearchInit /\ [][SearchNext]_searchVars

-----------------------------------------------------------------------------
(* Properties.                                                             *)

\* The answer has persons of the tenant, each once, the most alike first, and nobody that was
\* left out is more alike than one that is in.
AnswerIsRanked ==
  stage = "done" =>
    /\ Len(answer) <= query.top
    /\ \A i \in DOMAIN answer : \E f \in DOMAIN merged : F[f].own /\ F[f].person = answer[i].person
    /\ \A i, j \in DOMAIN answer : i < j => /\ answer[i].person # answer[j].person
                                            /\ answer[i].template >= answer[j].template
    /\ \A f \in DOMAIN merged : \/ F[f].person \in {answer[i].person : i \in DOMAIN answer}
                                \/ (Len(answer) = query.top /\ Person(F[f].person).template <= answer[query.top].template)

\* Nobody is more alike than the image of theirs that is most alike, and who passes is so by the
\* threshold; the risk that is told is the worst of those there are; and what is told sure is
\* neither near the threshold nor near the next person.
DecisionIsFair ==
  \A i \in DOMAIN answer : LET d == answer[i] IN
    /\ d.template <= 100 * Max({merged[f] : f \in Of(d.person)})
    /\ d.passed <=> d.template >= 100 * Threshold
    /\ \A r \in d.factors : Severity[r] <= Severity[d.risk]
    /\ d.risk # "clear" => d.risk \in d.factors
    /\ d.sure <= Person(d.person).sure
    /\ Gate.risk = "query_quality_unusable" => d.sure <= 25000 /\ d.risk = Gate.risk

\* Two that are next to each other and hardly differ are both told ambiguous.
NeighboursAgree ==
  \A i \in DOMAIN answer : i + 1 \in DOMAIN answer =>
    (answer[i].template - answer[i + 1].template < 2500 =>
       "rank_ambiguous" \in answer[i].factors /\ "rank_ambiguous" \in answer[i + 1].factors)

\* A query is expanded by few persons, one image of each, that are in the gallery and stand well
\* above the threshold; and never when the query itself is poor.
ExpansionIsSafe ==
  /\ Len(seeds) <= Seeds /\ (seeds # <<>> => query.quality = Nil \/ query.quality >= 400)
  /\ \A i \in DOMAIN seeds : seeds[i] \in scan \cap ToSet(pool) /\ F[seeds[i]].sim >= Threshold + 40
  /\ \A i, j \in DOMAIN seeds : i # j => F[seeds[i]].person # F[seeds[j]].person
  /\ \A f \in ToSet(pool) \cap scan : F[f].quality >= 450 /\ F[f].sim >= Threshold + 40 /\ Expands /\ Len(seeds) < Seeds =>
       \E i \in DOMAIN seeds : F[seeds[i]].person = F[f].person /\ F[seeds[i]].sim >= F[f].sim

\* What both searches found scores between its two scores, and the second search loses nothing.
MergeKeepsAll ==
  stage \in {"people", "done"} =>
    /\ ToSet(pool) \subseteq DOMAIN merged
    /\ \A f \in DOMAIN merged : merged[f] >= Min({F[f].sim, F[f].again}) /\ merged[f] <= Max({F[f].sim, F[f].again})
    /\ seeds = <<>> => DOMAIN merged = ToSet(pool)

SearchIsSound == AnswerIsRanked /\ DecisionIsFair /\ NeighboursAgree /\ ExpansionIsSafe /\ MergeKeepsAll

-----------------------------------------------------------------------------
(***************************************************************************)
(* Whether two inputs show the same person (portrait_compare and the routes  *)
(* of /v1/compare and /v1/fusion): a similarity is weighed by the quality of  *)
(* both inputs, the verdicts on several modalities are fused, and inputs that *)
(* are copies of each other make the verdict less sure.  Similarities,       *)
(* qualities and thresholds are in thousandths, margins and confidences in    *)
(* hundred-thousandths; the code rounds its floats at six digits.            *)
(***************************************************************************)

CONSTANTS
  Requests,   (* [pairs, fused, distance]: by modality [sim, a, b], whether    *)
              (* they are fused, and how far apart the images are, or Nil     *)
  Thresholds (* what is asked of a modality and of the fusion, by profile    *)

VARIABLES request, profile, scores, verdict
compareVars == <<request, profile, scores, verdict>>

CompareInit == request \in Requests /\ profile \in DOMAIN Thresholds /\ scores = <<>> /\ verdict = Nil

-----------------------------------------------------------------------------
Between(lo, x, hi) == IF x < lo THEN lo ELSE IF x > hi THEN hi ELSE x
Above(x)            == IF x > 0 THEN x ELSE 0
Mean(q, r)         == (q + r) \div 2

\* coerce_quality_values: what is missing has no say, and both missing are perfect.
Values(a, b)  == ({a, b} \ {Nil}) \cup (IF a = Nil /\ b = Nil THEN {1000} ELSE {})
Quality(a, b) == IF a = Nil \/ b = Nil THEN Max(Values(a, b)) ELSE Mean(a, b)
Worst(a, b)   == Min(Values(a, b))

\* quality_aware_compare
AdjustedPair(sim, q) == (sim * (920000 + 80 * q)) \div 10000
Asked(t, q, w)   == LET s == 100 * t + 18 * Above(550 - q) + 12 * Above(250 - w) IN IF s > 99000 THEN 99000 ELSE s
Confidence(margin, share) == Between(0, ((50000 + (margin * 100) \div 35) * share) \div 1000, 100000)

Compared(pair, t) ==
  LET q == Quality(pair.a, pair.b)
      w == Worst(pair.a, pair.b)
      margin == AdjustedPair(pair.sim, q) - Asked(t, q, w)
  IN  [passed |-> w >= 120 /\ margin >= 0, score |-> AdjustedPair(pair.sim, q) \div 100, margin |-> margin,
       confidence |-> IF w < 120 THEN 0 ELSE Confidence(margin, 650 + (35 * q) \div 100),
       risk |-> CASE w < 120 -> "quality_unusable"
                  [] w >= 120 /\ (w < 250 \/ q < 350) -> "low_quality"
                  [] w >= 250 /\ q >= 350 /\ margin < 3000 /\ margin > -3000 -> "borderline"
                  [] OTHER -> "clear"]

\* fuse_modalities
Weights == [face |-> 42, body |-> 34, gait |-> 16, appearance |-> 8]
Used(s) == {m \in DOMAIN s : s[m].score # Nil /\ s[m].quality >= 150}
Root(x) == CHOOSE r \in 0..1000 : r * r <= x /\ x < (r + 1) * (r + 1)

Spread(s) ==
  LET n == Cardinality(Used(s))
      mean == MapThenSumSet(LAMBDA m : s[m].score, Used(s)) \div n
  IN  IF n < 2 THEN 0 ELSE Root(MapThenSumSet(LAMBDA m : (s[m].score - mean) * (s[m].score - mean), Used(s)) \div n)
Raw(s) ==
  IF Used(s) = {} THEN 0
  ELSE MapThenSumSet(LAMBDA m : s[m].score * Weights[m] * s[m].quality, Used(s))
         \div MapThenSumSet(LAMBDA m : Weights[m] * s[m].quality, Used(s))

Fused(s, t) ==
  LET agreement == Above(1000 - (Spread(s) * 100) \div 35)
      final == Above(Raw(s) - (Above(Spread(s) - 180) * 35) \div 100)
      margin == 100 * (final - t)
      evidence == Between(0, Cardinality(Used(s)), 2)
  IN  [passed |-> margin >= 0, score |-> final, margin |-> margin,
       confidence |-> (Confidence(margin, 550 + (45 * agreement) \div 100) * evidence) \div 2,
       risk |-> CASE Used(s) = {} -> "insufficient_evidence"
                  [] Used(s) # {} /\ agreement < 500 -> "modality_conflict"
                  [] Used(s) # {} /\ agreement >= 500 /\ margin < 3000 /\ margin > -3000 -> "borderline"
                  [] OTHER -> "clear"]

\* apply_input_independence_to_decision
Copies(d) == IF d = Nil \/ d > 4 THEN "independent" ELSE IF d = 0 THEN "duplicate_input" ELSE "near_duplicate_input"
Judged(v, d) ==
  LET copies == Copies(d)
      share == CASE copies = "duplicate_input" -> 35 [] copies = "near_duplicate_input" -> 65 [] OTHER -> 100
  IN  [v EXCEPT !.confidence = (@ * share) \div 100,
                !.risk = IF share < 100 /\ @ \in {"clear", "borderline"} THEN copies ELSE @]
        @@ [factors |-> ({v.risk, copies} \ {"clear", "independent"})]

-----------------------------------------------------------------------------
Order == <<"face", "body", "appearance", "gait">>
Pending == SelectSeq(Order, LAMBDA m : m \in DOMAIN request.pairs \ DOMAIN scores)

\* v1_compare_faces, v1_compare_persons, one pair of compare_batch_results, v1_compare_gait,
\* whose sequences are not compared with each other's frames.
Compare ==
  /\ verdict = Nil /\ ~request.fused
  /\ \E m \in DOMAIN request.pairs :
       LET c == Compared(request.pairs[m], Thresholds[profile][m]) IN
         verdict' = Judged(c, IF m = "gait" THEN Nil ELSE request.distance)
  /\ UNCHANGED <<request, profile, scores>>

\* v1_fusion_compare takes one modality after the other; gait needs more than a frame.  A quality
\* that is missing counts nothing here (average_quality).
Score ==
  /\ verdict = Nil /\ request.fused /\ Pending # <<>>
  /\ LET m == Head(Pending)
         p == request.pairs[m]
     IN scores' = scores @@ [x \in {m} |->
          IF m = "gait" THEN [score |-> Nil, quality |-> Nil]
          ELSE [score |-> Compared(p, Thresholds[profile][m]).score,
                quality |-> IF p.a = Nil /\ p.b = Nil THEN 0 ELSE Quality(p.a, p.b)]]
  /\ UNCHANGED <<request, profile, verdict>>
Fuse ==
  /\ verdict = Nil /\ request.fused /\ Pending = <<>>
  /\ verdict' = Judged(Fused(scores, Thresholds[profile].fusion), request.distance)
  /\ UNCHANGED <<request, profile, scores>>

CompareNext == Compare \/ Score \/ Fuse
CompareSpec == CompareInit /\ [][CompareNext]_compareVars

-----------------------------------------------------------------------------
(* Properties.                                                             *)
Told   == verdict # Nil
Single == Told /\ ~request.fused

\* A comparison does not depend on which input is the first.
Symmetric ==
  Single => \A m \in DOMAIN request.pairs : LET p == request.pairs[m] IN
    Compared(p, Thresholds[profile][m]) = Compared([p EXCEPT !.a = p.b, !.b = p.a], Thresholds[profile][m])

\* A pair that passes would pass with better images and with more alike ones: no image is
\* made to match by making it worse.
BetterStillPasses ==
  Single /\ verdict.passed => \A m \in DOMAIN request.pairs : LET p == request.pairs[m] IN
    p.sim >= 0 /\ p.a # Nil /\ p.b # Nil =>
      \A a \in {p.a, 600, 1000}, b \in {p.b, 600, 1000}, sim \in {p.sim, p.sim + 30} :
        a >= p.a /\ b >= p.b => Compared([sim |-> sim, a |-> a, b |-> b], Thresholds[profile][m]).passed

\* What is passed is usable and at least as sure as not; nothing that cannot be used is sure, and
\* what is told clear is not near the threshold and not a copy.
RiskIsTold ==
  Told => /\ verdict.risk = "quality_unusable" => ~verdict.passed /\ verdict.confidence = 0
          /\ verdict.risk = "clear" => /\ (verdict.margin >= 3000 \/ verdict.margin <= -3000) /\ verdict.factors = {}
                                       /\ Copies(request.distance) = "independent" \/ "gait" \in DOMAIN request.pairs
          /\ verdict.passed /\ ~request.fused /\ verdict.factors = {} => verdict.confidence >= 37500
          /\ verdict.risk # "clear" => verdict.factors # {}

\* Copies take away confidence and are always told, but no verdict changes for them.
CopiesAreTold ==
  Told /\ "gait" \notin DOMAIN request.pairs => LET copies == Copies(request.distance) IN
    /\ copies # "independent" => copies \in verdict.factors /\ verdict.confidence <= 65000
    /\ request.fused => verdict.passed = Fused(scores, Thresholds[profile].fusion).passed

\* A fused score lies among those it is made of and passes only if one of them would; what has
\* too little quality has no say; and nothing passes without evidence.
FusionIsFair ==
  Told /\ request.fused =>
    LET used == {scores[m].score : m \in Used(scores)}
        t    == Thresholds[profile].fusion
    IN  /\ used # {} => Raw(scores) >= Min(used) - 1 /\ Raw(scores) <= Max(used)
        /\ verdict.passed => used # {} /\ Max(used) >= t
        /\ Fused([m \in Used(scores) |-> scores[m]], t) = Fused(scores, t)
        /\ used = {} => verdict.confidence = 0
        /\ Cardinality(used) = 1 /\ Cardinality(Used(scores)) > 1 => verdict.score = Above(Raw(scores))

VerdictsAreSound == Symmetric /\ BetterStillPasses /\ RiskIsTold /\ CopiesAreTold /\ FusionIsFair
=============================================================================
