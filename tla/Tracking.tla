------------------------------ MODULE Tracking ------------------------------
(***************************************************************************)
(* How persons are followed through a video: the tracks, the solver that   *)
(* gives them the persons of a frame, and what is reported of one track.   *)
(* The three parts share no variable; each has an Init and a Next.         *)
(***************************************************************************)
EXTENDS Integers, FiniteSets, FiniteSetsExt, TLC, Sequences, SequencesExt

-----------------------------------------------------------------------------
(***************************************************************************)
(* The tracks of the persons of a video (associate_person_tracks): frame by *)
(* frame persons are given to the active tracks, sure detections first,     *)
(* what is left of them begins new tracks, and tracks that were not seen    *)
(* for too long end.  After the last frame fragments of one person are      *)
(* merged, and short gaps filled.                                           *)
(*                                                                         *)
(* Boxes and embeddings are left out: which pairs score enough, and which   *)
(* fragments look alike, is any choice; the solvers are below.                *)
(***************************************************************************)

CONSTANTS
  MaxAge,    (* frames a track may miss, also the gap that is filled        *)
  MaxGap,    (* max_fragment_merge_gap                                     *)
  Steps,     (* by how much the frame index may grow                       *)
  MaxHigh, MaxLow, MaxFrame, MaxTracks, (* bounds                          *)
  Nil        (* no value                                                   *)

VARIABLES
  pc,      (* frames, merge or done                                        *)
  frame,   (* the index of the last frame                                  *)
  persons, (* detections: frame, number, whether sure, and the track       *)
  tracks,  (* the tracks: the frames of their observations                 *)
  active,  (* the active tracks                                            *)
  alike,   (* candidates: pairs of fragments, the earlier first            *)
  groups,  (* the fragments that belong together                           *)
  filled   (* the frames that are interpolated, per track                  *)

tracksVars == <<pc, frame, persons, tracks, active, alike, groups, filled>>

First(t) == Min(tracks[t])
LastFrame(t)  == Max(tracks[t])

TracksInit ==
  /\ pc = "frames" /\ frame = 0 /\ persons = {} /\ tracks = <<>> /\ active = {}
  /\ alike = {} /\ groups = {} /\ filled = <<>>

-----------------------------------------------------------------------------
(* A frame.                                                                *)

\* What global_match may return: some of the tracks, each with a person of its own.
Matches(ts, ps) ==
  UNION {{m \in [d -> ps] : \A a, b \in d : a # b => m[a] # m[b]} : d \in SUBSET ts}

Frame ==
  /\ pc = "frames"
  /\ \E step \in Steps, high \in 0..MaxHigh, low \in 0..MaxLow :
       LET f      == frame + step
           sure   == {[frame |-> f, number |-> i, sure |-> TRUE] : i \in 1..high}
           unsure == {[frame |-> f, number |-> i, sure |-> FALSE] : i \in (high + 1)..(high + low)}
           young  == {t \in active : f - LastFrame(t) <= MaxAge}
       IN /\ f <= MaxFrame /\ frame' = f
          /\ \E m \in Matches(young, sure) : \E n \in Matches(young \ DOMAIN m, unsure) :
               LET rest   == sure \ {m[t] : t \in DOMAIN m}
                   known  == Cardinality(DOMAIN tracks)
                   fresh  == [t \in (known + 1)..(known + Cardinality(rest)) |-> {f}]
                   given  == m @@ n
                   seen   == [t \in DOMAIN tracks |-> IF t \in DOMAIN given THEN tracks[t] \cup {f} ELSE tracks[t]]
                   begins == CHOOSE b \in [rest -> DOMAIN fresh] : \A x, y \in rest : x # y => b[x] # b[y]
                   of(x)  == IF x \in rest THEN begins[x]
                             ELSE IF \E t \in DOMAIN given : given[t] = x
                             THEN CHOOSE t \in DOMAIN given : given[t] = x ELSE Nil
               IN /\ known + Cardinality(rest) <= MaxTracks
                  /\ tracks' = seen @@ fresh
                  /\ persons' = persons \cup {x @@ [track |-> of(x)] : x \in sure \cup unsure}
                  /\ active' = {t \in active \cup DOMAIN fresh : f - Max(tracks'[t]) <= MaxAge}
  /\ UNCHANGED <<pc, alike, groups, filled>>

-----------------------------------------------------------------------------
(* Fragments.                                                              *)
Gap(l, r) == First(r) - LastFrame(l) - 1

\* The candidates: fragments one after the other, not too far apart, that look alike.
EndFrames ==
  /\ pc = "frames" /\ tracks # <<>>
  /\ alike' \in SUBSET {p \in (DOMAIN tracks) \X (DOMAIN tracks) :
                          LastFrame(p[1]) < First(p[2]) /\ Gap(p[1], p[2]) <= MaxGap}
  /\ groups' = {{t} : t \in DOMAIN tracks}
  /\ pc' = "merge"
  /\ UNCHANGED <<frame, persons, tracks, active, filled>>

GroupOf(t) == CHOOSE g \in groups : t \in g
Begin(g) == Min({First(t) : t \in g})
End(g)   == Max({LastFrame(t) : t \in g})

\* Mutant: fragments that look alike are merged whenever these have no frame in common.
Apart(g, h) == \E t \in g, s \in h : LastFrame(t) < First(s) \/ LastFrame(s) < First(t)

\* track_groups_are_temporally_compatible
Compatible(g, h) == End(g) < Begin(h) \/ End(h) < Begin(g)

\* One candidate: those with the smallest gaps come first, among these the most alike.
Candidate ==
  /\ pc = "merge"
  /\ \E p \in alike :
       /\ \A q \in alike : Gap(p[1], p[2]) <= Gap(q[1], q[2])
       /\ LET g == GroupOf(p[1])
              h == GroupOf(p[2])
          IN groups' = IF g # h /\ Compatible(g, h) THEN (groups \ {g, h}) \cup {g \cup h} ELSE groups
       /\ alike' = alike \ {p}
  /\ UNCHANGED <<pc, frame, persons, tracks, active, filled>>

\* merge_track_state and rewrite_merged_track_ids: the fragment that begins first keeps its
\* name; and postprocess_tracklets: gaps of up to MaxAge frames are filled.
Primary(g) == CHOOSE t \in g : \A s \in g : First(t) < First(s) \/ (First(t) = First(s) /\ t <= s)
Merged(g)  == UNION {tracks[t] : t \in g}
Fills(obs) ==
  {f \in Min(obs)..Max(obs) :
     \E a, b \in obs : a < f /\ f < b /\ b - a - 1 <= MaxAge /\ \A c \in obs : c <= a \/ b <= c}

Finish ==
  /\ pc = "merge" /\ alike = {}
  /\ persons' = {[x EXCEPT !.track = IF @ = Nil THEN Nil ELSE Primary(GroupOf(@))] : x \in persons}
  /\ tracks' = [t \in {Primary(g) : g \in groups} |-> Merged(GroupOf(t))]
  /\ filled' = [t \in DOMAIN tracks' |-> Fills(tracks'[t])]
  /\ pc' = "done"
  /\ UNCHANGED <<frame, active, alike, groups>>

TracksNext == Frame \/ EndFrames \/ Candidate \/ Finish
TracksSpec == TracksInit /\ [][TracksNext]_tracksVars

-----------------------------------------------------------------------------
TypeOK ==
  /\ pc \in {"frames", "merge", "done"} /\ active \subseteq 1..MaxTracks
  /\ \A t \in DOMAIN tracks : tracks[t] # {} /\ tracks[t] \subseteq 1..MaxFrame

\* A track is one person: it has no two persons in a frame, before and after fragments
\* were merged (global_match, track_groups_are_temporally_compatible).
OnePersonPerFrame ==
  \A x, y \in persons : x # y /\ x.frame = y.frame /\ x.track # Nil => x.track # y.track

\* The observations of a track are the persons that bear its name, and every sure
\* detection bears one (merge_track_state, rewrite_merged_track_ids).
NamesAgree ==
  /\ \A t \in DOMAIN tracks : tracks[t] = {x.frame : x \in {x \in persons : x.track = t}}
  /\ \A x \in persons : x.sure \/ x.track # Nil => x.track \in DOMAIN tracks

\* A track misses no more frames at a time than its age allows, and after the merge no
\* more than fragments may be apart: groups that grow from several candidates included.
GapsAreShort ==
  \A t \in DOMAIN tracks : \A a \in tracks[t] :
    a = Max(tracks[t]) \/ \E b \in tracks[t] : a < b /\ b - a <= (IF pc = "done" THEN Max({MaxAge, MaxGap + 1}) ELSE MaxAge)

\* What is interpolated was not observed and lies in a short gap (postprocess_tracklets).
FilledFits ==
  \A t \in DOMAIN filled : \A f \in filled[t] :
    /\ f \notin tracks[t]
    /\ \E a, b \in tracks[t] : a < f /\ f < b /\ b - a <= MaxAge + 1

TracksAreSound == TypeOK /\ OnePersonPerFrame /\ NamesAgree /\ GapsAreShort /\ FilledFits

-----------------------------------------------------------------------------
(***************************************************************************)
(* The two solvers of tracking_association.global_match, which gives the    *)
(* tracks of a video the persons of the next frame: dynamic programming for *)
(* small frames, and the Hungarian algorithm, whose loops are the actions   *)
(* here, for large ones.  Scores are numbers of units; 0 stands for a pair  *)
(* below the least score, which may not be matched.                         *)
(***************************************************************************)

CONSTANTS
  Tables,  (* scores: functions of a track in 1..m and a person in 1..n     *)
  Infinity (* more than every cost                                         *)

VARIABLES
  score,                       (* the score of each track and person       *)
  row, column,                 (* where the loops are                      *)
  u, v, matching, predecessor, (* as in hungarian_assignment_pairs         *)
  least, reached, loop

assignVars == <<score, row, column, u, v, matching, predecessor, least, reached, loop>>

Tracks  == {p[1] : p \in DOMAIN score}
Detections == {p[2] : p \in DOMAIN score}
Pairs   == {p \in DOMAIN score : score[p] > 0}
Size    == Max({Cardinality(Tracks), Cardinality(Detections)})
Columns == 0..Size
Zeros   == [c \in Columns |-> 0]

AssignInit ==
  /\ score \in Tables /\ Pairs # {}
  /\ row = 1 /\ column = 0 /\ loop = "row"
  /\ u = Zeros /\ v = Zeros /\ matching = Zeros /\ predecessor = Zeros
  /\ least = [c \in Columns |-> Infinity] /\ reached = {}

\* The costs of the square: what is missing costs more than the worst pair.
Best == Max({score[p] : p \in Pairs})
Cost(r, c) == IF <<r, c>> \in Pairs THEN Best - score[<<r, c>>] ELSE Best + 1

NextRow ==
  /\ loop = "row" /\ row <= Size
  /\ matching' = [matching EXCEPT ![0] = row] /\ column' = 0
  /\ least' = [c \in Columns |-> Infinity] /\ reached' = {}
  /\ loop' = "scan"
  /\ UNCHANGED <<score, row, u, v, predecessor>>

\* One turn of the inner loop: the tree of tight pairs grows by a column.
Scan ==
  /\ loop = "scan"
  /\ LET now   == reached \cup {column}
         r     == matching[column]
         free  == Columns \ now
         slack == [c \in free |-> Cost(r, c) - u[r] - v[c]]
         lower == [c \in Columns |-> IF c \in free /\ slack[c] < least[c] THEN slack[c] ELSE least[c]]
         delta == Min({lower[c] : c \in free})
         next  == Min({c \in free : lower[c] = delta})
     IN /\ predecessor' = [c \in Columns |-> IF c \in free /\ slack[c] < least[c] THEN column ELSE predecessor[c]]
        /\ u' = [x \in Columns |-> IF \E c \in now : matching[c] = x THEN u[x] + delta ELSE u[x]]
        /\ v' = [c \in Columns |-> IF c \in now THEN v[c] - delta ELSE v[c]]
        /\ least' = [c \in Columns |-> IF c \in now THEN lower[c] ELSE lower[c] - delta]
        /\ reached' = now /\ column' = next
        /\ loop' = IF matching[next] = 0 THEN "augment" ELSE "scan"
  /\ UNCHANGED <<score, row, matching>>

\* One turn of the loop that goes back along the path to the new row.
Augment ==
  /\ loop = "augment"
  /\ LET back == predecessor[column]
     IN /\ matching' = [matching EXCEPT ![column] = matching[back]]
        /\ column' = back
        /\ IF back = 0 THEN row' = row + 1 /\ loop' = "row" ELSE UNCHANGED <<row, loop>>
  /\ UNCHANGED <<score, u, v, predecessor, least, reached>>

AssignNext == NextRow \/ Scan \/ Augment
AssignSpec == AssignInit /\ [][AssignNext]_assignVars

\* The pairs that the algorithm returns.
Result == {p \in Pairs : matching[p[2]] = p[1]}

-----------------------------------------------------------------------------
(* Dynamic programming over the tracks and the set of persons given away.  *)
Earlier(a, b) ==
  \E i \in 1..Len(a) : /\ \A j \in 1..(i - 1) : a[j] = b[j]
                       /\ a[i][1] < b[i][1] \/ (a[i][1] = b[i][1] /\ a[i][2] < b[i][2])
Better(a, b) ==
  \/ a.score > b.score
  \/ a.score = b.score /\ Len(a.pairs) > Len(b.pairs)
  \/ a.score = b.score /\ Len(a.pairs) = Len(b.pairs) /\ Earlier(a.pairs, b.pairs)

Solved ==
  LET solve[i \in 1..(Cardinality(Tracks) + 1), given \in SUBSET Detections] ==
        IF i \notin Tracks THEN [score |-> 0, pairs |-> <<>>]
        ELSE LET with(d) == LET rest == solve[i + 1, given \cup {d}]
                            IN [score |-> score[<<i, d>>] + rest.score, pairs |-> << <<i, d>> >> \o rest.pairs]
             IN FoldLeft(LAMBDA best, d : IF d \in given \/ <<i, d>> \notin Pairs \/ ~Better(with(d), best)
                                          THEN best ELSE with(d),
                         solve[i + 1, given], [d \in 1..Cardinality(Detections) |-> d])
  IN solve[1, {}]

-----------------------------------------------------------------------------
(* What is to be computed.                                                 *)
IsMatching(M) == \A p, q \in M : p # q => p[1] # q[1] /\ p[2] # q[2]
Matchings == {M \in SUBSET Pairs : IsMatching(M)}
Total(M)  == FoldSet(LAMBDA p, n : n + score[p], 0, M)

\* The potentials never exceed a cost, and what is matched is tight: the reason why the
\* matching is best in the end (hungarian_assignment_pairs).
Potentials ==
  /\ \A r \in 1..Size, c \in 1..Size : u[r] + v[c] <= Cost(r, c)
  /\ loop = "row" => \A c \in 1..Size : matching[c] # 0 => u[matching[c]] + v[c] = Cost(matching[c], c)

\* The Hungarian algorithm finds pairs of distinct tracks and persons, and none have more
\* score, when every pair counts for one unit more than its score: that is what a missing
\* pair costs.
HungarianIsBest ==
  loop = "row" /\ row > Size =>
    /\ IsMatching(Result)
    /\ \A M \in Matchings : Total(M) + Cardinality(M) <= Total(Result) + Cardinality(Result)

\* Dynamic programming finds the pairs with the greatest score, the most of them when two
\* have it, and the first of these.
ProgramIsBest ==
  loop = "row" /\ row = 1 =>
    LET found == Range(Solved.pairs)
    IN /\ found \in Matchings /\ Solved.score = Total(found)
       /\ \A M \in Matchings : \/ Total(M) < Total(found)
                               \/ Total(M) = Total(found) /\ Cardinality(M) <= Cardinality(found)
       /\ \A M \in Matchings : Total(M) = Total(found) /\ Cardinality(M) = Cardinality(found) /\ M # found =>
            Earlier(Solved.pairs, SetToSortSeq(M, LAMBDA p, q : p[1] < q[1]))

MatchesAreBest == Potentials /\ HungarianIsBest /\ ProgramIsBest

-----------------------------------------------------------------------------
(***************************************************************************)
(* What is reported of a track (TrackState, portrait_tracking_metrics):     *)
(* each person matched to it leaves a sample of its embedding and how the   *)
(* match was judged; the report weighs the samples into one template, so    *)
(* that a sample that disagrees with the others counts less, and counts the  *)
(* risks of the matches.                                                    *)
(*                                                                         *)
(* An embedding is a number, its look, and Agreement says how much two       *)
(* looks agree, in twentieths.  Shares are percents, weights thousandths     *)
(* that are rounded down; percentiles and confidences are left out.          *)
(***************************************************************************)

CONSTANTS
  Hits,      (* [look or Nil, good, usable: of the sample; geometry,      *)
                (* motion, appearance or Nil, minimum: of the match]         *)
  Agreement(_, _),
  MaxHits      (* bound on the persons of a track                           *)

VARIABLES
  hits,      (* the number of persons, each in a frame of its own            *)
  samples,   (* embedding_samples                                            *)
  decisions  (* association_decisions                                        *)

reportVars == <<hits, samples, decisions>>

-----------------------------------------------------------------------------
(* How a match is judged.                                                  *)

\* association_score, in ten thousandths, and what it is above the minimum.
Score(p) == IF p.appearance = Nil THEN 74 * p.geometry + 26 * p.motion
            ELSE 42 * p.geometry + 16 * p.motion + 42 * p.appearance
Margin(p) == Score(p) - 100 * p.minimum

\* association_decision: the first that fits.
Risk(p) ==
  CASE Margin(p) < 300 -> "borderline"
    [] p.appearance # Nil /\ p.appearance < 45 /\ p.geometry < 50 -> "appearance_conflict"
    [] p.appearance # Nil /\ p.appearance >= 86 /\ p.geometry < 5 -> "appearance_rescue"
    [] p.appearance = Nil /\ p.geometry < 5 -> "motion_only"
    [] (p.appearance = Nil \/ p.appearance < 72) /\ p.geometry < 15 -> "weak_support"
    [] OTHER -> "clear"

\* association_quality_summary: the risk that most matches have, a risk before none.
Rank == <<"clear", "appearance_conflict", "appearance_rescue", "borderline", "motion_only", "weak_support">>
RiskCount(r) == Cardinality({i \in DOMAIN decisions : decisions[i].risk = r})
Dominant ==
  IF decisions = <<>> THEN "new_or_singleton"
  ELSE Rank[CHOOSE i \in DOMAIN Rank : \A j \in DOMAIN Rank \ {i} :
              RiskCount(Rank[i]) > RiskCount(Rank[j]) \/ (RiskCount(Rank[i]) = RiskCount(Rank[j]) /\ i > j)]
Risky == Len(decisions) - RiskCount("clear")

-----------------------------------------------------------------------------
(* A person of the track.                                                  *)
Sample(p, f) == [look |-> p.look, good |-> p.good, usable |-> p.usable, frame |-> f]

\* A new track has no match behind it; update takes a match that scored enough.
FirstHit ==
  /\ hits = 0
  /\ \E p \in Hits :
       /\ hits' = 1 /\ decisions' = <<>>
       /\ samples' = IF p.look = Nil THEN <<>> ELSE << Sample(p, 1) >>
NextHit ==
  /\ hits \in 1..(MaxHits - 1)
  /\ \E p \in Hits :
       /\ Margin(p) >= 0
       /\ hits' = hits + 1
       /\ decisions' = Append(decisions, [risk |-> Risk(p), person |-> p])
       /\ samples' = IF p.look = Nil THEN samples ELSE Append(samples, Sample(p, hits + 1))

ReportInit == hits = 0 /\ samples = <<>> /\ decisions = <<>>
ReportNext == FirstHit \/ NextHit
ReportSpec == ReportInit /\ [][ReportNext]_reportVars

-----------------------------------------------------------------------------
(* The template (aggregate_track_template).                                *)
N == Len(samples)
All == 1..N

\* Quality, confidence and what is usable of the crop; later samples count a little more.
BaseWeight(i) ==
  LET s == samples[i]
      value == 180 + (IF s.good THEN 350 + (IF s.usable THEN 470 ELSE 341) ELSE 0)
      span  == samples[N].frame - samples[1].frame
      recency == IF span = 0 THEN 200 ELSE 170 + (30 * (s.frame - samples[1].frame)) \div span
  IN value * recency

\* How much a sample agrees with the others, in twentieths times their number.
Consensus(i) == MapThenSumSet(LAMBDA j : Agreement(samples[i].look, samples[j].look), All \ {i})
Half == 20 * (N - 1)

\* Twice the median, and the spread, times the number of samples and squared.
Median2 == LET c == SortSeq([i \in All |-> Consensus(i)], <)
           IN c[(N + 1) \div 2] + c[(N + 2) \div 2]
Spread2 == N * MapThenSumSet(LAMBDA i : Consensus(i) * Consensus(i), All)
             - MapThenSumSet(Consensus, All) * MapThenSumSet(Consensus, All)

\* Below one half, or below the median by a tenth and by 0.6 of the spread.
BelowFloor(i) ==
  LET below == Median2 - 2 * Consensus(i)
  IN \/ 2 * Consensus(i) < Half
     \/ below > 4 * (N - 1) /\ 25 * below * below * N * N > 36 * Spread2

Outlier(i) == N >= 3 /\ BelowFloor(i)
Factor(i) == IF N = 1 THEN 1000 ELSE IF Outlier(i) THEN 80
             ELSE 160 + (840 * Consensus(i) * Consensus(i)) \div (Half * Half)
Weight(i) == BaseWeight(i) * Factor(i)
Outliers == {i \in All : Outlier(i)}

-----------------------------------------------------------------------------
(* Properties.                                                             *)

ReportTypeOK ==
  /\ hits \in 0..MaxHits /\ N <= hits /\ Len(decisions) <= hits
  /\ \A i \in All : samples[i].frame \in 1..hits /\ (i > 1 => samples[i - 1].frame < samples[i].frame)

\* At most half of the samples are outliers, unless the median sample itself agrees with
\* the others less than by half; and no sample weighs nothing, so that there is always a
\* template (aggregate_track_template).
OutliersAreFew ==
  /\ N > 0 /\ (N >= 3 => Median2 >= Half) => 2 * Cardinality(Outliers) <= N
  /\ \A i \in All : Weight(i) > 0

\* When all samples of three or more but one look the same, the odd one does not prevail,
\* however good it is and however poor the others are.
OddOneIsOverruled ==
  \A i \in All :
    N >= 3 /\ Cardinality({samples[j].look : j \in All \ {i}}) = 1 /\ (\A j \in All \ {i} : samples[j].look # samples[i].look)
      => Weight(i) < MapThenSumSet(Weight, All \ {i})

\* What counts as clear overlaps the track or looks like it, and the report calls a track
\* clear only when more matches were clear than had any one risk (association_decision,
\* association_quality_summary).
RisksAreTold ==
  /\ \A i \in DOMAIN decisions : decisions[i].risk = "clear" =>
       LET p == decisions[i].person
       IN /\ p.geometry >= 15 \/ (p.appearance # Nil /\ p.appearance >= 72)
          /\ p.appearance = Nil \/ p.appearance >= 45 \/ p.geometry >= 50
  /\ Dominant = "clear" => \A r \in Range(Rank) \ {"clear"} : RiskCount(r) < RiskCount("clear")
  /\ Dominant = "new_or_singleton" => Risky = 0

ReportIsSound == ReportTypeOK /\ OutliersAreFew /\ OddOneIsOverruled /\ RisksAreTold
=============================================================================
