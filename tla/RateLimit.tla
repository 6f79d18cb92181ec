------------------------------ MODULE RateLimit ------------------------------
(***************************************************************************)
(* The rate limit of a process (rate_limit): a bucket of tokens for each    *)
(* caller and path, filled by the wall clock, which may be set.  A table    *)
(* that is full takes no new callers, and buckets that were long idle go.   *)
(* The check runs on the event loop, so that nothing comes in between.      *)
(*                                                                         *)
(* A token is Minute units, of which a limit of n a minute gives n a second.*)
(***************************************************************************)
EXTENDS Integers, Sequences, FiniteSets, FiniteSetsExt

CONSTANTS
  Keys,       (* callers and paths                                          *)
  Scenes,     (* [settings, policies, jumps]: RATE_LIMIT_* as [rate, burst,  *)
              (* ttl, buckets]; the policies that a key may have, as        *)
              (* [rate, burst], 0 where they say nothing; and by how much   *)
              (* the clock may be set                                       *)
  Minute,     (* seconds of a minute                                        *)
  MaxTime, MaxAsks, (* bounds: seconds, requests of a caller                *)
  Nil

VARIABLES
  scene, policy,    (* the settings, and the policy of each key              *)
  bucket,           (* BUCKETS: [tokens, at], or Nil                        *)
  cleaned,          (* LAST_CLEANUP_AT                                      *)
  clock, time,      (* the wall clock, and the time that really passed       *)
  told,             (* [why, again]: who was refused, and when to come back  *)
  admitted, asked,  (* when a caller was admitted under its policy, how often it asked *)
  gift              (* units that a clock set forward, or a bucket that went, gave *)

vars == <<scene, policy, bucket, cleaned, clock, time, told, admitted, asked, gift>>

-----------------------------------------------------------------------------
settings == scene.settings

\* request_rate_limits: a policy that gives a rate and no burst has the rate for its burst.
Rate(k)  == IF policy[k].rate > 0 THEN policy[k].rate ELSE settings.rate
Burst(k) ==
  CASE policy[k].burst > 0 -> policy[k].burst
    [] policy[k].rate > 0 -> policy[k].rate
    [] settings.burst > 0 -> settings.burst
    [] OTHER -> settings.rate

\* retry_after_seconds: rounded up, at least one.
RetryAfter(tokens, rate) ==
  LET needed == Minute - tokens
      up == (needed + rate - 1) \div rate
  IN IF up > 1 THEN up ELSE 1

\* cleanup_idle_buckets: at most once in a minute, or in the time to live if that is shorter.
CleanupIsDue == settings.ttl > 0 /\ clock - cleaned >= Min({settings.ttl, Minute})
Idle(b, t) == b # Nil /\ b.at < t - settings.ttl
Kept == [k \in Keys |-> IF CleanupIsDue /\ Idle(bucket[k], clock) THEN Nil ELSE bucket[k]]

\* ensure_bucket_capacity cleans up again, which does nothing so soon after the first.
Full(b) == settings.buckets > 0 /\ Cardinality({k \in Keys : b[k] # Nil}) >= settings.buckets

\* What a bucket has now.
Filled(b, k, at) ==
  LET gained == IF at > b.at THEN (at - b.at) * Rate(k) ELSE 0
  IN Min({Burst(k) * Minute, b.tokens + gained})

\* A bucket that goes gives its caller what it had not yet earned.
Forgiven(k) == gift[k] + Burst(k) * Minute - Filled(bucket[k], k, clock)

\* A bucket that is used, be it in vain, stays: nothing holds of the places of others.
Moved(q) == IF told[q] # Nil /\ told[q].why = "full" THEN Nil ELSE told[q]

\* What came of the request of k with the buckets b of the table.
Refuse(k, b, why, after) ==
  /\ bucket' = b
  /\ told' = [q \in Keys |-> IF q = k THEN [why |-> why, again |-> clock + after]
                            ELSE IF why = "spent" THEN Moved(q) ELSE told[q]]
  /\ UNCHANGED admitted

Admit(k, b) ==
  /\ bucket' = b
  /\ told' = [q \in Keys |-> IF q = k THEN Nil ELSE Moved(q)]
  /\ admitted' = [admitted EXCEPT ![k] = Append(@, time)]

\* check_rate_limit
Check(k) ==
  LET old    == IF Kept[k] = Nil THEN [tokens |-> Burst(k) * Minute, at |-> clock] ELSE Kept[k]
      tokens == Filled(old, k, clock)
      with(n) == [Kept EXCEPT ![k] = [tokens |-> n, at |-> clock]]
  IN
  /\ asked[k] < MaxAsks /\ asked' = [asked EXCEPT ![k] = @ + 1]
  /\ IF Rate(k) <= 0 THEN UNCHANGED <<bucket, cleaned, told, admitted, gift>>
     ELSE /\ cleaned' = IF CleanupIsDue THEN clock ELSE cleaned
          /\ gift' = [q \in Keys |-> IF Kept[q] # bucket[q] THEN Forgiven(q) ELSE gift[q]]
          /\ \/ Kept[k] = Nil /\ Full(Kept) /\ Refuse(k, Kept, "full", Max({1, settings.ttl}))
             \/ ~(Kept[k] = Nil /\ Full(Kept)) /\ tokens < Minute /\ Refuse(k, with(tokens), "spent", RetryAfter(tokens, Rate(k)))
             \/ ~(Kept[k] = Nil /\ Full(Kept)) /\ tokens >= Minute /\ Admit(k, with(tokens - Minute))
  /\ UNCHANGED <<scene, policy, clock, time>>

Tick ==
  /\ time < MaxTime /\ time' = time + 1 /\ clock' = clock + 1
  /\ UNCHANGED <<scene, policy, bucket, cleaned, told, admitted, asked, gift>>

\* The clock of the machine is set, once.
SetClock ==
  /\ clock = time
  /\ \E d \in scene.jumps :
       /\ clock' = clock + d
       /\ gift' = [k \in Keys |-> IF d > 0 THEN gift[k] + d * Rate(k) ELSE gift[k]]
  /\ told' = [k \in Keys |-> Nil]
  /\ UNCHANGED <<scene, policy, bucket, cleaned, time, admitted, asked>>

\* The policy of an application is changed.
SetPolicy(k) ==
  /\ policy' \in {[policy EXCEPT ![k] = p] : p \in scene.policies[k] \ {policy[k]}}
  /\ told' = [told EXCEPT ![k] = Nil] /\ admitted' = [admitted EXCEPT ![k] = <<>>]
  /\ gift' = [gift EXCEPT ![k] = 0]
  /\ UNCHANGED <<scene, bucket, cleaned, clock, time, asked>>

Init ==
  /\ scene \in Scenes /\ policy \in [Keys -> UNION {scene.policies[k] : k \in Keys}]
  /\ \A k \in Keys : policy[k] \in scene.policies[k]
  /\ bucket = [k \in Keys |-> Nil] /\ cleaned = -100 /\ clock = 0 /\ time = 0
  /\ told = [k \in Keys |-> Nil] /\ admitted = [k \in Keys |-> <<>>]
  /\ asked = [k \in Keys |-> 0] /\ gift = [k \in Keys |-> 0]

Next == Tick \/ SetClock \/ \E k \in Keys : Check(k) \/ SetPolicy(k)
Spec == Init /\ [][Next]_vars

-----------------------------------------------------------------------------
(* Properties.                                                             *)

\* In no stretch of time are more admitted than the burst and what that time gives, apart
\* from what a clock set forward and forgotten buckets gave.
NoMoreThanAllowed ==
  \A k \in Keys : \A i, j \in DOMAIN admitted[k] : i < j =>
    (j - i + 1) * Minute <= Burst(k) * Minute + (admitted[k][j] - admitted[k][i]) * Rate(k) + gift[k]

\* Who comes back when told finds a token, or, if the table was full, a place a moment later,
\* unless others were admitted in between or the clock was set back.
ToldTrue ==
  \A k \in Keys : told[k] # Nil =>
    IF told[k].why = "spent" THEN bucket[k] = Nil \/ Filled(bucket[k], k, told[k].again) >= Minute
    ELSE settings.ttl > 0 /\ clock >= time =>
           /\ told[k].again + 1 - cleaned >= Min({settings.ttl, Minute})
           /\ Cardinality({q \in Keys : bucket[q] # Nil /\ ~Idle(bucket[q], told[k].again + 1)}) < settings.buckets

\* The table has no more buckets than it may.
TableIsBounded == settings.buckets <= 0 \/ Cardinality({k \in Keys : bucket[k] # Nil}) <= settings.buckets

RatesHold == NoMoreThanAllowed /\ ToldTrue /\ TableIsBounded
=============================================================================
