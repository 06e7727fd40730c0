---------------------------- MODULE RateLimiter ----------------------------
(***************************************************************************)
(* RateLimitingMiddleware for one address: a token bucket in a map, which  *)
(* a daemon forgets when nobody has asked for it for a minute.  A request  *)
(* gets the bucket under the mutex and takes from it later.  `ideal' is a  *)
(* bucket that is never forgotten.  Time is counted in ticks.              *)
(***************************************************************************)
EXTENDS Naturals

CONSTANTS
  Callers,      \* requests in flight at once
  Buckets,      \* objects: one more than Callers, unused ones are used again
  Speed, Spike, \* tokens per tick, size of the bucket
  Minute,       \* ticks
  NoBucket

\* A bucket nobody uses fills up in a minute (10 tokens at 5 a second).
ASSUME FillsUp ==
  /\ Speed \in Nat \ {0} /\ Spike \in Nat /\ Minute \in Nat
  /\ Spike <= Speed * Minute
ASSUME NoBucketAssumption == NoBucket \notin Buckets

VARIABLES
  current,  \* the bucket in the map
  tokens,   \* bucket -> its tokens
  idle,     \* ticks since lastMsg
  hand,     \* request -> the bucket it got
  ideal,
  \* History, read by no guard:
  excess,   \* the ideal bucket was empty when a request was admitted
  slept     \* a request took so long from getLimiter to Allow that its bucket
            \* was, or could soon be, forgotten

rlvars == <<current, tokens, idle, hand, ideal, excess, slept>>

-----------------------------------------------------------------------------
RlInit ==
  /\ current = NoBucket /\ idle = 0 /\ ideal = Spike
  /\ tokens = [b \in Buckets |-> Spike]
  /\ hand = [c \in Callers |-> NoBucket]
  /\ excess = FALSE /\ slept = FALSE

Fresh == {b \in Buckets \ {current} : \A c \in Callers : hand[c] # b}

\* getLimiter: a new bucket is full.
GetLimiter(c) ==
  /\ hand[c] = NoBucket
  /\ \/ current # NoBucket /\ UNCHANGED <<current, tokens>>
     \/ current = NoBucket /\ \E b \in Fresh :
          current' = b /\ tokens' = [tokens EXCEPT ![b] = Spike]
  /\ hand' = [hand EXCEPT ![c] = current'] /\ idle' = 0
  /\ UNCHANGED <<ideal, excess, slept>>

\* The ticks in which an empty bucket fills up.
Refill == CHOOSE n \in 0..Spike : Speed * n >= Spike /\ \A k \in 0..(n - 1) : Speed * k < Spike

\* Allow.
Allow(c) ==
  /\ hand[c] # NoBucket
  /\ slept' = (slept \/ hand[c] # current \/ idle + Refill > Minute)
  /\ IF tokens[hand[c]] > 0
     THEN /\ tokens' = [tokens EXCEPT ![hand[c]] = tokens[hand[c]] - 1]
          /\ ideal' = IF ideal > 0 THEN ideal - 1 ELSE 0
          /\ excess' = (excess \/ (ideal = 0 /\ ~slept'))
     ELSE UNCHANGED <<tokens, ideal, excess>>
  /\ hand' = [hand EXCEPT ![c] = NoBucket]
  /\ UNCHANGED <<current, idle>>

\* Mutation of Sweep: every bucket is forgotten, used or not.
SweepAll ==
  /\ current # NoBucket /\ current' = NoBucket
  /\ UNCHANGED <<tokens, idle, hand, ideal, excess, slept>>

\* The daemon's round.
Sweep ==
  /\ current # NoBucket /\ idle > Minute
  /\ current' = NoBucket
  /\ UNCHANGED <<tokens, idle, hand, ideal, excess, slept>>

Filled(n) == IF n + Speed > Spike THEN Spike ELSE n + Speed

TickLimiter ==
  /\ idle <= Minute \/ ideal < Spike
  /\ idle' = IF idle <= Minute THEN idle + 1 ELSE idle
  /\ tokens' = [b \in Buckets |-> Filled(tokens[b])] /\ ideal' = Filled(ideal)
  /\ UNCHANGED <<current, hand, excess, slept>>

RlNext ==
  \/ \E c \in Callers : GetLimiter(c) \/ Allow(c)
  \/ Sweep \/ TickLimiter

RlSpec == RlInit /\ [][RlNext]_rlvars

-----------------------------------------------------------------------------
\* Forgetting buckets lets nobody in: whoever is admitted would have been by a
\* bucket that is never forgotten, unless a request was held up for about a
\* minute between getLimiter and Allow.
RateBounded == ~excess
=============================================================================
