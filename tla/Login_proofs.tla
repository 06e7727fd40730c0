---------------------------- MODULE Login_proofs ----------------------------
(***************************************************************************)
(* What stands between a request and its handler, for any limits and any   *)
(* number of requests at once: how many guesses a window admits and that a *)
(* lock has its grounds, that no token is honoured long after its          *)
(* lifetime, and that the limiter admits nobody by forgetting.             *)
(***************************************************************************)
EXTENDS LoginAttempts, Tokens, RateLimiter, FiniteSetTheorems, WellFoundedInduction, TLAPS

-----------------------------------------------------------------------------
(* Attempts.                                                               *)

LaTypeOK ==
  /\ fails \in Nat
  /\ attempt \in [Attempts -> {"idle", "counted", "open", "refund"}]
  /\ mine \in SUBSET Attempts
  /\ \A p \in mine : attempt[p] \in {"counted", "refund"}
  /\ wrong \in Nat /\ lost \in Nat /\ stray \in Nat /\ grounds \in Nat

\* What was counted in the present window and not taken back.
Standing == wrong + lost + Cardinality(mine)

\* The counter is what stands, less the refunds that were not due.
CounterCounts == fails <= Standing /\ Standing <= fails + stray

LaInv == LaTypeOK /\ CounterCounts /\ fails <= MaxAttempts /\ LockJustified

LEMMA Sizes ==
  ASSUME NEW S \in SUBSET Attempts
  PROVE  /\ IsFiniteSet(S) /\ Cardinality(S) \in Nat
         /\ \A p \in Attempts :
              /\ Cardinality(S \cup {p}) = IF p \in S THEN Cardinality(S) ELSE Cardinality(S) + 1
              /\ Cardinality(S \ {p}) = IF p \in S THEN Cardinality(S) - 1 ELSE Cardinality(S)
<1>1. IsFiniteSet(S)
  BY AttemptsAssumption, FS_Subset
<1> QED
  BY <1>1, FS_CardinalityType, FS_AddElement, FS_RemoveElement

LEMMA LaInitInv == LaInit => LaInv
  BY LimitsAssumption, FS_EmptySet
     DEF LaInit, LaInv, LaTypeOK, CounterCounts, Standing, LockJustified

\* Setting a lock: more than the limit stands.
LEMMA SetLockInv ==
  ASSUME LaInv, SetLock, fails >= MaxAttempts,
         attempt' \in [Attempts -> {"idle", "counted", "open", "refund"}]
  PROVE  LaInv'
<1>1. Cardinality(mine) \in Nat /\ Cardinality({}) = 0
  BY Sizes, FS_EmptySet DEF LaInv, LaTypeOK
<1>2. grounds' \in Nat /\ grounds' > MaxAttempts
  BY <1>1, LimitsAssumption
     DEF SetLock, LaInv, LaTypeOK, CounterCounts, Standing
<1> QED
  BY <1>1, <1>2, LimitsAssumption
     DEF SetLock, Forget, LaInv, LaTypeOK, CounterCounts, Standing, LockJustified

LEMMA AdmitInv ==
  ASSUME LaInv, NEW p \in Attempts, Admit(p)
  PROVE  LaInv'
<1>1. p \notin mine /\ mine' \in SUBSET Attempts
  BY DEF LaInv, LaTypeOK, Admit
<1>2. Cardinality(mine) \in Nat /\ Cardinality(mine') = Cardinality(mine) + 1
  BY <1>1, Sizes DEF LaInv, LaTypeOK, Admit
<1> QED
  BY <1>1, <1>2, LimitsAssumption
     DEF Admit, Count, LaInv, LaTypeOK, CounterCounts, Standing, LockJustified

LEMMA FailOpenInv ==
  ASSUME LaInv, NEW p \in Attempts, FailOpen(p)
  PROVE  LaInv'
<1>1. /\ attempt' \in [Attempts -> {"idle", "counted", "open", "refund"}]
      /\ p \notin mine /\ \A q \in mine : attempt'[q] \in {"counted", "refund"}
  BY DEF FailOpen, LaInv, LaTypeOK
<1>2. Cardinality(mine) \in Nat
  BY Sizes DEF LaInv, LaTypeOK
<1>3. CASE UNCHANGED <<lock, fails, window, strikes, strikeTtl, mine, wrong, lost, stray, grounds>>
  BY <1>1, <1>3 DEF LaInv, LaTypeOK, CounterCounts, Standing, LockJustified
<1>4. CASE lock = 0 /\ fails < MaxAttempts /\ Count /\ lost' = lost + 1 /\ UNCHANGED mine
  BY <1>1, <1>2, <1>4, LimitsAssumption
     DEF Count, LaInv, LaTypeOK, CounterCounts, Standing, LockJustified
<1>5. CASE lock = 0 /\ fails >= MaxAttempts /\ SetLock
  BY <1>1, <1>5, SetLockInv
<1> QED
  BY <1>3, <1>4, <1>5 DEF FailOpen

\* An attempt of the window that ends, as a guess or without a refund, stands.
LEMMA EndInv ==
  ASSUME LaInv, NEW p \in Attempts, Unauthorized(p) \/ Panics(p) \/ RefundFails(p)
  PROVE  LaInv'
<1>1. /\ attempt' \in [Attempts -> {"idle", "counted", "open", "refund"}]
      /\ mine' = mine \ {p} /\ \A q \in mine' : attempt'[q] \in {"counted", "refund"}
      /\ UNCHANGED <<lock, fails, stray, grounds>>
  BY DEF Unauthorized, Panics, RefundFails, Rest, LaInv, LaTypeOK
<1>2. wrong \in Nat /\ lost \in Nat /\ wrong' \in Nat /\ lost' \in Nat
  BY DEF Unauthorized, Panics, RefundFails, Rest, LaInv, LaTypeOK
<1>3. Cardinality(mine) \in Nat /\ Cardinality(mine') \in Nat
  BY <1>1, Sizes DEF LaInv, LaTypeOK
<1>4. CASE p \in mine
  <2>1. Cardinality(mine') = Cardinality(mine) - 1
    BY <1>1, <1>4, Sizes DEF LaInv, LaTypeOK
  <2>2. \/ wrong' = wrong + 1 /\ lost' = lost
        \/ wrong' = wrong /\ lost' = lost + 1
    BY <1>4 DEF Unauthorized, Panics, RefundFails, Rest, LaInv, LaTypeOK
  <2>3. Standing' = Standing
    BY <1>2, <1>3, <2>1, <2>2 DEF Standing
  <2> QED
    BY <1>1, <1>2, <2>3 DEF LaInv, LaTypeOK, CounterCounts, LockJustified
<1>5. CASE p \notin mine
  <2>1. UNCHANGED <<mine, wrong, lost>>
    BY <1>1, <1>5 DEF Unauthorized, Panics, RefundFails, Rest, LaInv, LaTypeOK
  <2> QED
    BY <1>1, <2>1 DEF LaInv, LaTypeOK, CounterCounts, Standing, LockJustified
<1> QED
  BY <1>4, <1>5

LEMMA AnsweredInv ==
  ASSUME LaInv, NEW p \in Attempts, Answered(p)
  PROVE  LaInv'
  BY DEF Answered, Rest, LaInv, LaTypeOK, CounterCounts, Standing, LockJustified

\* A refund lowers what stands with the counter, or is noted as stray.
LEMMA RefundInv ==
  ASSUME LaInv, NEW p \in Attempts, Refund(p)
  PROVE  LaInv'
<1>1. /\ attempt' \in [Attempts -> {"idle", "counted", "open", "refund"}]
      /\ mine' = mine \ {p} /\ \A q \in mine' : attempt'[q] \in {"counted", "refund"}
  BY DEF Refund, LaInv, LaTypeOK
<1>2. /\ Cardinality(mine) \in Nat /\ Cardinality(mine') \in Nat
      /\ Cardinality(mine') = IF p \in mine THEN Cardinality(mine) - 1 ELSE Cardinality(mine)
  BY <1>1, Sizes DEF LaInv, LaTypeOK
<1> QED
  BY <1>1, <1>2, LimitsAssumption
     DEF Refund, LaInv, LaTypeOK, CounterCounts, Standing, LockJustified

LEMMA TickInv ==
  ASSUME LaInv, Tick
  PROVE  LaInv'
<1>1. lock' > 0 => lock > 0
  BY DEF Tick, Less
<1>2. CASE window = 1
  BY <1>1, <1>2, FS_EmptySet, LimitsAssumption
     DEF Tick, Forget, LaInv, LaTypeOK, CounterCounts, Standing, LockJustified
<1>3. CASE window # 1
  BY <1>1, <1>3 DEF Tick, LaInv, LaTypeOK, CounterCounts, Standing, LockJustified
<1> QED
  BY <1>2, <1>3

LEMMA LaInvariance == LaSpec => []LaInv
<1>1. LaInv /\ [LaNext]_lavars => LaInv'
  <2> SUFFICES ASSUME LaInv, [LaNext]_lavars PROVE LaInv'
    OBVIOUS
  <2>1. ASSUME NEW p \in Attempts, Lock(p)
        PROVE  LaInv'
    BY <2>1, SetLockInv DEF Lock, LaInv, LaTypeOK
  <2>2. ASSUME NEW p \in Attempts, Reject(p)
        PROVE  LaInv'
    BY <2>2 DEF Reject, lavars, LaInv, LaTypeOK, CounterCounts, Standing, LockJustified
  <2>3. CASE UNCHANGED lavars
    BY <2>3 DEF lavars, LaInv, LaTypeOK, CounterCounts, Standing, LockJustified
  <2> QED
    BY <2>1, <2>2, <2>3, AdmitInv, FailOpenInv, EndInv, AnsweredInv, RefundInv, TickInv DEF LaNext
<1> QED
  BY <1>1, LaInitInv, PTL DEF LaSpec

\* However many attempts run at once, and whenever their refunds come, a
\* window answers at most MaxAttempts of them with 401, and one more for each
\* refund of an earlier window's attempt.
THEOREM GuessesAreBounded == LaSpec => []GuessesBounded
<1>1. LaInv => GuessesBounded
  <2> SUFFICES ASSUME LaInv PROVE GuessesBounded
    OBVIOUS
  <2>1. Cardinality(mine) \in Nat
    BY Sizes DEF LaInv, LaTypeOK
  <2> QED
    BY <2>1, LimitsAssumption DEF LaInv, LaTypeOK, CounterCounts, Standing, GuessesBounded
<1> QED
  BY <1>1, LaInvariance, PTL

\* A lock is set only on more than MaxAttempts attempts of one window that
\* were wrong, unanswered or not taken back.
THEOREM LocksAreJustified == LaSpec => []LockJustified
<1>1. LaInv => LockJustified
  BY DEF LaInv
<1> QED
  BY <1>1, LaInvariance, PTL

-----------------------------------------------------------------------------
(* Tokens.                                                                 *)

\* How long beyond its lifetime an entry may keep a token good.
Grace == IF server = "auth" THEN TokenCacheTTL ELSE 0

TkTypeOK ==
  /\ server \in {"auth", "legacy"}
  /\ age \in Nat /\ entry \in Int /\ honoured \in Nat
  /\ check \in [Validations -> {"idle", "parse", "keep"}]
  /\ ttl \in [Validations -> Int] /\ lag \in [Validations -> Nat]

\* The entry, and one about to be made, end in time.
EntryEnds == entry > 0 => age + entry <= Lifetime + MaxLag + Grace

KeepEnds ==
  \A v \in Validations : check[v] = "keep" =>
    /\ lag[v] <= MaxLag
    /\ age - lag[v] < Lifetime
    /\ age - lag[v] + ttl[v] <= Lifetime + Grace

TkInv == TkTypeOK /\ EntryEnds /\ KeepEnds /\ HonouredWithinTTL

LEMMA TkInitInv == TkInit => TkInv
  BY TimesAssumption
     DEF TkInit, TkInv, TkTypeOK, EntryEnds, KeepEnds, HonouredWithinTTL, Grace

\* An entry of positive life outlives nothing when it is used.
LEMMA HonourInTime ==
  ASSUME TkTypeOK, HonouredWithinTTL, age < Lifetime + MaxLag + Grace, Honour,
         UNCHANGED server
  PROVE  honoured' \in Nat /\ HonouredWithinTTL'
  BY TimesAssumption DEF TkTypeOK, HonouredWithinTTL, Grace, Honour

LEMMA CheckInv ==
  ASSUME TkInv, NEW v \in Validations, Check(v)
  PROVE  TkInv'
<1> USE TimesAssumption DEF TkInv
<1>1. CASE Hit(v)
  <2>1. age < Lifetime + MaxLag + Grace
    BY <1>1 DEF Hit, EntryEnds, TkTypeOK, Grace
  <2>2. honoured' \in Nat /\ HonouredWithinTTL'
    BY <1>1, <2>1, HonourInTime DEF Hit
  <2> QED
    BY <1>1, <2>2 DEF Hit, TkTypeOK, EntryEnds, KeepEnds, Grace
<1>2. CASE Miss(v)
  BY <1>2 DEF Miss, TkTypeOK, EntryEnds, KeepEnds, HonouredWithinTTL, Grace
<1>3. CASE Parse(v)
  <2>1. EntryTTL \in Int /\ (age < Lifetime => age + EntryTTL <= Lifetime + Grace)
    BY DEF EntryTTL, TkTypeOK, Grace
  <2>2. TkTypeOK'
    BY <1>3, <2>1 DEF Parse, TkTypeOK
  <2>3. KeepEnds'
    <3> SUFFICES ASSUME NEW w \in Validations, check'[w] = "keep"
                 PROVE  /\ lag'[w] <= MaxLag /\ age' - lag'[w] < Lifetime
                        /\ age' - lag'[w] + ttl'[w] <= Lifetime + Grace'
      BY DEF KeepEnds
    <3>1. Grace' = Grace
      BY <1>3 DEF Parse, Grace
    <3>2. CASE w = v
      <4>1. age < Lifetime /\ lag'[w] = 0 /\ ttl'[w] = EntryTTL /\ age' = age
        BY <1>3, <3>2 DEF Parse, TkTypeOK
      <4> QED
        BY <2>1, <3>1, <4>1 DEF TkTypeOK
    <3>3. CASE w # v
      BY <1>3, <3>1, <3>3 DEF Parse, TkTypeOK, KeepEnds
    <3> QED
      BY <3>2, <3>3
  <2> QED
    BY <1>3, <2>2, <2>3 DEF Parse, EntryEnds, HonouredWithinTTL, Grace
<1>4. CASE Keep(v)
  <2>1. /\ lag[v] <= MaxLag /\ age - lag[v] < Lifetime
        /\ age - lag[v] + ttl[v] <= Lifetime + Grace
        /\ lag[v] \in Nat /\ ttl[v] \in Int /\ age \in Nat /\ Grace \in Nat
    BY <1>4 DEF Keep, KeepEnds, TkTypeOK, Grace
  <2>2. age < Lifetime + MaxLag + Grace /\ age + ttl[v] <= Lifetime + MaxLag + Grace
    BY <2>1
  <2>3. honoured' \in Nat /\ HonouredWithinTTL'
    BY <1>4, <2>2, HonourInTime DEF Keep
  <2>4. EntryEnds'
    BY <1>4, <2>2 DEF Keep, EntryEnds, Grace
  <2> QED
    BY <1>4, <2>1, <2>3, <2>4 DEF Keep, TkTypeOK, KeepEnds, Grace
<1> QED
  BY <1>1, <1>2, <1>3, <1>4 DEF Check

LEMMA PassInv ==
  ASSUME TkInv, Pass
  PROVE  TkInv'
<1> USE TimesAssumption DEF TkInv
<1>1. TkTypeOK'
  BY DEF Pass, TkTypeOK
<1>2. EntryEnds'
  BY DEF Pass, TkTypeOK, EntryEnds, Grace
<1>3. KeepEnds'
  BY DEF Pass, TkTypeOK, KeepEnds, Grace
<1> QED
  BY <1>1, <1>2, <1>3 DEF Pass, HonouredWithinTTL

\* A token is never honoured longer than the cache keeps it beyond its
\* lifetime, and a call takes: ValidateToken and JWTMiddleware.
THEOREM HonouredInTime == TkSpec => []HonouredWithinTTL
<1>1. TkInv /\ [TkNext]_tkvars => TkInv'
  <2> SUFFICES ASSUME TkInv, [TkNext]_tkvars PROVE TkInv'
    OBVIOUS
  <2>1. CASE TkNext
    BY <2>1, CheckInv, PassInv DEF TkNext, ValidateToken, JWTMiddleware
  <2>2. CASE UNCHANGED tkvars
    BY <2>2 DEF tkvars, TkInv, TkTypeOK, EntryEnds, KeepEnds, HonouredWithinTTL, Grace
  <2> QED
    BY <2>1, <2>2
<1>2. TkInv => HonouredWithinTTL
  BY DEF TkInv
<1> QED
  BY <1>1, <1>2, TkInitInv, PTL DEF TkSpec

-----------------------------------------------------------------------------
(* The limiter.                                                            *)

\* Every nonempty set of numbers has a smallest one.
LEMMA SmallestNumber ==
  ASSUME NEW T, T \subseteq Nat, T # {}
  PROVE  \E x \in T : \A y \in T : x <= y
<1> DEFINE R == OpToRel(<, Nat)
<1>1. IsWellFoundedOn(R, Nat)
  BY NatLessThanWellFounded
<1>2. \A x, y \in Nat : x < y => <<x, y>> \in R
  BY DEF OpToRel
<1> HIDE DEF R
<1>3. PICK x \in T : \A y \in T : ~ (<<y, x>> \in R)
  BY <1>1, WFMin
<1>4. ASSUME NEW y \in T PROVE x <= y
  <2>1. ~ (y < x)
    BY <1>2, <1>3
  <2> QED
    BY <2>1
<1> QED
  BY <1>4

LEMMA Product ==
  ASSUME NEW a \in Nat, NEW b \in Nat, b >= 1
  PROVE  a * b \in Nat /\ a * b >= a /\ a * (b - 1) = a * b - a
<1>1. PICK k \in Nat : b = k + 1
  BY b - 1 \in Nat
<1> QED
  BY <1>1

\* Refill is what its name says, and no more than a minute.
LEMMA RefillFills ==
  /\ Refill \in Nat /\ Speed * Refill >= Spike /\ Refill <= Minute
<1> USE FillsUp
<1> DEFINE T == {n \in Nat : Speed * n >= Spike}
<1>1. Speed * Spike >= Spike
  BY Product
<1>2. Spike \in T /\ Minute \in T
  BY <1>1
<1>3. PICK m \in T : \A k \in T : m <= k
  BY <1>2, SmallestNumber
<1>4. m \in 0..Spike /\ Speed * m >= Spike /\ m <= Minute
  BY <1>2, <1>3
<1>5. ASSUME NEW k \in 0..(m - 1) PROVE Speed * k < Spike
  <2>1. k \in Nat /\ k < m /\ k \notin T
    BY <1>3, <1>4
  <2>2. Speed * k \in Nat
    BY <2>1
  <2> QED
    BY <2>1, <2>2
<1>6. ASSUME NEW n \in 0..Spike, Speed * n >= Spike, \A k \in 0..(n - 1) : Speed * k < Spike
      PROVE  n = m
  <2>1. n \in T /\ m <= n
    BY <1>3, <1>6
  <2>2. ~ (m < n)
    <3> SUFFICES ASSUME m < n PROVE FALSE
      OBVIOUS
    <3>1. m \in 0..(n - 1)
      BY <1>4
    <3>2. Speed * m \in Nat
      BY <1>4
    <3> QED
      BY <1>4, <1>6, <3>1, <3>2
  <2> QED
    BY <1>4, <2>1, <2>2
<1>7. Refill = m
  <2>1. /\ m \in 0..Spike
        /\ Speed * m >= Spike /\ \A k \in 0..(m - 1) : Speed * k < Spike
    BY <1>4, <1>5
  <2>2. \A n \in 0..Spike :
          Speed * n >= Spike /\ (\A k \in 0..(n - 1) : Speed * k < Spike) => n = m
    BY <1>6
  <2> QED
    BY <2>1, <2>2, Zenon DEF Refill
<1> QED
  BY <1>4, <1>7

RlTypeOK ==
  /\ current \in Buckets \cup {NoBucket} /\ idle \in Nat
  /\ tokens \in [Buckets -> 0..Spike]
  /\ hand \in [Callers -> Buckets \cup {NoBucket}]
  /\ ideal \in 0..Spike
  /\ excess \in BOOLEAN /\ slept \in BOOLEAN

\* The ticks that the bucket in the map has certainly gone without a request.
Rested == idle + Refill - Minute

\* Until a request has slept, the bucket in the map never holds more than one
\* that is not forgotten; that one is full while there is none in the map, and
\* fills up before one can be forgotten.
BucketCovered ==
  /\ current # NoBucket => tokens[current] <= ideal
  /\ current = NoBucket => ideal = Spike
  /\ Rested > 0 => ideal = Spike \/ ideal >= Speed * Rested

RlInv == RlTypeOK /\ (slept \/ BucketCovered) /\ RateBounded

\* A bucket that has rested for its refill is full.
LEMMA RestedIsFull ==
  ASSUME RlTypeOK, BucketCovered, idle > Minute
  PROVE  ideal = Spike
<1> USE FillsUp, RefillFills
<1>1. Rested \in Nat /\ Rested >= 1 /\ Rested - Refill \in Nat
  BY DEF RlTypeOK, Rested
<1>2. Speed * Rested = Speed * Refill + Speed * (Rested - Refill)
  BY <1>1
<1>3. Speed * (Rested - Refill) \in Nat /\ Speed * Refill \in Nat
  BY <1>1
<1> QED
  BY <1>1, <1>2, <1>3 DEF RlTypeOK, BucketCovered

LEMMA GetLimiterInv ==
  ASSUME RlInv, NEW c \in Callers, GetLimiter(c)
  PROVE  RlInv'
<1> USE FillsUp, RefillFills, NoBucketAssumption
<1>1. /\ hand' = [hand EXCEPT ![c] = current'] /\ idle' = 0
      /\ UNCHANGED <<ideal, excess, slept>>
      /\ \/ current # NoBucket /\ UNCHANGED <<current, tokens>>
         \/ /\ current = NoBucket /\ current' \in Buckets
            /\ tokens' = [tokens EXCEPT ![current'] = Spike]
  BY DEF GetLimiter, Fresh
<1>2. RlTypeOK'
  BY <1>1 DEF RlInv, RlTypeOK
<1>3. ASSUME ~slept PROVE BucketCovered'
  <2>1. ~ (Rested' > 0)
    BY <1>1 DEF Rested
  <2>2. current' # NoBucket /\ tokens'[current'] <= ideal'
    BY <1>1, <1>3 DEF RlInv, RlTypeOK, BucketCovered
  <2> QED
    BY <2>1, <2>2 DEF BucketCovered
<1> QED
  BY <1>1, <1>2, <1>3 DEF RlInv, RateBounded

LEMMA AllowInv ==
  ASSUME RlInv, NEW c \in Callers, Allow(c)
  PROVE  RlInv'
<1> USE FillsUp, RefillFills, NoBucketAssumption
<1>1. /\ hand[c] \in Buckets
      /\ hand' = [hand EXCEPT ![c] = NoBucket] /\ UNCHANGED <<current, idle>>
  BY DEF Allow, RlInv, RlTypeOK
<1>2. slept' \in BOOLEAN /\ (~slept' => ~slept /\ hand[c] = current /\ ~ (idle + Refill > Minute))
  BY DEF Allow
<1>3. CASE tokens[hand[c]] > 0
  <2>1. /\ tokens' = [tokens EXCEPT ![hand[c]] = tokens[hand[c]] - 1]
        /\ ideal' = IF ideal > 0 THEN ideal - 1 ELSE 0
        /\ excess' = (excess \/ (ideal = 0 /\ ~slept'))
    BY <1>3 DEF Allow
  <2>2. tokens[hand[c]] \in 0..Spike /\ tokens[hand[c]] - 1 \in 0..Spike
    BY <1>1, <1>3 DEF RlInv, RlTypeOK
  <2>3. tokens' \in [Buckets -> 0..Spike]
    BY <1>1, <2>1, <2>2 DEF RlInv, RlTypeOK
  <2>4. RlTypeOK'
    BY <1>1, <1>2, <2>1, <2>3 DEF RlInv, RlTypeOK
  <2>5. ASSUME ~slept' PROVE BucketCovered' /\ ~excess'
    <3>1. tokens[hand[c]] <= ideal /\ hand[c] = current /\ ~excess /\ current \in Buckets
      BY <1>1, <1>2, <2>5 DEF RlInv, BucketCovered, RateBounded
    <3>2. ideal' = ideal - 1 /\ ideal > 0 /\ ~excess'
      BY <1>3, <2>1, <2>2, <3>1 DEF RlInv, RlTypeOK
    <3>3. current' # NoBucket /\ tokens'[current'] <= ideal'
      BY <1>1, <2>1, <2>2, <3>1, <3>2 DEF RlInv, RlTypeOK
    <3>4. ~ (Rested' > 0)
      BY <1>1, <1>2, <2>5 DEF Rested, RlInv, RlTypeOK
    <3> QED
      BY <3>2, <3>3, <3>4 DEF BucketCovered
  <2>6. ~excess'
    BY <1>2, <2>1, <2>5 DEF RlInv, RateBounded
  <2> QED
    BY <2>4, <2>5, <2>6 DEF RlInv, RateBounded
<1>4. CASE ~ (tokens[hand[c]] > 0)
  <2>1. UNCHANGED <<tokens, ideal, excess>>
    BY <1>4 DEF Allow
  <2> QED
    BY <1>1, <1>2, <2>1 DEF RlInv, RlTypeOK, BucketCovered, Rested, RateBounded
<1> QED
  BY <1>3, <1>4

LEMMA SweepInv ==
  ASSUME RlInv, Sweep
  PROVE  RlInv'
<1>1. /\ idle > Minute /\ current' = NoBucket
      /\ UNCHANGED <<tokens, idle, hand, ideal, excess, slept>>
  BY DEF Sweep
<1>2. RlTypeOK'
  BY <1>1 DEF RlInv, RlTypeOK
<1>3. ASSUME ~slept PROVE BucketCovered'
  BY <1>1, <1>3, RestedIsFull DEF RlInv, BucketCovered
<1> QED
  BY <1>1, <1>2, <1>3 DEF RlInv, RateBounded

LEMMA FilledIs ==
  ASSUME NEW n \in 0..Spike
  PROVE  /\ Filled(n) \in 0..Spike /\ Filled(n) >= n
         /\ Filled(n) = Spike \/ Filled(n) = n + Speed
  BY FillsUp DEF Filled

LEMMA TickLimiterInv ==
  ASSUME RlInv, TickLimiter
  PROVE  RlInv'
<1> USE FillsUp, RefillFills
<1>1. /\ tokens' = [b \in Buckets |-> Filled(tokens[b])] /\ ideal' = Filled(ideal)
      /\ UNCHANGED <<current, hand, excess, slept>>
      /\ idle' = IF idle <= Minute THEN idle + 1 ELSE idle
  BY DEF TickLimiter
<1>2. RlTypeOK'
  BY <1>1, FilledIs DEF RlInv, RlTypeOK
<1>3. ASSUME ~slept PROVE BucketCovered'
  <2>1. RlTypeOK /\ BucketCovered
    BY <1>3 DEF RlInv
  <2>2. current' # NoBucket => tokens'[current'] <= ideal'
    <3> SUFFICES ASSUME current # NoBucket PROVE Filled(tokens[current]) <= Filled(ideal)
      BY <1>1, <2>1 DEF RlTypeOK
    <3>1. tokens[current] \in 0..Spike /\ ideal \in 0..Spike /\ tokens[current] <= ideal
      BY <2>1 DEF RlTypeOK, BucketCovered
    <3> QED
      BY <3>1 DEF Filled
  <2>3. ideal = Spike => ideal' = Spike
    BY <1>1 DEF Filled
  <2>4. Rested' > 0 => ideal' = Spike \/ ideal' >= Speed * Rested'
    <3>1. CASE idle > Minute
      BY <2>1, <2>3, <3>1, RestedIsFull
    <3>2. CASE idle <= Minute
      <4>1. Rested' = Rested + 1 /\ Rested \in Int
        BY <1>1, <2>1, <3>2 DEF Rested, RlTypeOK
      <4>2. ideal \in 0..Spike /\ (ideal' = Spike \/ ideal' = ideal + Speed)
        BY <1>1, <2>1, FilledIs DEF RlTypeOK
      <4>3. CASE Rested > 0
        <5>1. Speed * Rested' = Speed * Rested + Speed /\ Speed * Rested \in Nat
          BY <4>1, <4>3
        <5>2. ideal = Spike \/ ideal >= Speed * Rested
          BY <2>1, <4>3 DEF BucketCovered
        <5> QED
          BY <2>3, <4>2, <5>1, <5>2
      <4>4. CASE Rested = 0
        <5>1. Speed * Rested' = Speed
          BY <4>1, <4>4
        <5> QED
          BY <4>2, <5>1
      <4>5. CASE Rested < 0
        BY <4>1, <4>5
      <4> QED
        BY <4>1, <4>3, <4>4, <4>5
    <3> QED
      BY <2>1, <3>1, <3>2 DEF RlTypeOK
  <2> QED
    BY <1>1, <2>1, <2>2, <2>3, <2>4 DEF BucketCovered
<1> QED
  BY <1>1, <1>2, <1>3 DEF RlInv, RateBounded

\* For any speed, size and number of requests at once: whoever the limiter
\* admits would have been admitted by a bucket that is never forgotten, unless
\* a request was held up for about a minute.
THEOREM RatesAreBounded == RlSpec => []RateBounded
<1>1. RlInit => RlInv
  <2> SUFFICES ASSUME RlInit PROVE RlInv
    OBVIOUS
  <2>1. RlTypeOK
    <3>1. Spike \in 0..Spike
      BY FillsUp
    <3> QED
      BY <3>1 DEF RlInit, RlTypeOK
  <2>2. ~ (Rested > 0)
    BY FillsUp, RefillFills DEF RlInit, Rested
  <2> QED
    BY <2>1, <2>2 DEF RlInit, RlInv, BucketCovered, RateBounded
<1>2. RlInv /\ [RlNext]_rlvars => RlInv'
  <2> SUFFICES ASSUME RlInv, [RlNext]_rlvars PROVE RlInv'
    OBVIOUS
  <2>1. CASE UNCHANGED rlvars
    BY <2>1 DEF rlvars, RlInv, RlTypeOK, BucketCovered, Rested, RateBounded
  <2> QED
    BY <2>1, GetLimiterInv, AllowInv, SweepInv, TickLimiterInv DEF RlNext
<1>3. RlInv => RateBounded
  BY DEF RlInv
<1> QED
  BY <1>1, <1>2, <1>3, PTL DEF RlSpec
=============================================================================
