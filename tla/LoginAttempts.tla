--------------------------- MODULE LoginAttempts ---------------------------
(***************************************************************************)
(* AttemptsMiddleware in front of HandleLogin, for one address and user    *)
(* name: a Lua script, which Redis runs as one step, counts the attempt or *)
(* rejects it; the login is tried; and an attempt that was not answered    *)
(* with 401 is taken back by a second script.  In between the counter may  *)
(* expire or be deleted, and Redis may fail, in which case the attempt is  *)
(* let through.  Time is counted in ticks.                                 *)
(***************************************************************************)
EXTENDS Naturals, FiniteSets

CONSTANTS
  Attempts,      \* requests in flight at once
  MaxAttempts, FailWindow, BaseCooldown, MaxCooldown, StrikeTTL,   \* loginCfg
  MaxStrikes     \* bound: from here on every cooldown is MaxCooldown

ASSUME LimitsAssumption ==
  /\ MaxAttempts \in Nat /\ MaxStrikes \in Nat
  /\ FailWindow \in Nat \ {0} /\ BaseCooldown \in Nat \ {0}
  /\ MaxCooldown \in Nat \ {0} /\ StrikeTTL \in Nat \ {0}
ASSUME AttemptsAssumption == IsFiniteSet(Attempts)

VARIABLES
  lock,      \* ticks the key :lock still lives, 0 when there is none
  fails,     \* value of the key :fails, 0 when there is none
  window,    \* ticks it still lives
  strikes, strikeTtl,   \* value and life of the key :strikes
  attempt,   \* what a request is at
  \* History, read by no guard:
  mine,      \* requests counted in the present window that are not answered
  wrong,     \* attempts of the present window that were answered with 401
  lost,      \* attempts of the present window that no refund will take back
  stray,     \* refunds of other windows' attempts taken from the present one
  grounds    \* the attempts counted when the lock was set

lavars == <<lock, fails, window, strikes, strikeTtl, attempt, mine, wrong, lost, stray, grounds>>

-----------------------------------------------------------------------------
LaInit ==
  /\ lock = 0 /\ fails = 0 /\ window = 0 /\ strikes = 0 /\ strikeTtl = 0
  /\ attempt = [p \in Attempts |-> "idle"]
  /\ mine = {} /\ wrong = 0 /\ lost = 0 /\ stray = 0 /\ grounds = 0

\* A window ends: nothing that was counted is remembered.
Forget == mine' = {} /\ wrong' = 0 /\ lost' = 0 /\ stray' = 0

Cooldown(n) ==
  LET c == BaseCooldown * 2 ^ (n - 1) IN IF c > MaxCooldown THEN MaxCooldown ELSE c

\* One more than the limit: each strike doubles the cooldown, and the window
\* ends.
SetLock ==
  LET n == IF strikes < MaxStrikes THEN strikes + 1 ELSE MaxStrikes IN
  /\ strikes' = n /\ strikeTtl' = StrikeTTL
  /\ lock' = Cooldown(n) /\ fails' = 0 /\ window' = 0
  /\ grounds' = wrong + lost + Cardinality(mine) + 1
  /\ Forget

\* INCR; a counter that begins, or has no life, gets one.
Count ==
  /\ fails' = fails + 1
  /\ window' = IF fails = 0 THEN FailWindow ELSE window
  /\ UNCHANGED <<lock, strikes, strikeTtl, wrong, stray, grounds>>

\* The attempt is counted and goes on to HandleLogin.
Admit(p) ==
  /\ attempt[p] = "idle" /\ lock = 0 /\ fails < MaxAttempts
  /\ Count
  /\ attempt' = [attempt EXCEPT ![p] = "counted"]
  /\ mine' = mine \union {p} /\ UNCHANGED lost

\* Mutation of Lock: the last attempt that is free already locks.
LockEarly(p) ==
  /\ attempt[p] = "idle" /\ lock = 0 /\ fails + 1 >= MaxAttempts
  /\ SetLock /\ UNCHANGED attempt

\* One attempt too many sets the lock and is answered with 429.
Lock(p) ==
  /\ attempt[p] = "idle" /\ lock = 0 /\ fails >= MaxAttempts
  /\ SetLock /\ UNCHANGED attempt

\* Mutation of Reject: every rejected attempt sets the lock anew.
RejectAndRenew(p) ==
  /\ attempt[p] = "idle" /\ lock > 0
  /\ lock' = MaxCooldown
  /\ UNCHANGED <<fails, window, strikes, strikeTtl, attempt, mine, wrong, lost, stray, grounds>>

\* While the lock lives an attempt is answered with 429 and changes nothing.
Reject(p) ==
  /\ attempt[p] = "idle" /\ lock > 0
  /\ UNCHANGED lavars

\* Redis fails, or its answer does not come within 300 ms although the script
\* has run: the attempt goes on and will not be taken back.
FailOpen(p) ==
  /\ attempt[p] = "idle"
  /\ attempt' = [attempt EXCEPT ![p] = "open"]
  /\ \/ UNCHANGED <<lock, fails, window, strikes, strikeTtl, mine, wrong, lost, stray, grounds>>
     \/ lock = 0 /\ fails < MaxAttempts /\ Count /\ lost' = lost + 1 /\ UNCHANGED mine
     \/ lock = 0 /\ fails >= MaxAttempts /\ SetLock

-----------------------------------------------------------------------------
(* HandleLogin answers.                                                    *)

Rest == UNCHANGED <<lock, fails, window, strikes, strikeTtl, stray, grounds>>

\* 401: an unknown name, a wrong password, or a service that fails.
Unauthorized(p) ==
  /\ attempt[p] \in {"counted", "open"}
  /\ attempt' = [attempt EXCEPT ![p] = "idle"]
  /\ wrong' = IF p \in mine THEN wrong + 1 ELSE wrong
  /\ mine' = mine \ {p}
  /\ UNCHANGED lost /\ Rest

\* Any other answer: the token, or an error in the request.
Answered(p) ==
  /\ attempt[p] \in {"counted", "open"}
  /\ attempt' = [attempt EXCEPT ![p] = IF attempt[p] = "counted" THEN "refund" ELSE "idle"]
  /\ UNCHANGED <<mine, wrong, lost>> /\ Rest

\* HandleLogin panics, and RecoveryMiddleware answers: there is no refund.
Panics(p) ==
  /\ attempt[p] = "counted"
  /\ attempt' = [attempt EXCEPT ![p] = "idle"]
  /\ lost' = IF p \in mine THEN lost + 1 ELSE lost
  /\ mine' = mine \ {p}
  /\ UNCHANGED wrong /\ Rest

\* Mutation of Refund: the attempt is taken back twice, as by a retry.
RefundTwice(p) ==
  /\ attempt[p] = "refund"
  /\ attempt' = [attempt EXCEPT ![p] = "idle"]
  /\ fails' = IF fails > 2 THEN fails - 2 ELSE 0
  /\ stray' = IF fails > 0 /\ p \notin mine THEN stray + 1 ELSE stray
  /\ mine' = mine \ {p}
  /\ UNCHANGED <<lock, window, strikes, strikeTtl, wrong, lost, grounds>>

\* The refund script: a counter above 0 is lowered, whoever raised it.
Refund(p) ==
  /\ attempt[p] = "refund"
  /\ attempt' = [attempt EXCEPT ![p] = "idle"]
  /\ fails' = IF fails > 0 THEN fails - 1 ELSE 0
  /\ stray' = IF fails > 0 /\ p \notin mine THEN stray + 1 ELSE stray
  /\ mine' = mine \ {p}
  /\ UNCHANGED <<lock, window, strikes, strikeTtl, wrong, lost, grounds>>

RefundFails(p) ==
  /\ attempt[p] = "refund"
  /\ attempt' = [attempt EXCEPT ![p] = "idle"]
  /\ lost' = IF p \in mine THEN lost + 1 ELSE lost
  /\ mine' = mine \ {p}
  /\ UNCHANGED wrong /\ Rest

-----------------------------------------------------------------------------
Less(n) == IF n > 0 THEN n - 1 ELSE 0

\* Redis lets keys expire.
Tick ==
  /\ lock > 0 \/ window > 0 \/ strikeTtl > 0
  /\ lock' = Less(lock) /\ window' = Less(window) /\ strikeTtl' = Less(strikeTtl)
  /\ strikes' = IF strikeTtl <= 1 THEN 0 ELSE strikes
  /\ IF window = 1 THEN fails' = 0 /\ Forget ELSE UNCHANGED <<fails, mine, wrong, lost, stray>>
  /\ UNCHANGED <<attempt, grounds>>

LaNext ==
  \/ \E p \in Attempts :
       \/ Admit(p) \/ Lock(p) \/ Reject(p) \/ FailOpen(p)
       \/ Unauthorized(p) \/ Answered(p) \/ Panics(p) \/ Refund(p) \/ RefundFails(p)
  \/ Tick

\* Time passes.
LaSpec == LaInit /\ [][LaNext]_lavars /\ WF_lavars(Tick)

-----------------------------------------------------------------------------
(* Properties.                                                             *)

\* Of the attempts counted in one window at most MaxAttempts are answered with
\* 401, however many run at once: the limit gives way only to refunds of
\* attempts of an earlier window, one for one.
GuessesBounded == wrong <= MaxAttempts + stray

\* Who is locked out has used up the window: more than MaxAttempts attempts of
\* it were wrong, still unanswered, or could not be taken back.  Logins that
\* succeeded and were taken back never lock.
LockJustified == lock > 0 => grounds > MaxAttempts

\* A lock ends although attempts go on: rejected ones do not prolong it.
LockEnds == lock > 0 ~> lock = 0
=============================================================================
