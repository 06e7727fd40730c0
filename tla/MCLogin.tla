------------------------------- MODULE MCLogin -------------------------------
(* What stands between a request and its handler: the attempts of a login, *)
(* the validation of a token, the rate of an address.  They share nothing; *)
(* `part' says which of them an execution is about.                        *)
EXTENDS LoginAttempts, Tokens, RateLimiter, TLC

CONSTANTS p1, p2, p3, v1, v2, c1, c2, c3, b1, b2, b3, b4

VARIABLE part

MCInit == LaInit /\ TkInit /\ RlInit /\ part \in {"attempts", "tokens", "limiter"}

MCNext ==
  \/ part = "attempts" /\ LaNext /\ UNCHANGED <<tkvars, rlvars, part>>
  \/ part = "tokens" /\ TkNext /\ UNCHANGED <<lavars, rlvars, part>>
  \/ part = "limiter" /\ RlNext /\ UNCHANGED <<lavars, tkvars, part>>

MCSpec == MCInit /\ [][MCNext]_<<lavars, tkvars, rlvars, part>> /\ WF_lavars(Tick)
=============================================================================
