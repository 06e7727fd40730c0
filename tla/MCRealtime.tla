----------------------------- MODULE MCRealtime -----------------------------
(* Two users with a session each, one of whom talks and calls, while one   *)
(* HTTP request is handled; and, apart from them, a client that starts     *)
(* while two users befriend each other.  `part' says which of the two an *)
(* execution is about; the variables of the other stay as they began.      *)
EXTENDS Realtime, InitClient, TLC

CONSTANTS a, b, s1, s2, q1, q2, m1

VARIABLE part

MCUserOf == s1 :> a @@ s2 :> b

MCInit == RtInit /\ LoadInit /\ part \in {"sessions", "load"}

MCNext ==
  \/ part = "sessions" /\ RtNext /\ UNCHANGED <<loadvars, part>>
  \/ part = "load" /\ LoadNext /\ UNCHANGED <<rtvars, part>>

MCSpec == MCInit /\ [][MCNext]_<<rtvars, loadvars, part>> /\ RtFairness

Typing == \E s \in Sessions : h[s].doing = "typing"

\* Clients do one thing: they talk, they call, they type or they make the second
\* of the requests; and one of the sessions stays open.
Small ==
  /\ spent \intersect Messages # {} => Ring \notin spent
  /\ Typing => spent \subseteq {Chat} /\ \A q \in Requests : h[q].at = "idle"
  /\ h[q2] # Idle => spent \subseteq {Chat} /\ h[q1] # Idle /\ ~Typing
  /\ \E s \in Sessions : ses[s].conn \in {"none", "open"}
=============================================================================
