------------------------------ MODULE Friendship ------------------------------
(* What friends-service promises about two users: they become friends only *)
(* when the one agrees to what the other still asks, and friends part only *)
(* by parting; a request that is withdrawn or answered too late does not   *)
(* touch a friendship.                                                     *)
CONSTANT Users

VARIABLES
  friends,    \* the pairs {u, v} of friends
  asked       \* <<u, v>>: u asks v, who has not answered

Init == friends = {} /\ asked = {}

Ask(u, v) ==
  /\ u # v
  /\ asked' = asked \union {<<u, v>>}
  /\ UNCHANGED friends

Agree(u, v) ==
  /\ <<u, v>> \in asked
  /\ friends' = friends \union {{u, v}}
  /\ asked' = asked \ {<<u, v>>}

Withdraw(u, v) ==
  /\ asked' = asked \ {<<u, v>>}
  /\ UNCHANGED friends

Part(u, v) ==
  /\ friends' = friends \ {{u, v}}
  /\ UNCHANGED asked

Next == \E u, v \in Users : Ask(u, v) \/ Agree(u, v) \/ Withdraw(u, v) \/ Part(u, v)

Spec == Init /\ [][Next]_<<friends, asked>>
===============================================================================
