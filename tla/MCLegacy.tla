------------------------------ MODULE MCLegacy ------------------------------
(* The legacy server's hub, store of messages and friend requests share    *)
(* nothing here; `part' says which of them an execution is about.  The hub *)
(* is run with two sessions of one user, and with a session of each of two *)
(* users.                                                                  *)
EXTENDS LegacyHub, LegacyStore, LegacyFriends, TLC

CONSTANTS s1, s2, s3, q1, ann, bob, p1, p2

VARIABLE part

MCOwner == s1 :> ann @@ s2 :> ann @@ s3 :> bob @@ q1 :> bob

MCInit ==
  /\ HubInit /\ StInit /\ LfInit
  /\ part \in {"reconnect", "pair", "store", "friends"}
MCNext ==
  \/ part = "reconnect" /\ HubNext /\ UNCHANGED <<go[s3], stvars, lfvars, part>>
  \/ part = "pair" /\ HubNext /\ UNCHANGED <<go[s2], stvars, lfvars, part>>
  \/ part = "store" /\ StNext /\ UNCHANGED <<hubvars, lfvars, part>>
  \/ part = "friends" /\ LfNext /\ UNCHANGED <<hubvars, stvars, part>>
MCSpec == MCInit /\ [][MCNext]_<<hubvars, stvars, lfvars, part>> /\ HubFairness
=============================================================================
