------------------------------ MODULE MCParts ------------------------------
(* Four small parts that share nothing: accounts, the files of a user, the *)
(* legacy server's voice rooms and its estimate of packet loss.  `part'    *)
(* says which of them an execution is about.                               *)
EXTENDS Accounts, Files, UdpRooms, PacketLoss, TLC

CONSTANTS r1, r2, r3, l1, anna, Anna, olga, e1, e2, e3, w1, w2,
          a1, a2, f1, m1, m2, d1, d2, v1, x, y, c1, c2, c3, p1, p2, ann, bob

VARIABLE part

\* Two names that differ in case only and a third; r1 and r2 may want the
\* same name or the same address.
MCForms ==
  { [name |-> anna, email |-> e1, phone |-> e1, password |-> w1],
    [name |-> Anna, email |-> e2, phone |-> e2, password |-> w2],
    [name |-> anna, email |-> e3, phone |-> e3, password |-> w2],
    [name |-> olga, email |-> e1, phone |-> e3, password |-> w1] }
MCFolded(n) == IF n = Anna THEN anna ELSE n

\* Two connections from one address, and one from another.
MCAddrOf == [c \in {c1, c2, c3} |-> IF c = c3 THEN p2 ELSE p1]

MCInit ==
  /\ AcInit /\ FlInit /\ RmInit /\ PlInit
  /\ part \in {"accounts", "files", "rooms", "loss"}
MCNext ==
  \/ part = "accounts" /\ AcNext /\ UNCHANGED <<flvars, rmvars, plvars, part>>
  \/ part = "files" /\ FlNext /\ UNCHANGED <<acvars, rmvars, plvars, part>>
  \/ part = "rooms" /\ RmNext /\ UNCHANGED <<acvars, flvars, plvars, part>>
  \/ part = "loss" /\ PlNext /\ UNCHANGED <<acvars, flvars, rmvars, part>>
MCSpec == MCInit /\ [][MCNext]_<<acvars, flvars, rmvars, plvars, part>>

\* Each permutes a pair of one part and a pair of another alike.
Alike(a, b, m, n) ==
  {a :> a @@ b :> b @@ m :> m @@ n :> n, a :> b @@ b :> a @@ m :> n @@ n :> m}
MCSymmetry ==
  { f @@ g @@ k : f \in Alike(a1, a2, x, y), g \in Alike(m1, m2, c1, c2),
                  k \in Alike(d1, d2, ann, bob) }
=============================================================================
