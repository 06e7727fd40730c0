---------------------------- MODULE MCMessaging ----------------------------
(* A small messaging service: one chat, a text and two files under one key. *)
EXTENDS Messaging, TLC

CONSTANTS t1, f1, f2, c1, k1, p1, p2

MCMsgs == {t1, f1, f2}
MCChatOf == [m \in MCMsgs |-> c1]
MCFiles == {f1, f2}
MCKeyOf == [m \in MCFiles |-> k1]
Symmetry == Permutations({p1, p2}) \union Permutations(MCFiles)
=============================================================================
