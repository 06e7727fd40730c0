--------------------------- MODULE MCChatService ---------------------------
(* Two users, with two ids for their private chat or a group they share.   *)
EXTENDS ChatService, TLC

CONSTANTS c1, c2, g1, u1, u2, t1, p1, p2

KindHere == [c \in Chats |-> IF c = g1 THEN "groups" ELSE "chats"]
MembersHere == [c \in Chats |-> {u1, u2}]
AdminHere == [c \in Chats |-> u1]

\* The users are alike where there is no group, and so no admin who matters.
PairSymmetry == Permutations(Handlers) \union Permutations(Chats) \union Permutations(Users)
GroupSymmetry == Permutations(Handlers)
=============================================================================
