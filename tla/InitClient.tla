----------------------------- MODULE InitClient -----------------------------
(***************************************************************************)
(* The gateway over friends-service: the friend handlers, each one call of *)
(* the service, which keeps what Friendship promises, and /init_client,    *)
(* which collects what a client needs at its start by five calls, one      *)
(* after the other and in no transaction, while others change the tables.  *)
(***************************************************************************)
EXTENDS Friendship

CONSTANT Me   \* the user whose client starts

VARIABLES
  at,       \* the list handlerInit reads next, or how it ended
  seen,     \* list -> the users in it
  \* History, read by no guard:
  short,    \* a list broke off without an error
  steady,   \* users who left no list since, but to become friends
  agreed    \* users who became friends since the friends were read

loadvars == <<friends, asked, at, seen, short, steady, agreed>>

-----------------------------------------------------------------------------
Lists == {"friends", "requests", "sent"}

\* GetFriends, GetFriendRequests and GetSentRequests of the service.
Stored(l) ==
  CASE l = "friends"  -> {v \in Users \ {Me} : {Me, v} \in friends}
    [] l = "requests" -> {v \in Users : <<v, Me>> \in asked}
    [] l = "sent"     -> {v \in Users : <<Me, v>> \in asked}

Related == UNION {Stored(l) : l \in Lists}

LoadInit ==
  /\ Init
  /\ at = "done" /\ seen = [l \in Lists |-> {}]
  /\ short = FALSE /\ steady = {} /\ agreed = {}

Track ==
  steady' = {v \in steady : \A l \in Lists :
               v \in Stored(l) => v \in Stored(l)' \/ v \in Stored("friends")'}

-----------------------------------------------------------------------------
(* The handlers of friends.go: the name is looked up where the client sends*)
(* one, then the service is called; a call that fails changes nothing.     *)

Keeps == UNCHANGED <<at, seen, short>> /\ Track

SendFriendRequest(u, v) == Ask(u, v) /\ Keeps /\ UNCHANGED agreed

AcceptFriendRequest(u, v) ==
  /\ Agree(u, v) /\ Keeps
  /\ agreed' = IF Me \in {u, v} THEN agreed \union ({u, v} \ {Me}) ELSE agreed

DeclineFriendRequest(u, v) == Withdraw(u, v) /\ Keeps /\ UNCHANGED agreed

CancelFriendRequest(u, v) == Withdraw(u, v) /\ Keeps /\ UNCHANGED agreed

\* The id is tried first and, when that fails, taken for a name.
DeleteFriend(u, v) == Part(u, v) /\ Keeps /\ UNCHANGED agreed

-----------------------------------------------------------------------------
(* /init_client.                                                           *)

Start ==
  /\ at \in {"done", "failed"}
  /\ at' = "chats" /\ seen' = [l \in Lists |-> {}]
  /\ short' = FALSE /\ steady' = Related /\ agreed' = {}
  /\ UNCHANGED <<friends, asked>>

\* The chats and the groups concern nobody's friendship.
ReadChats ==
  /\ at = "chats" /\ at' = "groups"
  /\ UNCHANGED <<friends, asked, seen, short, steady, agreed>>

ReadGroups ==
  /\ at = "groups" /\ at' = "friends"
  /\ UNCHANGED <<friends, asked, seen, short, steady, agreed>>

\* One call; nobody looks at rows.Err(), so that the list may break off.
Read(l, next) ==
  /\ at = l /\ at' = next
  /\ \E got \in SUBSET Stored(l) :
       seen' = [seen EXCEPT ![l] = got] /\ short' = (short \/ got # Stored(l))
  /\ UNCHANGED <<friends, asked, steady>>

\* Mutation of GetSentRequests: receiver_id is asked for, as in GetFriendRequests.
GetReceivedAgain ==
  /\ at = "sent" /\ at' = "done" /\ seen' = [seen EXCEPT !["sent"] = Stored("requests")]
  /\ UNCHANGED <<friends, asked, short, steady, agreed>>

GetFriends == Read("friends", "requests") /\ agreed' = {}
GetFriendRequests == Read("requests", "sent") /\ UNCHANGED agreed
GetSentRequests == Read("sent", "done") /\ UNCHANGED agreed

\* One call fails and the client gets no list at all.
LoadFails ==
  /\ at \notin {"done", "failed"} /\ at' = "failed"
  /\ UNCHANGED <<friends, asked, seen, short, steady, agreed>>

LoadNext ==
  \/ \E u, v \in Users :
       SendFriendRequest(u, v) \/ AcceptFriendRequest(u, v) \/ DeclineFriendRequest(u, v)
       \/ CancelFriendRequest(u, v) \/ DeleteFriend(u, v)
  \/ Start \/ ReadChats \/ ReadGroups \/ GetFriends \/ GetFriendRequests \/ GetSentRequests
  \/ LoadFails

LoadSpec == LoadInit /\ [][LoadNext]_loadvars

-----------------------------------------------------------------------------
\* A user who was a friend, asked or was asked when the load began, and left no
\* list since but to become a friend, is in one of the lists of the answer,
\* unless a list broke off or the two became friends after the friends were
\* read: the order of handlerInit's five reads loses no one else.
SnapshotExplained ==
  at = "done" /\ ~short =>
    \A v \in steady : (\E l \in Lists : v \in seen[l]) \/ v \in agreed
=============================================================================
