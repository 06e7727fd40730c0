------------------------------- MODULE Friends -------------------------------
(***************************************************************************)
(* The friends service: handlers of concurrent gRPC requests over the      *)
(* tables friend_requests (status) and friends.                            *)
(* DeclineFriendRequest and CancelFriendRequest look in one statement and  *)
(* write in another, without a transaction, and the write does not look    *)
(* again.  AcceptFriendRequest is one transaction, DeleteFriend one        *)
(* statement.  What a handler has done it publishes afterwards, one call   *)
(* per user; every call may fail, and a handler may stop between two.      *)
(* A request that a handler refuses changes nothing and is left out.       *)
(***************************************************************************)
EXTENDS Sequences

CONSTANTS
  Users,
  Requests,   \* the rows that may ever be made (the uuids the INSERT returns)
  From, To,   \* sender_id and receiver_id of a row
  Handlers,   \* gRPC requests in flight at once
  None

ASSUME EndsType == From \in [Requests -> Users] /\ To \in [Requests -> Users]
ASSUME NoneFresh == None \notin Requests

VARIABLES
  friends,    \* friends table: the pairs {u, v} stored
  status,     \* request -> its status column, "unused" or "deleted"
  told,       \* the items whose last event said that they hold
  h,          \* handler -> what it is doing
  \* History, read by no guard:
  shaken,     \* pairs that, since their last accept or delete, were friends when
              \* one asked the other, or had a row written by an overtaken handler
  garbled     \* items whose last event was lost, or told by one of several
              \* handlers that were at work on the pair

history == <<shaken, garbled>>
vars == <<friends, status, told, h, history>>

-----------------------------------------------------------------------------
\* <<u, "friend", v>>: u is told that v is a friend (FRIEND_ACCEPTED) or not
\* (DELETE_FRIEND).  <<u, "request", v>>: u is told that v asks (FRIEND_REQUEST)
\* or no longer does (FRIEND_REQUEST_CANCELED).
Items == Users \X {"friend", "request"} \X Users

Steps == {"idle", "decline", "cancel", "tell"}

\* alone: no other handler of the two users has been at work meanwhile.
HandlerState == [at: Steps, from: Users \union {None}, to: Users \union {None},
                 request: Requests \union {None},
                 news: Seq([item: Items, holds: BOOLEAN]), alone: BOOLEAN]

Idle == [at |-> "idle", from |-> None, to |-> None, request |-> None, news |-> <<>>,
         alone |-> FALSE]

\* A row of friends: the two ids in order.
Pair(u, v) == {u, v}
Pairs == {Pair(u, v) : u, v \in Users}

Stored(r) == status[r] \in {"pending", "accepted", "declined"}

AtWork(p, u, v) == h[p].at # "idle" /\ Pair(h[p].from, h[p].to) = Pair(u, v)

Alone(u, v) == \A p \in Handlers : ~AtWork(p, u, v)

\* p enters with its first step; whoever is at work on the pair is overtaken.
Enter(p, u, v, first) ==
  h' = [q \in Handlers |->
          IF q = p THEN [first EXCEPT !.from = u, !.to = v, !.alone = Alone(u, v)]
          ELSE IF AtWork(q, u, v) THEN [h[q] EXCEPT !.alone = FALSE]
          ELSE h[q]]

At(step, r) == [Idle EXCEPT !.at = step, !.request = r]

Telling(news) == [Idle EXCEPT !.at = "tell", !.news = news]

ToBoth(u, v, holds) == <<[item |-> <<u, "friend", v>>, holds |-> holds],
                         [item |-> <<v, "friend", u>>, holds |-> holds]>>

ToReceiver(u, v, holds) == <<[item |-> <<v, "request", u>>, holds |-> holds]>>

\* p has written a row of its pair without looking again.
Wrote(p) ==
  shaken' = IF h[p].alone THEN shaken ELSE shaken \union {Pair(h[p].from, h[p].to)}

Init ==
  /\ friends = {} /\ told = {} /\ shaken = {} /\ garbled = {}
  /\ status = [r \in Requests |-> "unused"]
  /\ h = [p \in Handlers |-> Idle]

-----------------------------------------------------------------------------
(* SendFriendRequest.  Its look for a friendship selects friends.id, which *)
(* the table has not: it always fails, and a failure counts as "not        *)
(* friends".  What is left is the upsert.                                  *)

\* The row ON CONFLICT (sender_id, receiver_id) finds, or a new one.
Upserts(r) ==
  \/ Stored(r)
  \/ /\ status[r] = "unused"
     /\ \A q \in Requests : From[q] = From[r] /\ To[q] = To[r] => ~Stored(q)

SendFriendRequest(p, r) ==
  LET u == From[r]
      v == To[r] IN
  /\ h[p].at = "idle"
  /\ u # v
  /\ Upserts(r)
  /\ status' = [status EXCEPT ![r] = "pending"]
  /\ shaken' = IF Pair(u, v) \in friends THEN shaken \union {Pair(u, v)} ELSE shaken
  /\ Enter(p, u, v, Telling(ToReceiver(u, v, TRUE)))
  /\ UNCHANGED <<friends, told, garbled>>

-----------------------------------------------------------------------------
(* AcceptFriendRequest, by the receiver.                                   *)

\* Mutation of Accept: whatever the status.
AcceptAny(p, r) ==
  /\ h[p].at = "idle"
  /\ Stored(r)
  /\ status' = [status EXCEPT ![r] = "accepted"]
  /\ friends' = friends \union {Pair(From[r], To[r])}
  /\ shaken' = shaken \ {Pair(From[r], To[r])}
  /\ Enter(p, From[r], To[r], Telling(ToBoth(From[r], To[r], TRUE)))
  /\ UNCHANGED <<told, garbled>>

Accept(p, r) ==
  /\ h[p].at = "idle"
  /\ status[r] = "pending"
  /\ status' = [status EXCEPT ![r] = "accepted"]
  /\ friends' = friends \union {Pair(From[r], To[r])}
  /\ shaken' = shaken \ {Pair(From[r], To[r])}
  /\ Enter(p, From[r], To[r], Telling(ToBoth(From[r], To[r], TRUE)))
  /\ UNCHANGED <<told, garbled>>

\* Mutation of DeclineLook: whatever the status.
DeclineAny(p, r) ==
  /\ h[p].at = "idle"
  /\ Stored(r)
  /\ Enter(p, From[r], To[r], At("decline", r))
  /\ UNCHANGED <<friends, status, told, history>>

(* DeclineFriendRequest, by the receiver.  FRIEND_DECLINED goes to the     *)
(* sender whose request it was and is no item.                             *)
DeclineLook(p, r) ==
  /\ h[p].at = "idle"
  /\ status[r] = "pending"
  /\ Enter(p, From[r], To[r], At("decline", r))
  /\ UNCHANGED <<friends, status, told, history>>

DeclineWrite(p) ==
  LET r == h[p].request IN
  /\ h[p].at = "decline"
  /\ status' = IF Stored(r) THEN [status EXCEPT ![r] = "declined"] ELSE status
  /\ Wrote(p)
  /\ h' = [h EXCEPT ![p] = Idle]
  /\ UNCHANGED <<friends, told, garbled>>

(* CancelFriendRequest, by the sender.                                     *)
CancelLook(p, r) ==
  /\ h[p].at = "idle"
  /\ status[r] = "pending"
  /\ Enter(p, From[r], To[r], At("cancel", r))
  /\ UNCHANGED <<friends, status, told, history>>

\* Mutation of CancelWrite: nobody is told.
CancelQuietly(p) ==
  /\ h[p].at = "cancel"
  /\ status' = [status EXCEPT ![h[p].request] = "deleted"]
  /\ Wrote(p)
  /\ h' = [h EXCEPT ![p].at = "tell"]
  /\ UNCHANGED <<friends, told, garbled>>

CancelWrite(p) ==
  LET r == h[p].request IN
  /\ h[p].at = "cancel"
  /\ status' = [status EXCEPT ![r] = "deleted"]
  /\ Wrote(p)
  /\ h' = [h EXCEPT ![p] = [@ EXCEPT !.at = "tell",
                                     !.news = ToReceiver(From[r], To[r], FALSE)]]
  /\ UNCHANGED <<friends, told, garbled>>

(* DeleteFriend, by either; both are told even if they were no friends.    *)

\* Mutation of DeleteFriend: the one who asks for it is not told.
DeleteOneSided(p, u, v) ==
  /\ h[p].at = "idle"
  /\ u # v
  /\ friends' = friends \ {Pair(u, v)}
  /\ shaken' = shaken \ {Pair(u, v)}
  /\ Enter(p, u, v, Telling(Tail(ToBoth(u, v, FALSE))))
  /\ UNCHANGED <<status, told, garbled>>

DeleteFriend(p, u, v) ==
  /\ h[p].at = "idle"
  /\ u # v
  /\ friends' = friends \ {Pair(u, v)}
  /\ shaken' = shaken \ {Pair(u, v)}
  /\ Enter(p, u, v, Telling(ToBoth(u, v, FALSE)))
  /\ UNCHANGED <<status, told, garbled>>

-----------------------------------------------------------------------------
(* Publishing, and stopping.                                               *)

\* One Publish, whose error nobody looks at.
Tell(p) ==
  LET n == Head(h[p].news) IN
  /\ h[p].at = "tell"
  /\ \E ok \in BOOLEAN :
       /\ told' = IF ~ok THEN told ELSE IF n.holds THEN told \union {n.item} ELSE told \ {n.item}
       /\ garbled' = IF ok /\ h[p].alone THEN garbled \ {n.item} ELSE garbled \union {n.item}
  /\ h' = [h EXCEPT ![p] = IF Tail(h[p].news) = <<>> THEN Idle
                           ELSE [h[p] EXCEPT !.news = Tail(h[p].news)]]
  /\ UNCHANGED <<friends, status, shaken>>

\* A statement fails, the caller has gone and the context with it, or the
\* process dies: what is left of the handler does not happen.
Abort(p) ==
  /\ h[p].at # "idle"
  /\ garbled' = garbled \union {h[p].news[i].item : i \in DOMAIN h[p].news}
  /\ h' = [h EXCEPT ![p] = Idle]
  /\ UNCHANGED <<friends, status, told, shaken>>

-----------------------------------------------------------------------------
Next ==
  \E p \in Handlers :
    \/ \E u, v \in Users : DeleteFriend(p, u, v)
    \/ \E r \in Requests : SendFriendRequest(p, r) \/ Accept(p, r) \/ DeclineLook(p, r)
                           \/ CancelLook(p, r)
    \/ DeclineWrite(p) \/ CancelWrite(p) \/ Tell(p) \/ Abort(p)

Spec == Init /\ [][Next]_vars

-----------------------------------------------------------------------------
(* Properties.                                                             *)

\* A handler at work knows its pair, and what it is to write or to tell.
Directed(r) ==
  /\ r.at # "idle" => r.from \in Users /\ r.to \in Users
  /\ r.at \in {"decline", "cancel"} => r.request \in Requests
                                       /\ r.from = From[r.request] /\ r.to = To[r.request]
  /\ r.at = "tell" <=> r.news # <<>>

\* Every variable keeps its type, and a handler at work has its direction.
TypeOK ==
  /\ friends \subseteq Pairs /\ shaken \subseteq Pairs
  /\ status \in [Requests -> {"unused", "pending", "accepted", "declined", "deleted"}]
  /\ told \subseteq Items /\ garbled \subseteq Items
  /\ h \in [Handlers -> HandlerState]
  /\ \A p \in Handlers : Directed(h[p])

\* A friendship rests on a request that is still marked accepted, unless one
\* of the friends asked the other again, or a handler wrote a row of the pair
\* after another one had overtaken it: nothing else turns the request of
\* friends into a pending, declined or deleted one.
FriendshipIsAccepted ==
  \A pair \in friends \ shaken :
    \E r \in Requests : status[r] = "accepted" /\ Pair(From[r], To[r]) = pair

\* When no handler is at work on a pair, each of the two was last told what
\* friends holds, and the receiver of a pending request that there is one,
\* unless an event was lost or the handlers of the pair overlapped.
ToldWhatHolds ==
  \A u, v \in Users : u # v /\ Alone(u, v) =>
    /\ <<u, "friend", v>> \notin garbled =>
         (<<u, "friend", v>> \in told <=> Pair(u, v) \in friends)
    /\ <<u, "request", v>> \notin garbled =>
         \A r \in Requests : From[r] = v /\ To[r] = u /\ status[r] = "pending" =>
           <<u, "request", v>> \in told

\* Two users become friends when one agrees to what the other still asks, and
\* cease to be by DeleteFriend alone, however the handlers interleave.
asked == {<<From[r], To[r]>> : r \in {q \in Requests : status[q] = "pending"}}
Promise == INSTANCE Friendship WITH friends <- friends, asked <- asked
FriendshipSpec == Promise!Spec

\* "вы уже друзья" (you are friends already), the error of SendFriendRequest,
\* says that no request is made, or made again, between friends.
NoRequestAmongFriends ==
  [][\A r \in Requests : status[r] # "pending" /\ status'[r] = "pending" =>
       Pair(From[r], To[r]) \notin friends]_vars

=============================================================================
