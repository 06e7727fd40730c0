--------------------------- MODULE LegacyFriends ---------------------------
(***************************************************************************)
(* Friend requests of the legacy server.  Accepting is a transaction and   *)
(* declining one statement; asking is three statements, of which the first *)
(* takes an error of the database for `not friends'.                       *)
(***************************************************************************)
CONSTANTS
  People,
  Askers,      \* goroutines of handleSendFriendRequest
  NoRequest

\* uq_friend_request: a row per sender and receiver.
FriendRequests == {r \in People \X People : r[1] # r[2]}
ASSUME NoRequestAssumption == NoRequest \notin FriendRequests

Opposite(r) == <<r[2], r[1]>>
Both(r) == {r[1], r[2]}

VARIABLES
  state,      \* a row's status, or "none"
  friendRows, \* sets of two users
  asker,      \* a goroutine: its stage and the request
  \* History, read by no guard:
  misled,     \* goroutines whose look for a friendship failed or was overtaken
  excused     \* requests that may stand between friends

lfvars == <<state, friendRows, asker, misled, excused>>

-----------------------------------------------------------------------------
LfInit ==
  /\ state = [r \in FriendRequests |-> "none"] /\ friendRows = {}
  /\ asker = [p \in Askers |-> [at |-> "idle", req |-> NoRequest]]
  /\ misled = {} /\ excused = {}

Asks(p, stage, r) == asker' = [asker EXCEPT ![p] = [at |-> stage, req |-> r]]

\* Mutation of LookForFriendship: friends may ask, too.
LookForNothing(p, r) ==
  /\ asker[p].at = "idle"
  /\ Asks(p, "pending?", r) /\ misled' = misled \ {p}
  /\ UNCHANGED <<state, friendRows, excused>>

\* The users are friends already, they are not, or the statement fails.
LookForFriendship(p, r) ==
  /\ asker[p].at = "idle"
  /\ \/ Both(r) \notin friendRows /\ misled' = misled \ {p}
     \/ misled' = misled \cup {p}
  /\ Asks(p, "pending?", r)
  /\ UNCHANGED <<state, friendRows, excused>>

\* A request that is pending is announced anew, unless this look fails.
LookForPending(p) ==
  /\ asker[p].at = "pending?"
  /\ \/ state[asker[p].req] = "pending" /\ Asks(p, "idle", NoRequest)
     \/ Asks(p, "upsert", asker[p].req)
  /\ UNCHANGED <<state, friendRows, misled, excused>>

\* ON CONFLICT DO UPDATE: an answered request is asked again.
Upsert(p) ==
  /\ asker[p].at = "upsert"
  /\ \/ /\ state' = [state EXCEPT ![asker[p].req] = "pending"]
        /\ excused' = IF p \in misled THEN excused \cup {asker[p].req} ELSE excused
     \/ UNCHANGED <<state, excused>>
  /\ Asks(p, "idle", NoRequest)
  /\ UNCHANGED <<friendRows, misled>>

SendFriendRequest(p) ==
  \/ \E r \in FriendRequests : LookForFriendship(p, r)
  \/ LookForPending(p) \/ Upsert(p)

\* Both statements commit or none.
AcceptFriendRequest(r) ==
  /\ state[r] = "pending"
  /\ state' = [state EXCEPT ![r] = "accepted"]
  /\ friendRows' = friendRows \cup {Both(r)}

\* The friendship is news to whoever has looked for one, and the opposite
\* request stays what it is.
HandleAcceptFriendRequest(r) ==
  /\ AcceptFriendRequest(r)
  /\ misled' = misled \cup {p \in Askers : asker[p].req # NoRequest /\ Both(asker[p].req) = Both(r)}
  /\ excused' = (excused \ {r}) \cup
                (IF state[Opposite(r)] = "pending" THEN {Opposite(r)} ELSE {})
  /\ UNCHANGED asker

DeclineFriendRequest(r) ==
  state[r] = "pending" /\ state' = [state EXCEPT ![r] = "declined"]

HandleDeclineFriendRequest(r) ==
  /\ DeclineFriendRequest(r)
  /\ excused' = excused \ {r}
  /\ UNCHANGED <<friendRows, asker, misled>>

LfNext ==
  \/ \E p \in Askers : SendFriendRequest(p)
  \/ \E r \in FriendRequests : HandleAcceptFriendRequest(r) \/ HandleDeclineFriendRequest(r)

LfSpec == LfInit /\ [][LfNext]_lfvars

-----------------------------------------------------------------------------
\* What a user is shown.
GetFriendRequests(u) == {v \in People \ {u} : state[<<v, u>>] = "pending"}
GetFriends(u) == {v \in People : v # u /\ {u, v} \in friendRows}

(* Properties                                                              *)

\* A user is asked by a friend only if each had asked the other before, or
\* the look for their friendship failed or came before it; and whoever has
\* accepted a request that was not asked again has the friend on the list.
FriendListsAgree ==
  /\ \A u \in People : \A v \in GetFriendRequests(u) \cap GetFriends(u) : <<v, u>> \in excused
  /\ \A r \in FriendRequests : state[r] = "accepted" => r[1] \in GetFriends(r[2])

=============================================================================
