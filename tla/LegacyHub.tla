----------------------------- MODULE LegacyHub -----------------------------
(***************************************************************************)
(* The WebSocket hub of the legacy server, for the participants of one     *)
(* chat.  userConns holds a connection per user and rooms one per user of  *)
(* the chat, each under a mutex of its own.  broadcast writes to the room  *)
(* holding roomsMu, broadcastToOtherParticipants to the users holding      *)
(* userConnsMu, so two goroutines may write to one connection, upon which  *)
(* gorilla panics; userConnsMu is not unlocked by a defer.  No write has a *)
(* deadline: one to a client that has stopped reading may never end.       *)
(***************************************************************************)
EXTENDS Naturals

CONSTANTS
  Users,
  Sessions,    \* goroutines of handleWS, each with its connection
  Requests,    \* goroutines of the HTTP handlers
  Owner,       \* the user of a session or request
  None

Goroutines == Sessions \cup Requests
Nobody == {None}

\* A goroutine is one or the other, and of one user.
ASSUME GoroutinesAssumption == Sessions \cap Requests = {} /\ Owner \in [Goroutines -> Users]

VARIABLES
  userConns,   \* user -> session whose connection is listed, or None
  room,        \* user -> session whose connection is in the chat's room, or None
  roomsMu, userConnsMu,   \* the goroutine that holds the mutex, or None
  writing,     \* connection -> goroutine inside its WriteMessage, or None
  closed,      \* connections that broadcast has closed
  deaf,        \* connections being written to whose client has stopped reading
  go,          \* a goroutine: its stage, whom it has left to write to, and
               \* whether those in the room are skipped
  clash        \* history: whether two goroutines met in one connection

hubvars == <<userConns, room, roomsMu, userConnsMu, writing, closed, deaf, go, clash>>

-----------------------------------------------------------------------------
HubInit ==
  /\ userConns = [u \in Users |-> None] /\ room = [u \in Users |-> None]
  /\ roomsMu = None /\ userConnsMu = None
  /\ writing = [s \in Sessions |-> None]
  /\ closed = {} /\ deaf = {} /\ clash = FALSE
  /\ go = [g \in Goroutines |-> [at |-> "new", left |-> {}, skip |-> FALSE]]

At(g, stage) == go[g].at = stage
Goes(g, stage, left, skip) == go' = [go EXCEPT ![g] = [at |-> stage, left |-> left, skip |-> skip]]
Online(listed) == {listed[u] : u \in Users} \ Nobody

\* The connection takes the place of an older one of the user.
Connect(s) ==
  /\ At(s, "new") /\ userConnsMu = None
  /\ userConns' = [userConns EXCEPT ![Owner[s]] = s]
  /\ Goes(s, "chats", {}, FALSE)
  /\ UNCHANGED <<room, roomsMu, userConnsMu, writing, closed, clash, deaf>>

\* If the chats cannot be read the session goes on without a room, and its
\* deferred function will remove none.
GetChats(s) ==
  /\ At(s, "chats")
  /\ Goes(s, "join", {}, TRUE) \/ Goes(s, "reading", {}, FALSE)
  /\ UNCHANGED <<userConns, room, roomsMu, userConnsMu, writing, closed, clash, deaf>>

JoinRooms(s) ==
  /\ At(s, "join") /\ roomsMu = None
  /\ room' = [room EXCEPT ![Owner[s]] = s]
  /\ Goes(s, "reading", {}, TRUE)
  /\ UNCHANGED <<userConns, roomsMu, userConnsMu, writing, closed, clash, deaf>>

\* A session's `skip' says between two messages whether it has joined; while
\* it handles one the stage carries it along.
Joined(s) == go[s].skip

\* A message is stored, then broadcast; a signal goes to the others only.
Receive(s) ==
  /\ At(s, "reading") /\ s \notin closed
  /\ \/ Goes(s, "cast", {}, Joined(s))
     \/ Goes(s, "signal", {}, Joined(s))
  /\ UNCHANGED <<userConns, room, roomsMu, userConnsMu, writing, closed, clash, deaf>>

\* The message is deleted, then its deletion is broadcast.
HandleDeleteMessage(q) ==
  /\ At(q, "new")
  /\ Goes(q, "cast", {}, FALSE)
  /\ UNCHANGED <<userConns, room, roomsMu, userConnsMu, writing, closed, clash, deaf>>

\* The request is stored, then its receiver is written to.
HandleSendFriendRequest(q) ==
  /\ At(q, "new")
  /\ \E u \in Users \ {Owner[q]} : Goes(q, "telling", {u}, FALSE)
  /\ UNCHANGED <<userConns, room, roomsMu, userConnsMu, writing, closed, clash, deaf>>

-----------------------------------------------------------------------------
\* broadcast
Cast(g) ==
  /\ At(g, "cast") /\ roomsMu = None
  /\ roomsMu' = g
  /\ Goes(g, "casting", Online(room), go[g].skip)
  /\ UNCHANGED <<userConns, room, userConnsMu, writing, closed, clash, deaf>>

\* The frame of another goroutine is being written: gorilla panics.  In a
\* session the deferred function of handleWS runs, in a request net/http
\* recovers.
Panic(g) ==
  /\ clash' = TRUE
  /\ Goes(g, IF g \in Sessions THEN "leave" ELSE "done", {}, go[g].skip)

CastWrite(g) ==
  /\ At(g, "casting")
  /\ \E s \in go[g].left :
       \/ /\ writing[s] = None
          /\ writing' = [writing EXCEPT ![s] = g]
          /\ Goes(g, "cast writes", go[g].left, go[g].skip)
          /\ UNCHANGED <<roomsMu, clash>>
       \/ /\ writing[s] # None
          /\ Panic(g)
          /\ roomsMu' = None
          /\ UNCHANGED writing
  /\ UNCHANGED <<userConns, room, userConnsMu, closed, deaf>>

\* A connection whose write failed is closed, and its user leaves the room.
CastWritten(g) ==
  /\ At(g, "cast writes")
  /\ \E s \in go[g].left :
       /\ writing[s] = g /\ s \notin deaf
       /\ writing' = [writing EXCEPT ![s] = None]
       /\ \/ UNCHANGED <<room, closed>>
          \/ room' = [room EXCEPT ![Owner[s]] = None] /\ closed' = closed \cup {s}
       /\ Goes(g, "casting", go[g].left \ {s}, go[g].skip)
  /\ UNCHANGED <<userConns, roomsMu, userConnsMu, clash, deaf>>

CastEnd(g) ==
  /\ At(g, "casting") /\ go[g].left = {}
  /\ roomsMu' = None
  /\ Goes(g, "list", {}, go[g].skip)
  /\ UNCHANGED <<userConns, room, userConnsMu, writing, closed, clash, deaf>>

Broadcast(g) == Cast(g) \/ CastWrite(g) \/ CastWritten(g) \/ CastEnd(g)

-----------------------------------------------------------------------------
\* broadcastToOtherParticipants
After(g) == IF g \in Sessions THEN "echo" ELSE "done"

\* Everybody, cached for five minutes; nobody if both tables fail.
GetParticipants == {Users, {}}

\* Whoever is in the room has got a message; a signal is for everyone.
List(g) ==
  /\ At(g, "list") \/ At(g, "signal")
  /\ \E all \in GetParticipants :
       LET others == all \ {Owner[g]}
           absent == {u \in others : room[u] = None} IN
       /\ all # {} => roomsMu = None
       /\ IF At(g, "list") THEN Goes(g, "telling", absent, go[g].skip)
                           ELSE Goes(g, "signalling", others, go[g].skip)
  /\ UNCHANGED <<userConns, room, roomsMu, userConnsMu, writing, closed, clash, deaf>>

Telling(g) == go[g].at \in {"telling", "signalling", "echoing"}

\* Mutation of Tell: the mutex is taken for a user who is not online, too,
\* and the loop goes on without unlocking it.
TellAndContinue(g) ==
  /\ Telling(g) /\ userConnsMu = None
  /\ \E u \in go[g].left :
       \/ /\ userConns[u] = None
          /\ userConnsMu' = g
          /\ go' = [go EXCEPT ![g].left = @ \ {u}]
          /\ UNCHANGED <<writing, clash>>
       \/ /\ userConns[u] # None /\ writing[userConns[u]] = None
          /\ writing' = [writing EXCEPT ![userConns[u]] = g]
          /\ userConnsMu' = g
          /\ go' = [go EXCEPT ![g].left = @ \ {u}]
          /\ UNCHANGED clash
       \/ /\ userConns[u] # None /\ writing[userConns[u]] # None
          /\ userConnsMu' = g
          /\ Panic(g)
          /\ UNCHANGED writing
  /\ UNCHANGED <<userConns, room, roomsMu, closed, deaf>>

\* One user at a time, under userConnsMu, which stays locked in a panic.
Tell(g) ==
  /\ Telling(g) /\ userConnsMu = None
  /\ \E u \in go[g].left :
       \/ /\ userConns[u] = None
          /\ go' = [go EXCEPT ![g].left = @ \ {u}]
          /\ UNCHANGED <<userConnsMu, writing, clash>>
       \/ /\ userConns[u] # None /\ writing[userConns[u]] = None
          /\ writing' = [writing EXCEPT ![userConns[u]] = g]
          /\ userConnsMu' = g
          /\ go' = [go EXCEPT ![g].left = @ \ {u}]
          /\ UNCHANGED clash
       \/ /\ userConns[u] # None /\ writing[userConns[u]] # None
          /\ userConnsMu' = g
          /\ Panic(g)
          /\ UNCHANGED writing
  /\ UNCHANGED <<userConns, room, roomsMu, closed, deaf>>

\* Mutation of Told: a user who cannot be written to is unlisted.
ToldOrUnlisted(g) ==
  /\ Telling(g) /\ userConnsMu = g
  /\ \E s \in Sessions :
       /\ writing[s] = g /\ s \notin deaf
       /\ writing' = [writing EXCEPT ![s] = None]
       /\ userConns' \in {userConns, [userConns EXCEPT ![Owner[s]] = None]}
  /\ userConnsMu' = None
  /\ UNCHANGED <<room, roomsMu, closed, go, clash, deaf>>

\* An error is logged, or not even that.
Told(g) ==
  /\ Telling(g) /\ userConnsMu = g
  /\ \E s \in Sessions :
       writing[s] = g /\ s \notin deaf /\ writing' = [writing EXCEPT ![s] = None]
  /\ userConnsMu' = None
  /\ UNCHANGED <<userConns, room, roomsMu, closed, go, clash, deaf>>

TellEnd(g) ==
  /\ Telling(g) /\ go[g].left = {} /\ userConnsMu # g
  /\ Goes(g, IF At(g, "telling") THEN After(g) ELSE "reading", {}, go[g].skip)
  /\ UNCHANGED <<userConns, room, roomsMu, userConnsMu, writing, closed, clash, deaf>>

\* The sender of a message who is in no room gets it too.
Echo(s) ==
  /\ At(s, "echo") /\ roomsMu = None
  /\ Goes(s, "echoing", IF room[Owner[s]] = None THEN {Owner[s]} ELSE {}, go[s].skip)
  /\ UNCHANGED <<userConns, room, roomsMu, userConnsMu, writing, closed, clash, deaf>>

BroadcastToOtherParticipants(g) == List(g) \/ Tell(g) \/ Told(g) \/ TellEnd(g)

-----------------------------------------------------------------------------
\* The client has gone, or broadcast has closed the connection.
ReadError(s) ==
  /\ At(s, "reading")
  /\ Goes(s, "leave", {}, Joined(s))
  /\ UNCHANGED <<userConns, room, roomsMu, userConnsMu, writing, closed, clash, deaf>>

\* The deferred function removes what is listed for the user, whichever
\* session listed it.
Leave(s) ==
  /\ At(s, "leave") /\ userConnsMu = None
  /\ userConns' = [userConns EXCEPT ![Owner[s]] = None]
  /\ Goes(s, "leave rooms", {}, Joined(s))
  /\ UNCHANGED <<room, roomsMu, userConnsMu, writing, closed, clash, deaf>>

LeaveRooms(s) ==
  /\ At(s, "leave rooms") /\ roomsMu = None
  /\ room' = IF Joined(s) THEN [room EXCEPT ![Owner[s]] = None] ELSE room
  /\ closed' = closed \ {s}
  /\ Goes(s, "done", {}, FALSE)
  /\ UNCHANGED <<userConns, roomsMu, userConnsMu, writing, clash, deaf>>

HandleWS(s) ==
  \/ Connect(s) \/ GetChats(s) \/ JoinRooms(s) \/ Receive(s) \/ Echo(s)
  \/ ReadError(s) \/ Leave(s) \/ LeaveRooms(s)

\* The client stops reading while it is written to, and the buffers of both
\* sides are full; its kernel goes on answering.
Stall(s) ==
  /\ s \notin deaf /\ writing[s] # None
  /\ deaf' = deaf \cup {s}
  /\ UNCHANGED <<userConns, room, roomsMu, userConnsMu, writing, closed, go, clash>>

\* It reads again, or its connection is gone.
Resume(s) ==
  /\ s \in deaf /\ deaf' = deaf \ {s}
  /\ UNCHANGED <<userConns, room, roomsMu, userConnsMu, writing, closed, go, clash>>

HubNext ==
  \/ \E s \in Sessions : HandleWS(s) \/ Stall(s) \/ Resume(s)
  \/ \E q \in Requests : HandleDeleteMessage(q) \/ HandleSendFriendRequest(q)
  \/ \E g \in Goroutines : Broadcast(g) \/ BroadcastToOtherParticipants(g)

HubSpec == HubInit /\ [][HubNext]_hubvars

\* Goroutines run, a write ends unless its client has stopped reading, and a
\* waiter gets its mutex in the end: sync.Mutex hands itself over to one that
\* has waited for a millisecond.  Clients need not do anything.
Proceed(g) ==
  \/ Broadcast(g) \/ BroadcastToOtherParticipants(g)
  \/ g \in Sessions /\ (GetChats(g) \/ JoinRooms(g) \/ Echo(g) \/ Leave(g) \/ LeaveRooms(g))
HubFairness == \A g \in Goroutines : SF_hubvars(Proceed(g))

-----------------------------------------------------------------------------
(* Properties                                                              *)

\* A session that has registered and not begun to leave is the one its user
\* is written to, unless the user has had another session: a later one takes
\* its place, and an earlier one removes the entry when it ends.
SessionListed ==
  \A s \in Sessions : go[s].at \notin {"new", "leave", "leave rooms", "done"} =>
    \/ userConns[Owner[s]] = s
    \/ \E t \in Sessions \ {s} : Owner[t] = Owner[s] /\ ~At(t, "new")

\* A session that leaves has left in the end, if no client stops reading for
\* ever while it is written to, unless a goroutine panicked on a connection that
\* another was writing to: in either case a mutex may stay locked, and nobody
\* leaves, joins or is written to any more.
SessionsLeave ==
  (\A t \in Sessions : []<>(t \notin deaf)) =>
    \A s \in Sessions : At(s, "leave") ~> (At(s, "done") \/ clash)

=============================================================================
