------------------------------ MODULE UdpRooms ------------------------------
(***************************************************************************)
(* The voice rooms of the legacy server.  RoomManager keeps three maps     *)
(* under one mutex; a goroutine per connection handles a packet with three *)
(* calls that lock it anew, and Cleanup runs in between.  The maps know a  *)
(* connection by its address only, which a later one may have as well.  A  *)
(* user who says HELLO for another room stays in the old room's map.       *)
(***************************************************************************)
EXTENDS Naturals

CONSTANTS
  Speakers, Rooms, Addrs,
  Conns,        \* goroutines of handleDTLSConn, one connection after another
  AddrOf,       \* the remote address of its connections
  NoAddr, NoUser, NoRoom

\* A nil or missing entry of a map is none of its values.
ASSUME NilAssumption == NoAddr \notin Addrs /\ NoUser \notin Speakers /\ NoRoom \notin Rooms
ASSUME AddrOfType == AddrOf \in [Conns -> Addrs]

VARIABLES
  rooms,        \* Rooms[r][u]: the connection's address, or NoAddr
  fresh,        \* pairs <<r, u>> with a LastSeen within thirty seconds
  addrToUser,
  userToRoom,
  handler,      \* a connection's goroutine: its stage
  crashed,      \* a nil UserAddr was dereferenced: the process is gone
  \* History, read by no guard:
  moved,        \* users who said HELLO for a second room
  shared        \* addresses whose last HELLO came for a user while another
                \* was still listed with the address

rmvars == <<rooms, fresh, addrToUser, userToRoom, handler, crashed, moved, shared>>

-----------------------------------------------------------------------------
RmInit ==
  /\ rooms = [r \in Rooms |-> [u \in Speakers |-> NoAddr]]
  /\ fresh = {}
  /\ addrToUser = [a \in Addrs |-> NoUser]
  /\ userToRoom = [u \in Speakers |-> NoRoom]
  /\ handler = [c \in Conns |-> "closed"]
  /\ crashed = FALSE
  /\ moved = {} /\ shared = {}

Reading(c) == ~crashed /\ handler[c] = "reading"

\* Whom the goroutine's packets are taken to be from.
UserAt(c) == addrToUser[AddrOf[c]]

\* A new connection.  One before it from that address may have been closed, by
\* its peer or by Cleanup, without its goroutine having noticed: that goroutine
\* still handles what it has read, and then removes whoever has the address.
Accept(c) ==
  /\ ~crashed /\ handler[c] = "closed"
  /\ handler' = [handler EXCEPT ![c] = "reading"]
  /\ UNCHANGED <<rooms, fresh, addrToUser, userToRoom, crashed, moved, shared>>

\* Rooms[UserToRoom[u]][u], a missing room or entry read as nil.
OldAddr(u) == IF userToRoom[u] = NoRoom THEN NoAddr ELSE rooms[userToRoom[u]][u]

\* The address of the user's old connection is forgotten, even if another
\* user has said HELLO from it since; the entry of the old room is not.
AddUser(r, u, a) ==
  /\ rooms' = [rooms EXCEPT ![r][u] = a]
  /\ fresh' = fresh \cup {<<r, u>>}
  /\ addrToUser' = [d \in Addrs |-> CASE d = a -> u
                                      [] d # a /\ d = OldAddr(u) -> NoUser
                                      [] OTHER -> addrToUser[d]]
  /\ userToRoom' = [userToRoom EXCEPT ![u] = r]

Hello(c, r, u) ==
  LET a == AddrOf[c] IN
  /\ Reading(c)
  /\ AddUser(r, u, a)
  /\ moved' = IF \E q \in Rooms \ {r} : rooms[q][u] # NoAddr THEN moved \cup {u} ELSE moved
  /\ shared' = IF \E q \in Rooms, v \in Speakers \ {u} : rooms[q][v] = a
               THEN shared \cup {a} ELSE shared \ {a}
  /\ UNCHANGED <<handler, crashed>>

\* A packet is relayed to what GetParticipants returned, after the sender's
\* activity and sequence number are noted; an anonymous one is dropped.
GetParticipants(c) ==
  /\ Reading(c)
  /\ UserAt(c) # NoUser /\ userToRoom[UserAt(c)] # NoRoom
  /\ handler' = [handler EXCEPT ![c] = "update"]
  /\ UNCHANGED <<rooms, fresh, addrToUser, userToRoom, crashed, moved, shared>>

\* The entry is locked without looking whether it is nil.
Nil(u) == OldAddr(u) = NoAddr

Note(c, stage) ==
  LET u == UserAt(c) IN
  \/ /\ u = NoUser
     /\ handler' = [handler EXCEPT ![c] = stage]
     /\ UNCHANGED <<fresh, crashed>>
  \/ /\ u # NoUser
     /\ Nil(u)
     /\ crashed' = TRUE
     /\ UNCHANGED <<fresh, handler>>
  \/ /\ u # NoUser
     /\ ~Nil(u)
     /\ fresh' = fresh \cup {<<userToRoom[u], u>>}
     /\ handler' = [handler EXCEPT ![c] = stage]
     /\ UNCHANGED crashed

UpdateActivity(c) ==
  /\ ~crashed /\ handler[c] = "update"
  /\ Note(c, "analyze")
  /\ UNCHANGED <<rooms, addrToUser, userToRoom, moved, shared>>

\* It looks the user up again, the same way.
Analyze(c) ==
  /\ ~crashed /\ handler[c] = "analyze"
  /\ LET u == UserAt(c) IN
     /\ crashed' = (u # NoUser /\ Nil(u))
     /\ handler' = [handler EXCEPT ![c] = "reading"]
  /\ UNCHANGED <<rooms, fresh, addrToUser, userToRoom, moved, shared>>

\* Mutation of RemoveUserByAddr: the user keeps its address.
RemoveUserOnly(c) ==
  IF UserAt(c) = NoUser THEN UNCHANGED <<rooms, fresh, addrToUser, userToRoom>>
  ELSE LET u == UserAt(c) IN
       /\ UNCHANGED addrToUser
       /\ fresh' = fresh \ {<<userToRoom[u], u>>}
       /\ userToRoom' = [userToRoom EXCEPT ![u] = NoRoom]
       /\ rooms' = [r \in Rooms |-> IF r = userToRoom[u] THEN [rooms[r] EXCEPT ![u] = NoAddr]
                                                         ELSE rooms[r]]

RemoveUserByAddr(c) ==
  IF UserAt(c) = NoUser THEN UNCHANGED <<rooms, fresh, addrToUser, userToRoom>>
  ELSE LET u == UserAt(c) IN
       /\ fresh' = fresh \ {<<userToRoom[u], u>>}
       /\ addrToUser' = [addrToUser EXCEPT ![AddrOf[c]] = NoUser]
       /\ userToRoom' = [userToRoom EXCEPT ![u] = NoRoom]
       /\ rooms' = [r \in Rooms |-> IF r = userToRoom[u] THEN [rooms[r] EXCEPT ![u] = NoAddr]
                                                         ELSE rooms[r]]

\* BYE, or a read that fails, also because Cleanup closed the connection.
HandleEnd(c) ==
  /\ Reading(c)
  /\ RemoveUserByAddr(c)
  /\ handler' = [handler EXCEPT ![c] = "closed"]
  /\ UNCHANGED <<crashed, moved, shared>>

\* Thirty seconds without a packet noted for the entry.
FallSilent(r, u) ==
  /\ ~crashed /\ rooms[r][u] # NoAddr
  /\ fresh' = fresh \ {<<r, u>>}
  /\ UNCHANGED <<rooms, addrToUser, userToRoom, handler, crashed, moved, shared>>

\* Every entry that fell silent goes, with the address and the room of its
\* user, wherever those point by now.
Cleanup ==
  LET silent == {e \in Rooms \X Speakers : rooms[e[1]][e[2]] # NoAddr /\ e \notin fresh} IN
  /\ ~crashed /\ silent # {}
  /\ addrToUser' = [a \in Addrs |-> IF \E e \in silent : rooms[e[1]][e[2]] = a
                                    THEN NoUser ELSE addrToUser[a]]
  /\ userToRoom' = [u \in Speakers |-> IF \E e \in silent : e[2] = u
                                    THEN NoRoom ELSE userToRoom[u]]
  /\ rooms' = [r \in Rooms |-> [u \in Speakers |-> IF <<r, u>> \in silent THEN NoAddr ELSE rooms[r][u]]]
  /\ UNCHANGED <<fresh, handler, crashed, moved, shared>>

RmNext ==
  \/ \E c \in Conns : \/ \E r \in Rooms, u \in Speakers : Hello(c, r, u)
                      \/ GetParticipants(c) \/ UpdateActivity(c) \/ Analyze(c)
                      \/ HandleEnd(c) \/ Accept(c)
  \/ \E r \in Rooms, u \in Speakers : FallSilent(r, u)
  \/ Cleanup

RmSpec == RmInit /\ [][RmNext]_rmvars

-----------------------------------------------------------------------------
(* Properties                                                              *)

\* Only a user who changed rooms without leaving the first brings the server
\* down.
CrashOnlyAfterMove == crashed => moved # {}

\* Whoever a room lists, and so relays packets to, can be told from its
\* address and will be removed when it leaves: no interleaving of packets, of
\* late goroutines and of Cleanup leaves an entry that only Cleanup will find.
\* Two things do, and are excepted: the user changed rooms without leaving the
\* first, or the last HELLO from the address came while another user was still
\* listed with it, over the same connection or an earlier one.
ListedIsReachable ==
  \A r \in Rooms, u \in Speakers \ moved :
    rooms[r][u] # NoAddr /\ rooms[r][u] \notin shared =>
      userToRoom[u] = r /\ addrToUser[rooms[r][u]] = u

\* Both: the server stays up and its maps agree, but for those users and
\* addresses.
RoomsSound == CrashOnlyAfterMove /\ ListedIsReachable

=============================================================================
