---------------------------- MODULE Legacy_proofs ----------------------------
(***************************************************************************)
(* The legacy server, for any number of users, goroutines and messages:    *)
(* the hub lists the sessions, a settled store agrees with its cache and   *)
(* preview, and the friends and requests it shows a user agree.            *)
(***************************************************************************)
EXTENDS LegacyHub, LegacyStore, LegacyFriends, TLAPS

-----------------------------------------------------------------------------
(* The hub.                                                                *)

Stages == {"new", "chats", "join", "reading", "cast", "casting", "cast writes", "signal",
           "list", "telling", "signalling", "echo", "echoing", "leave", "leave rooms", "done"}

\* Stages in which nobody is promised to be listed.
Away == {"new", "leave", "leave rooms", "done"}

HubTypeOK ==
  /\ userConns \in [Users -> Sessions \cup Nobody]
  /\ room \in [Users -> Sessions \cup Nobody]
  /\ go \in [Goroutines -> [at: Stages, left: SUBSET (Sessions \cup Users), skip: BOOLEAN]]

HubInv == HubTypeOK /\ SessionListed

\* Most steps change no listing: a goroutine that was away stays away, and one
\* that has begun does not begin again.
GoesOn ==
  /\ userConns' = userConns
  /\ \A g \in Goroutines :
       /\ go'[g].at = "new" => go[g].at = "new"
       /\ g \in Sessions /\ go[g].at \in Away => go'[g].at \in Away

LEMMA GoesOnInv ==
  ASSUME HubInv, HubTypeOK', GoesOn
  PROVE  HubInv'
  BY DEF HubInv, SessionListed, GoesOn, At, Away, Goroutines

\* A goroutine whose stage is new and one whose list of others grows shorter.
LEMMA GoesKeeps ==
  ASSUME HubInv, NEW g \in Goroutines, NEW stage \in Stages, NEW left \in SUBSET (Sessions \cup Users),
         NEW skip \in BOOLEAN, Goes(g, stage, left, skip),
         stage # "new", g \in Sessions /\ go[g].at \in Away => stage \in Away,
         userConns' = userConns, room' \in [Users -> Sessions \cup Nobody]
  PROVE  HubInv'
<1>1. go' = [go EXCEPT ![g] = [at |-> stage, left |-> left, skip |-> skip]]
  BY DEF Goes
<1>2. HubTypeOK'
  BY <1>1 DEF HubInv, HubTypeOK
<1>3. GoesOn
  BY <1>1 DEF HubInv, HubTypeOK, GoesOn
<1> QED
  BY <1>2, <1>3, GoesOnInv

LEMMA TellsKeeps ==
  ASSUME HubInv, NEW g \in Goroutines, NEW u, go' = [go EXCEPT ![g].left = @ \ {u}],
         UNCHANGED <<userConns, room>>
  PROVE  HubInv'
<1> DEFINE next == [go[g] EXCEPT !.left = go[g].left \ {u}]
<1>1. next \in [at: Stages, left: SUBSET (Sessions \cup Users), skip: BOOLEAN] /\ next.at = go[g].at
  BY DEF HubInv, HubTypeOK
<1>2. go' = [go EXCEPT ![g] = next]
  BY DEF HubInv, HubTypeOK
<1> HIDE DEF next
<1>3. HubTypeOK' /\ GoesOn
  BY <1>1, <1>2 DEF HubInv, HubTypeOK, GoesOn
<1> QED
  BY <1>3, GoesOnInv

LEMMA HubInitInv == HubInit => HubInv
<1> SUFFICES ASSUME HubInit PROVE HubInv
  OBVIOUS
<1> DEFINE first == [at |-> "new", left |-> {}, skip |-> FALSE]
<1>1. go = [g \in Goroutines |-> first]
  BY DEF HubInit
<1>2. first \in [at: Stages, left: SUBSET (Sessions \cup Users), skip: BOOLEAN] /\ first.at = "new"
  BY DEF Stages
<1> HIDE DEF first
<1>3. HubTypeOK
  BY <1>1, <1>2 DEF HubInit, HubTypeOK, Nobody
<1>4. SessionListed
  BY <1>1, <1>2 DEF SessionListed, Goroutines
<1> QED
  BY <1>3, <1>4 DEF HubInv

LEMMA BroadcastInv ==
  ASSUME HubInv, NEW g \in Goroutines, Broadcast(g)
  PROVE  HubInv'
<1>1. /\ go[g].left \in SUBSET (Sessions \cup Users) /\ go[g].skip \in BOOLEAN
      /\ room \in [Users -> Sessions \cup Nobody]
  BY DEF HubInv, HubTypeOK
<1>2. CASE Cast(g)
  <2>1. Online(room) \in SUBSET (Sessions \cup Users)
    BY <1>1 DEF Online, Nobody
  <2> QED
    BY <1>1, <1>2, <2>1, GoesKeeps DEF Cast, At, Away, Stages
<1>3. CASE CastWrite(g)
  <2>1. go[g].at = "casting" /\ UNCHANGED <<userConns, room>>
    BY <1>3 DEF CastWrite, At
  <2>2. CASE Goes(g, "cast writes", go[g].left, go[g].skip)
    BY <1>1, <2>1, <2>2, GoesKeeps DEF Away, Stages
  <2>3. CASE Panic(g)
    BY <1>1, <2>1, <2>3, GoesKeeps DEF Panic, Away, Stages
  <2> QED
    BY <1>3, <2>2, <2>3 DEF CastWrite
<1>4. CASE CastWritten(g)
  <2>1. PICK s \in go[g].left :
          /\ UNCHANGED <<room, closed>> \/ room' = [room EXCEPT ![Owner[s]] = None]
          /\ Goes(g, "casting", go[g].left \ {s}, go[g].skip)
    BY <1>4 DEF CastWritten
  <2>2. go[g].at = "cast writes" /\ userConns' = userConns
    BY <1>4 DEF CastWritten, At
  <2>3. room' \in [Users -> Sessions \cup Nobody]
    BY <1>1, <2>1 DEF Nobody
  <2>4. PICK left \in SUBSET (Sessions \cup Users) : Goes(g, "casting", left, go[g].skip)
    BY <1>1, <2>1
  <2> QED
    BY <1>1, <2>2, <2>3, <2>4, GoesKeeps DEF Away, Stages
<1>5. CASE CastEnd(g)
  BY <1>1, <1>5, GoesKeeps DEF CastEnd, At, Away, Stages
<1> QED
  BY <1>2, <1>3, <1>4, <1>5 DEF Broadcast

LEMMA TellInv ==
  ASSUME HubInv, NEW g \in Goroutines, BroadcastToOtherParticipants(g)
  PROVE  HubInv'
<1>1. /\ go[g].left \in SUBSET (Sessions \cup Users) /\ go[g].skip \in BOOLEAN
      /\ room \in [Users -> Sessions \cup Nobody]
  BY DEF HubInv, HubTypeOK
<1>2. CASE List(g)
  <2>1. go[g].at \in {"list", "signal"} /\ UNCHANGED <<userConns, room>>
    BY <1>2 DEF List, At
  <2>2. PICK all \in GetParticipants :
          \/ Goes(g, "telling", {u \in all \ {Owner[g]} : room[u] = None}, go[g].skip)
          \/ Goes(g, "signalling", all \ {Owner[g]}, go[g].skip)
    BY <1>2 DEF List
  <2> DEFINE others == all \ {Owner[g]}
             absent == {u \in others : room[u] = None}
  <2>3. others \in SUBSET (Sessions \cup Users) /\ absent \in SUBSET (Sessions \cup Users)
    BY DEF GetParticipants
  <2>4. CASE Goes(g, "telling", absent, go[g].skip)
    BY <1>1, <2>1, <2>3, <2>4, GoesKeeps DEF Away, Stages
  <2>5. CASE Goes(g, "signalling", others, go[g].skip)
    BY <1>1, <2>1, <2>3, <2>5, GoesKeeps DEF Away, Stages
  <2> QED
    BY <2>2, <2>4, <2>5
<1>3. CASE Tell(g)
  <2>1. go[g].at \in {"telling", "signalling", "echoing"} /\ UNCHANGED <<userConns, room>>
    BY <1>3 DEF Tell, Telling
  <2>2. (\E u : go' = [go EXCEPT ![g].left = @ \ {u}]) \/ Panic(g)
    BY <1>3 DEF Tell
  <2>3. CASE Panic(g)
    BY <1>1, <2>1, <2>3, GoesKeeps DEF Panic, Away, Stages
  <2> QED
    BY <2>1, <2>2, <2>3, TellsKeeps
<1>4. CASE Told(g)
  <2>1. UNCHANGED <<userConns, room, go>>
    BY <1>4 DEF Told
  <2> QED
    BY <2>1, GoesOnInv DEF HubInv, HubTypeOK, GoesOn
<1>5. CASE TellEnd(g)
  <2>1. /\ go[g].at \in {"telling", "signalling", "echoing"} /\ UNCHANGED <<userConns, room>>
        /\ Goes(g, IF At(g, "telling") THEN After(g) ELSE "reading", {}, go[g].skip)
    BY <1>5 DEF TellEnd, Telling
  <2>2. CASE Goes(g, "reading", {}, go[g].skip)
    BY <1>1, <2>1, <2>2, GoesKeeps DEF Away, Stages
  <2>3. CASE Goes(g, "echo", {}, go[g].skip)
    BY <1>1, <2>1, <2>3, GoesKeeps DEF Away, Stages
  <2>4. CASE Goes(g, "done", {}, go[g].skip)
    BY <1>1, <2>1, <2>4, GoesKeeps DEF Away, Stages
  <2> QED
    BY <2>1, <2>2, <2>3, <2>4 DEF After
<1> QED
  BY <1>2, <1>3, <1>4, <1>5 DEF BroadcastToOtherParticipants
\* A session is listed by Connect and unlisted by Leave: for the other sessions
\* of its user it is the one that came between.
LEMMA HandleWSInv ==
  ASSUME HubInv, NEW s \in Sessions, HandleWS(s)
  PROVE  HubInv'
<1>1. /\ s \in Goroutines /\ Owner[s] \in Users /\ go[s].skip \in BOOLEAN
      /\ room \in [Users -> Sessions \cup Nobody]
  BY GoroutinesAssumption DEF HubInv, HubTypeOK, Goroutines
<1>2. CASE Connect(s)
  <2>1. /\ userConns' = [userConns EXCEPT ![Owner[s]] = s] /\ room' = room
        /\ go' = [go EXCEPT ![s] = [at |-> "chats", left |-> {}, skip |-> FALSE]]
    BY <1>2 DEF Connect, Goes
  <2>2. HubTypeOK'
    BY <1>1, <2>1 DEF HubInv, HubTypeOK, Stages
  <2>3. userConns'[Owner[s]] = s /\ go'[s].at = "chats"
    BY <1>1, <2>1 DEF HubInv, HubTypeOK
  <2>4. ASSUME NEW t \in Sessions \ {s}
        PROVE  /\ go'[t] = go[t]
               /\ Owner[t] # Owner[s] => userConns'[Owner[t]] = userConns[Owner[t]]
    BY <1>1, <2>1, GoroutinesAssumption DEF HubInv, HubTypeOK, Goroutines
  <2>5. ASSUME NEW t \in Sessions, go'[t].at \notin Away
        PROVE  \/ userConns'[Owner[t]] = t
               \/ \E u \in Sessions \ {t} : Owner[u] = Owner[t] /\ go'[u].at # "new"
    <3>1. CASE t = s
      BY <3>1, <2>3
    <3>2. CASE t # s /\ Owner[t] = Owner[s]
      BY <3>2, <2>3
    <3>3. CASE t # s /\ Owner[t] # Owner[s]
      <4>1. PICK u \in Sessions : \/ u = t /\ userConns[Owner[t]] = t
                                  \/ u # t /\ Owner[u] = Owner[t] /\ go[u].at # "new"
        BY <3>3, <2>4, <2>5 DEF HubInv, SessionListed, At, Away
      <4> QED
        BY <3>3, <4>1, <2>3, <2>4
    <3> QED
      BY <3>1, <3>2, <3>3
  <2> QED
    BY <2>2, <2>5 DEF HubInv, SessionListed, At, Away
<1>3. CASE GetChats(s)
  <2>1. go[s].at = "chats" /\ UNCHANGED <<userConns, room>>
    BY <1>3 DEF GetChats, At
  <2>2. CASE Goes(s, "join", {}, TRUE)
    BY <1>1, <2>1, <2>2, GoesKeeps DEF Away, Stages
  <2>3. CASE Goes(s, "reading", {}, FALSE)
    BY <1>1, <2>1, <2>3, GoesKeeps DEF Away, Stages
  <2> QED
    BY <1>3, <2>2, <2>3 DEF GetChats
<1>4. CASE JoinRooms(s)
  <2>1. /\ go[s].at = "join" /\ userConns' = userConns /\ Goes(s, "reading", {}, TRUE)
        /\ room' \in [Users -> Sessions \cup Nobody]
    BY <1>1, <1>4 DEF JoinRooms, At
  <2> QED
    BY <1>1, <2>1, GoesKeeps DEF Away, Stages
<1>5. CASE Receive(s)
  <2>1. go[s].at = "reading" /\ UNCHANGED <<userConns, room>>
    BY <1>5 DEF Receive, At
  <2>2. CASE Goes(s, "cast", {}, Joined(s))
    BY <1>1, <2>1, <2>2, GoesKeeps DEF Away, Stages, Joined
  <2>3. CASE Goes(s, "signal", {}, Joined(s))
    BY <1>1, <2>1, <2>3, GoesKeeps DEF Away, Stages, Joined
  <2> QED
    BY <1>5, <2>2, <2>3 DEF Receive
<1>6. CASE Echo(s)
  <2> DEFINE self == IF room[Owner[s]] = None THEN {Owner[s]} ELSE {}
  <2>1. /\ go[s].at = "echo" /\ UNCHANGED <<userConns, room>>
        /\ Goes(s, "echoing", self, go[s].skip)
    BY <1>6 DEF Echo, At
  <2>2. self \in SUBSET (Sessions \cup Users)
    BY <1>1
  <2> HIDE DEF self
  <2> QED
    BY <1>1, <2>1, <2>2, GoesKeeps DEF Away, Stages
<1>7. CASE ReadError(s)
  BY <1>1, <1>7, GoesKeeps DEF ReadError, At, Away, Stages, Joined
<1>8. CASE Leave(s)
  <2>1. /\ userConns' = [userConns EXCEPT ![Owner[s]] = None] /\ room' = room
        /\ go' = [go EXCEPT ![s] = [at |-> "leave rooms", left |-> {}, skip |-> go[s].skip]]
    BY <1>8 DEF Leave, Goes, Joined
  <2>2. HubTypeOK'
    BY <1>1, <2>1 DEF HubInv, HubTypeOK, Stages, Nobody
  <2>3. go'[s].at = "leave rooms"
    BY <1>1, <2>1 DEF HubInv, HubTypeOK
  <2>4. ASSUME NEW t \in Sessions \ {s}
        PROVE  /\ go'[t] = go[t]
               /\ Owner[t] # Owner[s] => userConns'[Owner[t]] = userConns[Owner[t]]
    BY <1>1, <2>1, GoroutinesAssumption DEF HubInv, HubTypeOK, Goroutines
  <2>5. ASSUME NEW t \in Sessions, go'[t].at \notin Away
        PROVE  \/ userConns'[Owner[t]] = t
               \/ \E u \in Sessions \ {t} : Owner[u] = Owner[t] /\ go'[u].at # "new"
    <3>1. t # s
      BY <2>3, <2>5 DEF Away
    <3>2. CASE Owner[t] = Owner[s]
      BY <3>1, <3>2, <2>3
    <3>3. CASE Owner[t] # Owner[s]
      <4>1. PICK u \in Sessions : \/ u = t /\ userConns[Owner[t]] = t
                                  \/ u # t /\ Owner[u] = Owner[t] /\ go[u].at # "new"
        BY <3>1, <2>4, <2>5 DEF HubInv, SessionListed, At, Away
      <4> QED
        BY <3>1, <3>3, <4>1, <2>4
    <3> QED
      BY <3>2, <3>3
  <2> QED
    BY <2>2, <2>5 DEF HubInv, SessionListed, At, Away
<1>9. CASE LeaveRooms(s)
  <2>1. /\ go[s].at = "leave rooms" /\ userConns' = userConns /\ Goes(s, "done", {}, FALSE)
        /\ room' \in [Users -> Sessions \cup Nobody]
    BY <1>1, <1>9 DEF LeaveRooms, At, Nobody
  <2> QED
    BY <1>1, <2>1, GoesKeeps DEF Away, Stages
<1> QED
  BY <1>2, <1>3, <1>4, <1>5, <1>6, <1>7, <1>8, <1>9 DEF HandleWS

LEMMA RequestInv ==
  ASSUME HubInv, NEW q \in Requests, HandleDeleteMessage(q) \/ HandleSendFriendRequest(q)
  PROVE  HubInv'
<1>1. /\ q \in Goroutines /\ q \notin Sessions
      /\ room' \in [Users -> Sessions \cup Nobody] /\ userConns' = userConns
  BY GoroutinesAssumption DEF HubInv, HubTypeOK, Goroutines, HandleDeleteMessage, HandleSendFriendRequest
<1>2. CASE HandleDeleteMessage(q)
  BY <1>1, <1>2, GoesKeeps DEF HandleDeleteMessage, Stages
<1>3. CASE HandleSendFriendRequest(q)
  <2>1. PICK u \in Users : Goes(q, "telling", {u}, FALSE)
    BY <1>3 DEF HandleSendFriendRequest
  <2>2. {u} \in SUBSET (Sessions \cup Users)
    OBVIOUS
  <2> QED
    BY <1>1, <2>1, <2>2, GoesKeeps DEF Stages
<1> QED
  BY <1>2, <1>3

\* A session that has begun and not begun to leave is listed for its user, or
\* the user has had another, for any users, sessions and requests.
THEOREM SessionsAreListed == HubSpec => []SessionListed
<1>1. HubInit => HubInv
  BY HubInitInv
<1>2. HubInv /\ [HubNext]_hubvars => HubInv'
  <2> SUFFICES ASSUME HubInv, [HubNext]_hubvars PROVE HubInv'
    OBVIOUS
  <2>1. CASE UNCHANGED hubvars
    BY <2>1 DEF hubvars, HubInv, HubTypeOK, SessionListed, At
  <2>2. ASSUME NEW s \in Sessions, Stall(s) \/ Resume(s) PROVE HubInv'
    <3>1. UNCHANGED <<userConns, room, go>>
      BY <2>2 DEF Stall, Resume
    <3> QED
      BY <3>1 DEF HubInv, HubTypeOK, SessionListed, At
  <2>3. ASSUME NEW s \in Sessions, HandleWS(s) PROVE HubInv'
    BY <2>3, HandleWSInv
  <2> QED
    BY <2>1, <2>2, <2>3, RequestInv, BroadcastInv, TellInv DEF HubNext
<1>3. HubInv => SessionListed
  BY DEF HubInv
<1> QED
  BY <1>1, <1>2, <1>3, PTL DEF HubSpec

-----------------------------------------------------------------------------
(* The store.                                                              *)

\* msg is a number while a message is being added; afterwards it is what
\* NewestOf has chosen.
StTypeOK ==
  /\ messages \subseteq Nat /\ nextId \in Nat
  /\ h = [p \in Handlers |-> h[p]]
  /\ \A p \in Handlers : h[p].at = "commit" => h[p].msg \in Nat

\* The list and the preview agree with the table, or somebody is about to
\* delete or to set them, or the history says why not; and who has not been
\* overtaken holds what the table holds.
StInv ==
  /\ StTypeOK
  /\ \/ msgCache \in {{NoCache}, messages} \/ staleCache
     \/ \E p \in Handlers : h[p].at \in {"look", "set", "del"}
  /\ \/ preview = NewestOf(messages) \/ stalePreview
     \/ \E p \in Handlers : h[p].at \in {"look", "set"}
  /\ \A p \in Handlers \ behind :
       /\ h[p].at = "fill" => h[p].read = messages
       /\ h[p].at = "set" => h[p].msg = NewestOf(messages)

\* The message that began last is the newest of a chat.
LEMMA NewestOfAddition ==
  ASSUME NEW set \in SUBSET Nat, NEW m \in Nat, ~ \E n \in set : n > m
  PROVE  NewestOf(set \cup {m}) = m
<1>1. \A n \in set \cup {m} : n <= m
  OBVIOUS
<1>2. \A n \in set \cup {m} : (\A k \in set \cup {m} : k <= n) => n = m
  BY <1>1
<1> QED
  BY <1>1, <1>2 DEF NewestOf

\* What a step makes of the handlers.
LEMMA StepsIs ==
  ASSUME StTypeOK, NEW p \in Handlers, NEW stage, NEW msg, NEW read, Steps(p, stage, msg, read)
  PROVE  /\ h' = [q \in Handlers |-> h'[q]]
         /\ h'[p].at = stage /\ h'[p].msg = msg /\ h'[p].read = read
         /\ \A q \in Handlers \ {p} : h'[q] = h[q]
  BY DEF StTypeOK, Steps

\* Reading: the table and the preview stay as they are.
LEMMA ReadingInv ==
  ASSUME StInv, NEW p \in Handlers, HandleGetMessages(p) \/ SelectLast(p)
  PROVE  StInv'
<1>1. CASE GetMessages(p)
  <2>1. /\ h[p].at = "idle" /\ behind' = behind \ {p} /\ Steps(p, "fill", 0, messages)
        /\ UNCHANGED <<messages, nextId, preview, msgCache, staleCache, stalePreview>>
    BY <1>1 DEF GetMessages
  <2> QED
    BY <2>1, StepsIs DEF StInv, StTypeOK
<1>2. CASE Fill(p)
  <2>1. /\ h[p].at = "fill" /\ Steps(p, "idle", 0, {})
        /\ \/ msgCache' = h[p].read /\ staleCache' = (p \in behind)
           \/ UNCHANGED <<msgCache, staleCache>>
        /\ UNCHANGED <<messages, nextId, preview, behind, stalePreview>>
    BY <1>2 DEF Fill
  <2>2. /\ StTypeOK' /\ h'[p].at = "idle"
        /\ \A q \in Handlers \ {p} : h'[q] = h[q]
    BY <2>1, StepsIs DEF StInv, StTypeOK
  <2>3. \/ msgCache' \in {{NoCache}, messages'} \/ staleCache'
        \/ \E q \in Handlers : h'[q].at \in {"look", "set", "del"}
    <3>1. CASE UNCHANGED <<msgCache, staleCache>>
      BY <2>1, <2>2, <3>1 DEF StInv
    <3>2. CASE msgCache' = h[p].read /\ staleCache' = (p \in behind)
      <4>1. CASE p \in behind
        BY <3>2, <4>1
      <4>2. CASE p \notin behind
        BY <2>1, <3>2, <4>2 DEF StInv
      <4> QED
        BY <4>1, <4>2
    <3> QED
      BY <2>1, <3>1, <3>2
  <2> QED
    BY <2>1, <2>2, <2>3 DEF StInv
<1>3. CASE SelectLast(p)
  <2>1. UNCHANGED <<messages, nextId, preview, msgCache, staleCache, stalePreview>>
    BY <1>3 DEF SelectLast
  <2>2. CASE Steps(p, "set", NewestOf(messages), {}) /\ behind' = behind \ {p}
    BY <2>1, <2>2, StepsIs DEF StInv, StTypeOK
  <2>3. CASE Steps(p, "set", 0, {}) /\ behind' = behind \cup {p}
    BY <2>1, <2>3, StepsIs DEF StInv, StTypeOK
  <2> QED
    BY <1>3, <2>2, <2>3 DEF SelectLast
<1> QED
  BY <1>1, <1>2, <1>3 DEF HandleGetMessages

LEMMA AddMessageInv ==
  ASSUME StInv, NEW p \in Handlers, AddMessage(p)
  PROVE  StInv'
<1>1. CASE BeginAdd(p)
  <2>1. /\ h[p].at = "idle" /\ nextId' = nextId + 1 /\ Steps(p, "commit", nextId, {})
        /\ UNCHANGED <<messages, preview, msgCache, behind, staleCache, stalePreview>>
    BY <1>1 DEF BeginAdd
  <2> QED
    BY <2>1, StepsIs DEF StInv, StTypeOK
<1>2. CASE CommitAdd(p)
  <2>1. /\ h[p].at = "commit" /\ messages' = messages \cup {h[p].msg}
        /\ \/ preview' = h[p].msg /\ stalePreview' = (\E m \in messages : m > h[p].msg)
           \/ stalePreview' = TRUE
        /\ behind' = (behind \ {p}) \cup {q \in Handlers \ {p} : h[q].at \in {"fill", "set"}}
        /\ UNCHANGED <<nextId, msgCache>>
    BY <1>2 DEF CommitAdd, Overtakes
  <2>7. PICK stage \in {"del", "idle"} :
          Steps(p, stage, 0, {}) /\ (stage = "idle" => staleCache')
    BY <1>2 DEF CommitAdd
  <2>2. h[p].msg \in Nat /\ messages \in SUBSET Nat
    BY <2>1 DEF StInv, StTypeOK
  <2>3. StTypeOK'
    BY <2>1, <2>2, <2>7, StepsIs DEF StInv, StTypeOK
  <2>4. preview' = NewestOf(messages') \/ stalePreview'
    BY <2>1, <2>2, NewestOfAddition
  <2>5. \A q \in Handlers \ behind' : h'[q].at \notin {"fill", "set"}
    BY <2>1, <2>7, StepsIs DEF StInv
  <2>6. h'[p].at = "del" \/ staleCache'
    BY <2>7, StepsIs DEF StInv
  <2> QED
    BY <2>3, <2>4, <2>5, <2>6 DEF StInv
<1>3. CASE RollbackAdd(p)
  <2>1. /\ h[p].at = "commit" /\ Steps(p, "idle", 0, {})
        /\ UNCHANGED <<messages, nextId, preview, msgCache, behind, staleCache, stalePreview>>
    BY <1>3 DEF RollbackAdd
  <2> QED
    BY <2>1, StepsIs DEF StInv, StTypeOK
<1> QED
  BY <1>1, <1>2, <1>3 DEF AddMessage

LEMMA DeletionInv ==
  ASSUME StInv, NEW p \in Handlers, DeleteRow(p) \/ UpdatePreview(p) \/ DeleteCache(p)
  PROVE  StInv'
<1>1. CASE DeleteRow(p)
  <2>1. /\ h[p].at = "idle" /\ messages' \subseteq messages
        /\ behind' = (behind \ {p}) \cup {q \in Handlers \ {p} : h[q].at \in {"fill", "set"}}
        /\ UNCHANGED <<nextId, preview, msgCache>>
    BY <1>1 DEF DeleteRow, Overtakes
  <2>2. PICK stage \in {"look", "idle"} :
          Steps(p, stage, 0, {}) /\ (stage = "idle" => staleCache' /\ stalePreview')
    BY <1>1 DEF DeleteRow
  <2>3. StTypeOK'
    BY <2>1, <2>2, StepsIs DEF StInv, StTypeOK
  <2>4. \A q \in Handlers \ behind' : h'[q].at \notin {"fill", "set"}
    BY <2>1, <2>2, StepsIs DEF StInv
  <2>5. h'[p].at = "look" \/ (staleCache' /\ stalePreview')
    BY <2>2, StepsIs DEF StInv
  <2> QED
    BY <2>3, <2>4, <2>5 DEF StInv
<1>2. CASE UpdatePreview(p)
  <2>1. /\ h[p].at = "set" /\ Steps(p, "del", 0, {})
        /\ \/ preview' = h[p].msg /\ stalePreview' = (p \in behind)
           \/ stalePreview' = TRUE /\ UNCHANGED preview
        /\ UNCHANGED <<messages, nextId, msgCache, behind, staleCache>>
    BY <1>2 DEF UpdatePreview
  <2>2. /\ StTypeOK' /\ h'[p].at = "del"
        /\ \A q \in Handlers \ {p} : h'[q] = h[q]
    BY <2>1, StepsIs DEF StInv, StTypeOK
  <2>3. preview' = NewestOf(messages') \/ stalePreview'
    <3>1. CASE stalePreview' = TRUE
      BY <3>1
    <3>2. CASE preview' = h[p].msg /\ stalePreview' = (p \in behind)
      <4>1. CASE p \in behind
        BY <3>2, <4>1
      <4>2. CASE p \notin behind
        BY <2>1, <3>2, <4>2 DEF StInv
      <4> QED
        BY <4>1, <4>2
    <3> QED
      BY <2>1, <3>1, <3>2
  <2> QED
    BY <2>1, <2>2, <2>3 DEF StInv
<1>3. CASE DeleteCache(p)
  <2>1. /\ h[p].at = "del" /\ Steps(p, "idle", 0, {})
        /\ \/ msgCache' = {NoCache} /\ staleCache' = FALSE
           \/ staleCache' = TRUE /\ UNCHANGED msgCache
        /\ UNCHANGED <<messages, nextId, preview, behind, stalePreview>>
    BY <1>3 DEF DeleteCache
  <2> QED
    BY <2>1, StepsIs DEF StInv, StTypeOK
<1> QED
  BY <1>1, <1>2, <1>3

LEMMA DieInv == StInv /\ Die => StInv'
<1> SUFFICES ASSUME StInv, Die PROVE StInv'
  OBVIOUS
<1>1. \A p \in Handlers : h'[p].at = "idle"
  BY DEF Die, Idle
<1>2. StTypeOK'
  BY <1>1 DEF Die, StInv, StTypeOK
<1>3. msgCache' \in {{NoCache}, messages'} \/ staleCache'
  BY DEF Die, StInv
<1>4. preview' = NewestOf(messages') \/ stalePreview'
  BY DEF Die, StInv
<1> QED
  BY <1>1, <1>2, <1>3, <1>4 DEF StInv

\* A settled store agrees with its cache and its preview, or the history says
\* why not, for any number of handlers and messages.
THEOREM SettledStoresAgree == StSpec => []SettledStoreAgrees
<1>1. StInit => StInv
  BY DEF StInit, StInv, StTypeOK, Idle, NewestOf
<1>2. StInv /\ [StNext]_stvars => StInv'
  <2> SUFFICES ASSUME StInv, [StNext]_stvars PROVE StInv'
    OBVIOUS
  <2>1. CASE UNCHANGED stvars
    BY <2>1 DEF stvars, StInv, StTypeOK
  <2>2. CASE Expire
    BY <2>2 DEF Expire, StInv, StTypeOK
  <2>3. CASE \E p \in Handlers : HandleGetMessages(p) \/ AddMessage(p) \/ DeleteMessage(p) \/ DeleteCache(p)
    BY <2>3, ReadingInv, AddMessageInv, DeletionInv DEF DeleteMessage
  <2> QED
    BY <2>1, <2>2, <2>3, DieInv DEF StNext
<1>3. StInv => SettledStoreAgrees
  BY DEF StInv, SettledStoreAgrees
<1> QED
  BY <1>1, <1>2, <1>3, PTL DEF StSpec

-----------------------------------------------------------------------------
(* Friends.                                                                *)

LfTypeOK ==
  /\ state \in [FriendRequests -> {"none", "pending", "accepted", "declined"}]
  /\ friendRows \subseteq {Both(r) : r \in FriendRequests}
  /\ asker \in [Askers -> [at: {"idle", "pending?", "upsert"},
                           req: FriendRequests \cup {NoRequest}]]
  /\ \A p \in Askers : asker[p].at # "idle" => asker[p].req \in FriendRequests

\* A goroutine that has looked, and that nobody has overtaken, asks somebody
\* who is no friend.
LookHolds ==
  \A p \in Askers \ misled :
    asker[p].at # "idle" => Both(asker[p].req) \notin friendRows

PendingExcused ==
  \A r \in FriendRequests :
    state[r] = "pending" /\ Both(r) \in friendRows => r \in excused

AcceptedAreFriends ==
  \A r \in FriendRequests : state[r] = "accepted" => Both(r) \in friendRows

LfInv == LfTypeOK /\ LookHolds /\ PendingExcused /\ AcceptedAreFriends

\* Two requests between the same two users are the same or opposite.
LEMMA SamePair ==
  ASSUME NEW r \in FriendRequests, NEW q \in FriendRequests, Both(r) = Both(q)
  PROVE  q = r \/ q = Opposite(r)
<1>1. r = <<r[1], r[2]>> /\ q = <<q[1], q[2]>> /\ r[1] # r[2] /\ q[1] # q[2]
  BY DEF FriendRequests
<1>2. \/ q[1] = r[1] /\ q[2] = r[2]
      \/ q[1] = r[2] /\ q[2] = r[1]
  BY <1>1 DEF Both
<1> QED
  BY <1>1, <1>2 DEF Opposite

LEMMA LfInitInv == LfInit => LfInv
  BY DEF LfInit, LfInv, LfTypeOK, LookHolds, PendingExcused, AcceptedAreFriends

LEMMA AskInv ==
  ASSUME LfInv, NEW p \in Askers, SendFriendRequest(p)
  PROVE  LfInv'
<1> USE NoRequestAssumption DEF LfInv
<1>1. ASSUME NEW r \in FriendRequests, LookForFriendship(p, r)
      PROVE  LfInv'
  <2>1. LfTypeOK'
    BY <1>1 DEF LookForFriendship, Asks, LfTypeOK
  <2>2. LookHolds'
    BY <1>1 DEF LookForFriendship, Asks, LfTypeOK, LookHolds
  <2> QED
    BY <1>1, <2>1, <2>2 DEF LookForFriendship, PendingExcused, AcceptedAreFriends
<1>2. CASE LookForPending(p)
  <2>1. LfTypeOK'
    BY <1>2 DEF LookForPending, Asks, LfTypeOK
  <2>2. LookHolds'
    BY <1>2 DEF LookForPending, Asks, LfTypeOK, LookHolds
  <2> QED
    BY <1>2, <2>1, <2>2 DEF LookForPending, PendingExcused, AcceptedAreFriends
<1>3. CASE Upsert(p)
  <2>0. PICK r \in FriendRequests : r = asker[p].req
    BY <1>3 DEF Upsert, LfTypeOK
  <2>1. LfTypeOK'
    BY <1>3 DEF Upsert, Asks, LfTypeOK
  <2>2. LookHolds'
    BY <1>3 DEF Upsert, Asks, LfTypeOK, LookHolds
  <2>3. p \notin misled => Both(r) \notin friendRows
    BY <1>3, <2>0 DEF Upsert, LookHolds
  <2>4. PendingExcused'
    BY <1>3, <2>0, <2>3 DEF Upsert, LfTypeOK, PendingExcused
  <2>5. AcceptedAreFriends'
    BY <1>3, <2>0 DEF Upsert, LfTypeOK, AcceptedAreFriends
  <2> QED
    BY <2>1, <2>2, <2>4, <2>5
<1> QED
  BY <1>1, <1>2, <1>3 DEF SendFriendRequest

LEMMA AcceptInv ==
  ASSUME LfInv, NEW r \in FriendRequests, HandleAcceptFriendRequest(r)
  PROVE  LfInv'
<1> USE NoRequestAssumption DEF LfInv, HandleAcceptFriendRequest, AcceptFriendRequest
<1>1. LfTypeOK'
  BY DEF LfTypeOK
<1>2. LookHolds'
  <2> SUFFICES ASSUME NEW p \in Askers, p \notin misled', asker[p].at # "idle"
               PROVE  Both(asker[p].req) \notin friendRows'
    BY DEF LookHolds
  <2>1. asker[p].req \in FriendRequests /\ asker[p].req # NoRequest
    BY DEF LfTypeOK
  <2>2. Both(asker[p].req) # Both(r) /\ p \notin misled
    BY <2>1
  <2> QED
    BY <2>2 DEF LookHolds
<1>3. PendingExcused'
  <2> SUFFICES ASSUME NEW q \in FriendRequests, state'[q] = "pending", Both(q) \in friendRows'
               PROVE  q \in excused'
    BY DEF PendingExcused
  <2>1. q # r /\ state[q] = "pending"
    BY DEF LfTypeOK
  <2>2. CASE Both(q) \in friendRows
    BY <2>1, <2>2 DEF PendingExcused
  <2>3. CASE Both(q) = Both(r)
    BY <2>1, <2>3, SamePair
  <2> QED
    BY <2>2, <2>3
<1>4. AcceptedAreFriends'
  BY DEF AcceptedAreFriends, LfTypeOK
<1> QED
  BY <1>1, <1>2, <1>3, <1>4

LEMMA DeclineInv ==
  ASSUME LfInv, NEW r \in FriendRequests, HandleDeclineFriendRequest(r)
  PROVE  LfInv'
<1> USE DEF LfInv, HandleDeclineFriendRequest, DeclineFriendRequest
<1>1. LfTypeOK' /\ LookHolds'
  BY DEF LfTypeOK, LookHolds
<1>2. PendingExcused' /\ AcceptedAreFriends'
  BY DEF LfTypeOK, PendingExcused, AcceptedAreFriends
<1> QED
  BY <1>1, <1>2

\* What users are shown is the rows.
LEMMA ShownAreRows == LfInv => FriendListsAgree
<1> SUFFICES ASSUME LfInv PROVE FriendListsAgree
  OBVIOUS
<1>1. ASSUME NEW u \in People, NEW v \in GetFriendRequests(u) \cap GetFriends(u)
      PROVE  <<v, u>> \in excused
  <2>1. v \in People /\ v # u /\ state[<<v, u>>] = "pending" /\ {u, v} \in friendRows
    BY DEF GetFriendRequests, GetFriends
  <2>2. <<v, u>> \in FriendRequests /\ Both(<<v, u>>) = {u, v}
    BY <2>1 DEF FriendRequests, Both
  <2> QED
    BY <2>1, <2>2 DEF LfInv, PendingExcused
<1>2. ASSUME NEW r \in FriendRequests, state[r] = "accepted"
      PROVE  r[1] \in GetFriends(r[2])
  <2>1. r[1] \in People /\ r[2] \in People /\ r[1] # r[2] /\ Both(r) = {r[2], r[1]}
    BY DEF FriendRequests, Both
  <2> QED
    BY <1>2, <2>1 DEF LfInv, AcceptedAreFriends, GetFriends
<1> QED
  BY <1>1, <1>2 DEF FriendListsAgree

\* However askers, answers and failed looks overlap, a user is asked by a
\* friend only for the reasons FriendListsAgree names, and whoever accepted a
\* request has the friend on the list.
THEOREM ListsAgree == LfSpec => []FriendListsAgree
<1>1. LfInv /\ [LfNext]_lfvars => LfInv'
  <2> SUFFICES ASSUME LfInv, [LfNext]_lfvars PROVE LfInv'
    OBVIOUS
  <2>1. CASE LfNext
    BY <2>1, AskInv, AcceptInv, DeclineInv DEF LfNext
  <2>2. CASE UNCHANGED lfvars
    BY <2>2 DEF lfvars, LfInv, LfTypeOK, LookHolds, PendingExcused, AcceptedAreFriends
  <2> QED
    BY <2>1, <2>2
<1> QED
  BY <1>1, LfInitInv, ShownAreRows, PTL DEF LfSpec
=============================================================================
