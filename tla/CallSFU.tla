------------------------------- MODULE CallSFU -------------------------------
(***************************************************************************)
(* The selective forwarding unit of the call service (wsfu.go).  One loop  *)
(* goroutine handles the signals CALL_JOIN, CALL_ANSWER, CALL_ICE and      *)
(* CALL_HANGUP in turn.  Beside it run, per peer connection, the goroutine *)
(* pion starts for OnTrack (relay) and those it starts for a change of the *)
(* connection's state (removePeer).  They share the rooms under s.mu and a *)
(* peer under p.mu; a critical section is one step here, and what a        *)
(* goroutine read in one section may be out of date in its next.           *)
(* broadcastPeers and send only publish: they change nothing here.         *)
(***************************************************************************)
EXTENDS Naturals, FiniteSets

CONSTANTS
  Chats, Users,
  PCs,        \* the peer connections the run may create
  None,
  MaxPeers,   \* maxPeersPerRoom
  MaxIce      \* candidates buffered per peer: 50

ASSUME NoneFresh == None \notin PCs \union Chats \union Users
ASSUME MaxPeersType == MaxPeers \in Nat
ASSUME MaxIceType == MaxIce \in Nat

VARIABLES
  peers,      \* chat -> user -> the registered connection, or None
  tracks,     \* chat -> user -> the connection whose audio is forwarded, or None
  home,       \* connection -> the chat and user it was made for
  state,      \* connection -> its life: "unused", "open", "failed" or "closed"
  events,     \* connections whose state-change goroutine has not reached removePeer
  offering,   \* connections in have-local-offer; the others are stable
  answered,   \* connections with a remote description
  needsOffer, \* connections whose peer has needsOffer set
  ice,        \* connection -> number of candidates buffered in pendingICE
  senders,    \* connection -> the connections whose audio it is sent
  offered,    \* connection -> senders as the last offer described them
  thr,        \* goroutine -> what it is doing
  \* History, read by no guard:
  torn,       \* connections last negotiated from a snapshot another had overtaken
  usurped     \* connections whose track another one of the same user replaced

rooms == <<peers, tracks>>
conns == <<home, state, events, offering, answered, needsOffer, ice, senders, offered>>
history == <<torn, usurped>>
vars == <<rooms, conns, thr, history>>

-----------------------------------------------------------------------------
Loop == <<"loop", None>>
Relay(p) == <<"relay", p>>
Remover(p) == <<"remover", p>>
Threads == {Loop} \union ({"relay", "remover"} \X PCs)

\* close, spread, each and apply are the steps of removePeer, renegotiateAll
\* and negotiate, which every goroutine runs; next is where it goes from there.
Labels == {"idle", "admit", "register", "reading", "shut", "done",
           "close", "spread", "each", "apply"}

Targets == {"idle", "admit", "reading", "done"}

ThreadState == [at: Labels, next: Targets, chat: Chats \union {None}, user: Users \union {None},
                pc: PCs \union {None},   \* the connection it was started for, or closes
                todo: SUBSET PCs,        \* those renegotiateAll still has to visit
                cur: PCs \union {None},  \* the one being negotiated
                snap: SUBSET PCs,        \* the tracks negotiate cloned
                late: BOOLEAN]           \* cur was negotiated by another since

Resting == [at |-> "idle", next |-> "idle", chat |-> None, user |-> None, pc |-> None,
            todo |-> {}, cur |-> None, snap |-> {}, late |-> FALSE]

Ended == [Resting EXCEPT !.at = "done", !.next = "done"]

Registered(c) == {peers[c][u] : u \in Users} \ {None}
Live(c) == {tracks[c][u] : u \in Users} \ {None}
Closing(c, u, p, next) == [Resting EXCEPT !.at = "close", !.next = next,
                                          !.chat = c, !.user = u, !.pc = p]

\* What negotiate leaves q sending when it has cloned the tracks snap: all
\* of them but the audio of q's own user.
Wanted(q, snap) == {x \in snap : home[x].user # home[q].user}

\* delete(r.peers, u), and the room with it when that was its last peer.
Deregister(c, u) ==
  /\ peers' = [peers EXCEPT ![c][u] = None]
  /\ tracks' = IF Registered(c) = {peers[c][u]}
               THEN [tracks EXCEPT ![c] = [v \in Users |-> None]]
               ELSE tracks

\* pc.Close(), which does nothing the second time.  It is a state change too:
\* its goroutine joins one for "failed" still pending, as the later of the two
\* finds nothing left to do.  What nobody reads of a closed connection is reset.
ClosePC(p, pending) ==
  /\ state' = [state EXCEPT ![p] = "closed"]
  /\ events' = IF state[p] = "closed" THEN pending ELSE pending \union {p}
  /\ offering' = offering \ {p}
  /\ needsOffer' = needsOffer \ {p}
  /\ senders' = [senders EXCEPT ![p] = {}]
  /\ offered' = [offered EXCEPT ![p] = {}]
  /\ ice' = [ice EXCEPT ![p] = 0]
  /\ torn' = torn \ {p}

Init ==
  /\ peers = [c \in Chats |-> [u \in Users |-> None]]
  /\ tracks = [c \in Chats |-> [u \in Users |-> None]]
  /\ home = [p \in PCs |-> [chat |-> None, user |-> None]]
  /\ state = [p \in PCs |-> "unused"]
  /\ events = {} /\ offering = {} /\ answered = {} /\ needsOffer = {}
  /\ ice = [p \in PCs |-> 0]
  /\ senders = [p \in PCs |-> {}]
  /\ offered = [p \in PCs |-> {}]
  /\ thr = [t \in Threads |-> Resting]
  /\ torn = {} /\ usurped = {}

-----------------------------------------------------------------------------
(* The loop: one signal at a time.  leave finds the registered connection  *)
(* and removes it; a connection removed in between only gets closed twice. *)
Signal(c, u, next) ==
  /\ thr[Loop].at = "idle"
  /\ IF peers[c][u] = None
     THEN /\ thr' = [thr EXCEPT ![Loop] = [Resting EXCEPT !.at = next, !.chat = c, !.user = u]]
          /\ UNCHANGED rooms
     ELSE /\ Deregister(c, u)
          /\ thr' = [thr EXCEPT ![Loop] = Closing(c, u, peers[c][u], next)]
  /\ UNCHANGED <<conns, history>>

Join(c, u) == Signal(c, u, "admit")

Hangup(c, u) == peers[c][u] # None /\ Signal(c, u, "idle")

\* The room is full, or pion makes no connection: the join ends here.
Refuse ==
  /\ thr[Loop].at = "admit"
  /\ thr' = [thr EXCEPT ![Loop] = Resting]
  /\ UNCHANGED <<rooms, conns, history>>

\* Mutation of Admit: one peer too many.
AdmitOneMore(p) ==
  LET t == thr[Loop] IN
  /\ t.at = "admit"
  /\ Cardinality(Registered(t.chat)) <= MaxPeers
  /\ state[p] = "unused"
  /\ state' = [state EXCEPT ![p] = "open"]
  /\ home' = [home EXCEPT ![p] = [chat |-> t.chat, user |-> t.user]]
  /\ thr' = [thr EXCEPT ![Loop] = [@ EXCEPT !.at = "register", !.pc = p]]
  /\ UNCHANGED <<rooms, events, offering, answered, needsOffer, ice, senders, offered, history>>

Admit(p) ==
  LET t == thr[Loop] IN
  /\ t.at = "admit"
  /\ Cardinality(Registered(t.chat)) < MaxPeers
  /\ state[p] = "unused"
  /\ state' = [state EXCEPT ![p] = "open"]
  /\ home' = [home EXCEPT ![p] = [chat |-> t.chat, user |-> t.user]]
  /\ thr' = [thr EXCEPT ![Loop] = [@ EXCEPT !.at = "register", !.pc = p]]
  /\ UNCHANGED <<rooms, events, offering, answered, needsOffer, ice, senders, offered, history>>

Register ==
  LET t == thr[Loop] IN
  /\ t.at = "register"
  /\ peers' = [peers EXCEPT ![t.chat][t.user] = t.pc]
  /\ thr' = [thr EXCEPT ![Loop] = [@ EXCEPT !.at = "each", !.next = "idle", !.todo = {t.pc}]]
  /\ UNCHANGED <<tracks, conns, history>>

\* Mutation of Answer: needsOffer is not looked at.
AnswerForgets(c, u) ==
  LET p == peers[c][u] IN
  /\ thr[Loop].at = "idle"
  /\ p # None
  /\ p \in offering
  /\ offering' = offering \ {p}
  /\ answered' = answered \union {p}
  /\ ice' = [ice EXCEPT ![p] = 0]
  /\ UNCHANGED <<rooms, home, state, events, needsOffer, senders, offered, thr, history>>

\* CALL_ANSWER: an answer no offer waits for is an error and changes nothing.
Answer(c, u) ==
  LET p == peers[c][u] IN
  /\ thr[Loop].at = "idle"
  /\ p # None
  /\ p \in offering
  /\ offering' = offering \ {p}
  /\ answered' = answered \union {p}
  /\ ice' = [ice EXCEPT ![p] = 0]
  /\ thr' = IF p \in needsOffer
            THEN [thr EXCEPT ![Loop] = [Resting EXCEPT !.at = "each", !.chat = c, !.user = u,
                                                       !.todo = {p}]]
            ELSE thr
  /\ UNCHANGED <<rooms, home, state, events, needsOffer, senders, offered, history>>

\* Mutation of Ice: the buffer has no limit.
IceUnbounded(c, u) ==
  LET p == peers[c][u] IN
  /\ thr[Loop].at = "idle"
  /\ p # None
  /\ p \notin answered
  /\ ice' = [ice EXCEPT ![p] = @ + 1]
  /\ UNCHANGED <<rooms, home, state, events, offering, answered, needsOffer, senders, offered,
                 thr, history>>

\* CALL_ICE before the answer: the candidate is buffered while there is room.
Ice(c, u) ==
  LET p == peers[c][u] IN
  /\ thr[Loop].at = "idle"
  /\ p # None
  /\ p \notin answered
  /\ ice[p] < MaxIce
  /\ ice' = [ice EXCEPT ![p] = @ + 1]
  /\ UNCHANGED <<rooms, home, state, events, offering, answered, needsOffer, senders, offered,
                 thr, history>>

\* The process is told to stop: Run returns and Close takes over.
Shutdown ==
  /\ thr[Loop].at = "idle"
  /\ thr' = [thr EXCEPT ![Loop] = [Resting EXCEPT !.at = "shut",
                                     !.todo = UNION {Registered(c) : c \in Chats}]]
  /\ peers' = [c \in Chats |-> [u \in Users |-> None]]
  /\ tracks' = [c \in Chats |-> [u \in Users |-> None]]
  /\ UNCHANGED <<conns, history>>

ShutdownClose(p) ==
  /\ thr[Loop].at = "shut"
  /\ p \in thr[Loop].todo
  /\ ClosePC(p, events)
  /\ thr' = [thr EXCEPT ![Loop].todo = @ \ {p}]
  /\ UNCHANGED <<rooms, home, answered, usurped>>

-----------------------------------------------------------------------------
(* The steps every goroutine shares: what is left of removePeer after its  *)
(* critical section, renegotiateAll and negotiate.                         *)

\* The goroutine t goes on, having nothing left to negotiate.
Proceed(t) ==
  CASE t.next = "idle" -> Resting
    [] t.next = "done" -> Ended
    [] OTHER -> [Resting EXCEPT !.at = t.next, !.chat = t.chat, !.user = t.user, !.pc = t.pc]

Visit(t, todo) == IF todo = {} THEN Proceed(t) ELSE [t EXCEPT !.at = "each", !.todo = todo]

\* (The Close and the copying of the peers that follows are one step: what
\* happens between them might as well happen before them.)
Close(t) ==
  /\ thr[t].at = "close"
  /\ ClosePC(thr[t].pc, events)
  /\ thr' = [thr EXCEPT ![t] = Visit(@, Registered(@.chat))]
  /\ UNCHANGED <<rooms, home, answered, usurped>>

\* renegotiateAll: the peers of the room, copied under s.mu.
Spread(t) ==
  /\ thr[t].at = "spread"
  /\ thr' = [thr EXCEPT ![t] = Visit(@, Registered(@.chat))]
  /\ UNCHANGED <<rooms, conns, history>>

\* negotiate, first half: the tracks of the room, cloned under s.mu.
Snapshot(t) ==
  /\ thr[t].at = "each"
  /\ \E q \in thr[t].todo :
       thr' = [thr EXCEPT ![t] = [thr[t] EXCEPT !.at = "apply", !.cur = q, !.todo = @ \ {q},
                                    !.snap = Live(thr[t].chat), !.late = FALSE]]
  /\ UNCHANGED <<rooms, conns, history>>

\* negotiate, second half, under p.mu: the senders are brought in line with
\* the clone, and an offer goes out unless the last one is unanswered.
Apply(t) ==
  LET q == thr[t].cur
      want == Wanted(q, thr[t].snap)
      moved == [thr EXCEPT ![t] = Visit([@ EXCEPT !.cur = None, !.snap = {}, !.late = FALSE],
                                        @.todo)] IN
  /\ thr[t].at = "apply"
  /\ IF state[q] = "closed"
     THEN thr' = moved /\ UNCHANGED <<offering, needsOffer, senders, offered, torn>>
     ELSE /\ senders' = [senders EXCEPT ![q] = want]
          /\ IF q \in offering
             THEN needsOffer' = needsOffer \union {q} /\ UNCHANGED <<offering, offered>>
             ELSE /\ needsOffer' = needsOffer \ {q}
                  /\ offering' = offering \union {q}
                  /\ offered' = [offered EXCEPT ![q] = want]
          /\ torn' = IF thr[t].late THEN torn \union {q} ELSE torn \ {q}
          /\ thr' = [s \in Threads |->
                       IF s # t /\ thr[s].at = "apply" /\ thr[s].cur = q
                       THEN [thr[s] EXCEPT !.late = TRUE]
                       ELSE moved[s]]
  /\ UNCHANGED <<rooms, home, state, events, answered, ice, usurped>>

-----------------------------------------------------------------------------
(* relay, in the goroutine pion starts for OnTrack: it may be scheduled    *)
(* long after the track came, even when the connection is gone.            *)
RegisterTrack(p) ==
  LET c == home[p].chat
      u == home[p].user IN
  /\ thr[Relay(p)].at = "idle"
  /\ p \in answered
  /\ IF Registered(c) = {}
     THEN /\ thr' = [thr EXCEPT ![Relay(p)] = Ended]
          /\ UNCHANGED <<tracks, usurped>>
     ELSE /\ tracks' = [tracks EXCEPT ![c][u] = p]
          /\ usurped' = usurped \union ({tracks[c][u]} \ {None})
          /\ thr' = [thr EXCEPT ![Relay(p)] = [Resting EXCEPT !.at = "spread", !.next = "reading",
                                                 !.chat = c, !.user = u, !.pc = p]]
  /\ UNCHANGED <<peers, conns, torn>>

\* Mutations of UnregisterTrack: the track is left behind; the entry is deleted
\* whoever's it is; nobody is told.
UnregisterNothing(p) ==
  /\ thr[Relay(p)].at = "reading"
  /\ thr' = [thr EXCEPT ![Relay(p)] = [@ EXCEPT !.at = "spread", !.next = "done"]]
  /\ UNCHANGED <<rooms, conns, history>>

UnregisterAny(p) ==
  /\ thr[Relay(p)].at = "reading"
  /\ tracks' = [tracks EXCEPT ![home[p].chat][home[p].user] = None]
  /\ thr' = [thr EXCEPT ![Relay(p)] = [@ EXCEPT !.at = "spread", !.next = "done"]]
  /\ UNCHANGED <<peers, conns, history>>

UnregisterSilently(p) ==
  LET c == home[p].chat
      u == home[p].user IN
  /\ thr[Relay(p)].at = "reading"
  /\ tracks' = IF tracks[c][u] = p THEN [tracks EXCEPT ![c][u] = None] ELSE tracks
  /\ thr' = [thr EXCEPT ![Relay(p)] = Ended]
  /\ UNCHANGED <<peers, conns, history>>

\* remote.Read fails, once the connection is closed or has failed or when the
\* client stops sending, and the deferred function withdraws the track.
UnregisterTrack(p) ==
  LET c == home[p].chat
      u == home[p].user IN
  /\ thr[Relay(p)].at = "reading"
  /\ tracks' = IF tracks[c][u] = p THEN [tracks EXCEPT ![c][u] = None] ELSE tracks
  /\ thr' = [thr EXCEPT ![Relay(p)] = [@ EXCEPT !.at = "spread", !.next = "done"]]
  /\ UNCHANGED <<peers, conns, history>>

-----------------------------------------------------------------------------
(* The state of a connection.                                              *)

\* Mutation of Fail: only Closed is acted upon.
FailSilently(p) ==
  /\ state[p] = "open"
  /\ p \in answered
  /\ state' = [state EXCEPT ![p] = "failed"]
  /\ UNCHANGED <<rooms, home, events, offering, answered, needsOffer, ice, senders, offered,
                 thr, history>>

\* Nothing fails before ICE has started, which takes an answer.
Fail(p) ==
  /\ state[p] = "open"
  /\ p \in answered
  /\ state' = [state EXCEPT ![p] = "failed"]
  /\ events' = events \union {p}
  /\ UNCHANGED <<rooms, home, offering, answered, needsOffer, ice, senders, offered, thr, history>>

\* Mutation of RemovePeer: whoever the user has in the room is taken out.
RemoveAny(p) ==
  LET c == home[p].chat
      u == home[p].user IN
  /\ p \in events
  /\ IF peers[c][u] # None
     THEN /\ Deregister(c, u)
          /\ events' = events \ {p}
          /\ thr' = [thr EXCEPT ![Remover(p)] = Closing(c, u, p, "done")]
          /\ UNCHANGED <<state, offering, needsOffer, ice, senders, offered, torn>>
     ELSE /\ ClosePC(p, events \ {p})
          /\ UNCHANGED <<rooms, thr>>
  /\ UNCHANGED <<home, answered, usurped>>

\* The OnConnectionStateChange goroutine runs removePeer for the connection it
\* was started for, perhaps much later.
RemovePeer(p) ==
  LET c == home[p].chat
      u == home[p].user IN
  /\ p \in events
  /\ IF peers[c][u] = p
     THEN /\ Deregister(c, u)
          /\ events' = events \ {p}
          /\ thr' = [thr EXCEPT ![Remover(p)] = Closing(c, u, p, "done")]
          /\ UNCHANGED <<state, offering, needsOffer, ice, senders, offered, torn>>
     ELSE /\ ClosePC(p, events \ {p})
          /\ UNCHANGED <<rooms, thr>>
  /\ UNCHANGED <<home, answered, usurped>>

-----------------------------------------------------------------------------
Signals ==
  \/ \E c \in Chats, u \in Users : Join(c, u) \/ Hangup(c, u) \/ Answer(c, u) \/ Ice(c, u)
  \/ Shutdown

Continue(t) == Close(t) \/ Spread(t) \/ Snapshot(t) \/ Apply(t)

Next ==
  \/ Signals
  \/ Refuse \/ Register \/ \E p \in PCs : Admit(p) \/ ShutdownClose(p)
  \/ \E t \in Threads : Continue(t)
  \/ \E p \in PCs : RegisterTrack(p) \/ UnregisterTrack(p) \/ Fail(p) \/ RemovePeer(p)

Spec == Init /\ [][Next]_vars

-----------------------------------------------------------------------------
(* Properties.                                                             *)

\* A goroutine at work knows its room, and what it closes or negotiates.
Directed(r) ==
  /\ r.at \notin {"idle", "shut", "done"} => r.chat \in Chats /\ r.user \in Users
  /\ r.at \in {"close", "register"} => r.pc \in PCs
  /\ r.at = "apply" => r.cur \in PCs

\* Every variable keeps its type, and a goroutine at work has a direction.
TypeOK ==
  /\ peers \in [Chats -> [Users -> PCs \union {None}]]
  /\ tracks \in [Chats -> [Users -> PCs \union {None}]]
  /\ home \in [PCs -> [chat: Chats \union {None}, user: Users \union {None}]]
  /\ state \in [PCs -> {"unused", "open", "failed", "closed"}]
  /\ events \subseteq PCs
  /\ offering \subseteq PCs /\ answered \subseteq PCs /\ needsOffer \subseteq PCs
  /\ ice \in [PCs -> 0 .. MaxIce]
  /\ senders \in [PCs -> SUBSET PCs] /\ offered \in [PCs -> SUBSET PCs]
  /\ thr \in [Threads -> ThreadState]
  /\ \A t \in Threads : Directed(thr[t])
  /\ torn \subseteq PCs /\ usurped \subseteq PCs

\* join tests the size of the room in one critical section and enters it in
\* another; no interleaving lets a room outgrow maxPeersPerRoom.
RoomCapacity == \A c \in Chats : Cardinality(Registered(c)) <= MaxPeers

\* A connection that is not closed is registered, about to be by join, or
\* about to be closed by the goroutine that took it out of the room.
NoLeakedConnection ==
  \A p \in PCs : state[p] \in {"open", "failed"} =>
    \/ peers[home[p].chat][home[p].user] = p
    \/ thr[Loop].at = "register" /\ thr[Loop].pc = p
    \/ thr[Loop].at = "shut" /\ p \in thr[Loop].todo
    \/ \E t \in Threads : thr[t].at = "close" /\ thr[t].pc = p

\* A registered connection is the one made for that chat and user, is not
\* closed, and when it has failed the goroutine that removes it is on its way:
\* the state change of an earlier connection never takes out a later one.
RegisteredIsLive ==
  \A c \in Chats, u \in Users : peers[c][u] # None =>
    LET p == peers[c][u] IN
    /\ home[p] = [chat |-> c, user |-> u]
    /\ state[p] = "open" \/ (state[p] = "failed" /\ p \in events)

\* A forwarded track belongs to a room that exists and to a relay that has
\* still to come to its deferred removal: no track is left behind.
TrackHasRelay ==
  \A c \in Chats, u \in Users : tracks[c][u] # None =>
    LET p == tracks[c][u] IN
    /\ home[p] = [chat |-> c, user |-> u]
    /\ Registered(c) # {}
    /\ "reading" \in {thr[Relay(p)].at, thr[Relay(p)].next}

\* A user in the room whose relay is reading is heard by the others, unless a
\* relay of an earlier connection of that user came late and took the entry.
HeardUnlessUsurped ==
  \A p \in PCs :
    thr[Relay(p)].at = "reading" /\ peers[home[p].chat][home[p].user] = p =>
      tracks[home[p].chat][home[p].user] = p \/ p \in usurped

\* A change of the senders that no offer described is not forgotten: either
\* the peer is marked, and the answer to the outstanding offer will look at the
\* mark, or the loop is already on its way to negotiate again.
NoLostRenegotiation ==
  \A p \in PCs : state[p] # "closed" =>
    /\ senders[p] # offered[p] => p \in needsOffer
    /\ p \in needsOffer /\ p \notin offering =>
         (p \in thr[Loop].todo \/ p = thr[Loop].cur)

\* When no goroutine is at work in a room, each of its peers is sent exactly
\* the audio of the others, unless two renegotiations of the peer overlapped:
\* tracks are cloned under one mutex and applied under another.
SettledRoomsConverge ==
  \A c \in Chats :
    (\A t \in Threads : thr[t].chat = c => thr[t].at \in {"reading", "admit", "register"}) =>
      \A p \in Registered(c) \ torn : senders[p] = Wanted(p, Live(c))

=============================================================================
