---------------------------- MODULE CallSFU_proofs ----------------------------
(***************************************************************************)
(* For any chats, users and connections: the types, who may be registered, *)
(* that no connection leaks, the limit of a room, that a reader is heard,  *)
(* that no renegotiation is lost, and that a room at rest has converged.   *)
(***************************************************************************)
EXTENDS CallSFU, FiniteSetTheorems, TLAPS

\* A connection in use was made for a chat and a user.
Homed ==
  \A p \in PCs :
    /\ p \in events \union answered => state[p] # "unused"
    /\ state[p] # "unused" => home[p].chat \in Chats /\ home[p].user \in Users

-----------------------------------------------------------------------------
(* Types.                                                                  *)

LEMMA LoopThread == Loop \in Threads
  BY DEF Threads

LEMMA PCThreads == \A p \in PCs : Relay(p) \in Threads /\ Remover(p) \in Threads
  BY DEF Threads, Relay, Remover

LEMMA ThreadsDiffer ==
  /\ \A p \in PCs : Relay(p) # Loop /\ Remover(p) # Loop
  /\ \A p, q \in PCs : Relay(p) # Remover(q) /\ (Relay(p) = Relay(q) => p = q)
                       /\ (Remover(p) = Remover(q) => p = q)
  BY DEF Loop, Relay, Remover

LEMMA RestType ==
  /\ Resting \in ThreadState /\ Directed(Resting)
  /\ Ended \in ThreadState /\ Directed(Ended)
  BY DEF Resting, Ended, ThreadState, Directed, Labels, Targets

LEMMA ClosingType ==
  ASSUME NEW c \in Chats, NEW u \in Users, NEW p \in PCs, NEW next \in Targets
  PROVE  Closing(c, u, p, next) \in ThreadState /\ Directed(Closing(c, u, p, next))
  BY DEF Closing, Resting, ThreadState, Directed, Labels, Targets

LEMMA RegisteredType == ASSUME TypeOK, NEW c \in Chats PROVE Registered(c) \in SUBSET PCs
  BY DEF TypeOK, Registered

LEMMA LiveType == ASSUME TypeOK, NEW c \in Chats PROVE Live(c) \in SUBSET PCs
  BY DEF TypeOK, Live

LEMMA DeregisterType ==
  ASSUME TypeOK, NEW c \in Chats, NEW u \in Users, Deregister(c, u)
  PROVE  /\ peers' \in [Chats -> [Users -> PCs \union {None}]]
         /\ tracks' \in [Chats -> [Users -> PCs \union {None}]]
  BY DEF TypeOK, Deregister

LEMMA ClosePCType ==
  ASSUME TypeOK, NEW p \in PCs, NEW pending \in SUBSET PCs, ClosePC(p, pending)
  PROVE  /\ state' \in [PCs -> {"unused", "open", "failed", "closed"}]
         /\ events' \in SUBSET PCs /\ offering' \in SUBSET PCs /\ needsOffer' \in SUBSET PCs
         /\ senders' \in [PCs -> SUBSET PCs] /\ offered' \in [PCs -> SUBSET PCs]
         /\ ice' \in [PCs -> 0 .. MaxIce] /\ torn' \in SUBSET PCs
  BY MaxIceType DEF TypeOK, ClosePC

LEMMA ProceedType ==
  ASSUME NEW r \in ThreadState, r.chat \in Chats, r.user \in Users
  PROVE  Proceed(r) \in ThreadState /\ Directed(Proceed(r))
<1>1. CASE r.next = "idle"
  BY <1>1, RestType DEF Proceed
<1>2. CASE r.next = "done"
  BY <1>2, RestType DEF Proceed
<1>3. CASE r.next \notin {"idle", "done"}
  <2>1. Proceed(r) = [Resting EXCEPT !.at = r.next, !.chat = r.chat, !.user = r.user, !.pc = r.pc]
    BY <1>3 DEF Proceed
  <2>2. r.next \in {"admit", "reading"} /\ r.pc \in PCs \union {None}
    BY <1>3 DEF ThreadState, Targets
  <2> QED
    BY <2>1, <2>2 DEF Resting, ThreadState, Directed, Labels, Targets
<1> QED
  BY <1>1, <1>2, <1>3

LEMMA VisitType ==
  ASSUME NEW r \in ThreadState, r.chat \in Chats, r.user \in Users, NEW todo \in SUBSET PCs
  PROVE  Visit(r, todo) \in ThreadState /\ Directed(Visit(r, todo))
<1>1. [r EXCEPT !.at = "each", !.todo = todo] \in ThreadState
      /\ Directed([r EXCEPT !.at = "each", !.todo = todo])
  BY DEF ThreadState, Directed, Labels
<1> QED
  BY <1>1, ProceedType DEF Visit

\* One goroutine moves to the record r.
LEMMA MoveType ==
  ASSUME TypeOK, NEW t \in Threads, NEW r \in ThreadState, Directed(r),
         thr' = [thr EXCEPT ![t] = r]
  PROVE  thr' \in [Threads -> ThreadState] /\ \A s \in Threads : Directed(thr'[s])
  BY DEF TypeOK

LEMMA SignalType ==
  ASSUME TypeOK, NEW c \in Chats, NEW u \in Users, NEW next \in {"idle", "admit"},
         Signal(c, u, next)
  PROVE  TypeOK'
<1>1. UNCHANGED <<conns, history>> /\ next \in Targets
  BY DEF Signal, Targets
<1>2. CASE peers[c][u] = None
  <2> DEFINE r == [Resting EXCEPT !.at = next, !.chat = c, !.user = u]
  <2>1. r \in ThreadState /\ Directed(r)
    BY DEF Resting, ThreadState, Directed, Labels, Targets
  <2>2. thr' = [thr EXCEPT ![Loop] = r] /\ UNCHANGED rooms
    BY <1>2 DEF Signal
  <2> HIDE DEF r
  <2>3. thr' \in [Threads -> ThreadState] /\ \A s \in Threads : Directed(thr'[s])
    BY <2>1, <2>2, LoopThread, MoveType
  <2> QED
    BY <1>1, <2>2, <2>3 DEF TypeOK, rooms, conns, history
<1>3. CASE peers[c][u] # None
  <2> DEFINE r == Closing(c, u, peers[c][u], next)
  <2>1. peers[c][u] \in PCs
    BY <1>3 DEF TypeOK
  <2>2. r \in ThreadState /\ Directed(r)
    BY <1>1, <2>1, ClosingType
  <2>3. thr' = [thr EXCEPT ![Loop] = r] /\ Deregister(c, u)
    BY <1>3 DEF Signal
  <2> HIDE DEF r
  <2>4. thr' \in [Threads -> ThreadState] /\ \A s \in Threads : Directed(thr'[s])
    BY <2>2, <2>3, LoopThread, MoveType
  <2>5. /\ peers' \in [Chats -> [Users -> PCs \union {None}]]
        /\ tracks' \in [Chats -> [Users -> PCs \union {None}]]
    BY <2>3, DeregisterType
  <2> QED
    BY <1>1, <2>4, <2>5 DEF TypeOK, conns, history
<1> QED
  BY <1>2, <1>3

LEMMA RefuseType == ASSUME TypeOK, Refuse PROVE TypeOK'
<1>1. thr' \in [Threads -> ThreadState] /\ \A s \in Threads : Directed(thr'[s])
  BY LoopThread, RestType, MoveType DEF Refuse
<1> QED
  BY <1>1 DEF TypeOK, Refuse, rooms, conns, history

LEMMA AdmitType == ASSUME TypeOK, NEW p \in PCs, Admit(p) PROVE TypeOK'
<1> DEFINE r == [thr[Loop] EXCEPT !.at = "register", !.pc = p]
<1>1. thr[Loop] \in ThreadState /\ thr[Loop].chat \in Chats /\ thr[Loop].user \in Users
  BY LoopThread DEF TypeOK, Directed, Admit
<1>2. r \in ThreadState /\ Directed(r)
  BY <1>1 DEF ThreadState, Directed, Labels
<1>3. thr' = [thr EXCEPT ![Loop] = r]
  BY LoopThread DEF Admit, TypeOK
<1> HIDE DEF r
<1>4. thr' \in [Threads -> ThreadState] /\ \A s \in Threads : Directed(thr'[s])
  BY <1>2, <1>3, LoopThread, MoveType
<1> QED
  BY <1>1, <1>4 DEF TypeOK, Admit, rooms, history

LEMMA RegisterType == ASSUME TypeOK, Register PROVE TypeOK'
<1> DEFINE r == [thr[Loop] EXCEPT !.at = "each", !.next = "idle", !.todo = {thr[Loop].pc}]
<1>1. /\ thr[Loop] \in ThreadState /\ thr[Loop].chat \in Chats /\ thr[Loop].user \in Users
      /\ thr[Loop].pc \in PCs
  BY LoopThread DEF TypeOK, Directed, Register
<1>2. r \in ThreadState /\ Directed(r)
  BY <1>1 DEF ThreadState, Directed, Labels, Targets
<1>3. thr' = [thr EXCEPT ![Loop] = r]
  BY LoopThread DEF Register, TypeOK
<1> HIDE DEF r
<1>4. thr' \in [Threads -> ThreadState] /\ \A s \in Threads : Directed(thr'[s])
  BY <1>2, <1>3, LoopThread, MoveType
<1> QED
  BY <1>1, <1>4 DEF TypeOK, Register, conns, history

LEMMA AnswerType ==
  ASSUME TypeOK, NEW c \in Chats, NEW u \in Users, Answer(c, u)
  PROVE  TypeOK'
<1> PICK p \in PCs : p = peers[c][u]
  BY DEF TypeOK, Answer
<1> DEFINE r == [Resting EXCEPT !.at = "each", !.chat = c, !.user = u, !.todo = {p}]
<1>1. r \in ThreadState /\ Directed(r)
  BY DEF Resting, ThreadState, Directed, Labels, Targets
<1>2. thr' = [thr EXCEPT ![Loop] = r] \/ thr' = thr
  BY DEF Answer
<1> HIDE DEF r
<1>3. thr' \in [Threads -> ThreadState] /\ \A s \in Threads : Directed(thr'[s])
  BY <1>1, <1>2, LoopThread, MoveType DEF TypeOK
<1>4. offering' \in SUBSET PCs /\ answered' \in SUBSET PCs /\ ice' \in [PCs -> 0 .. MaxIce]
  BY MaxIceType DEF TypeOK, Answer
<1> QED
  BY <1>3, <1>4 DEF TypeOK, Answer, rooms, history

LEMMA IceType ==
  ASSUME TypeOK, NEW c \in Chats, NEW u \in Users, Ice(c, u)
  PROVE  TypeOK'
<1>1. ice' \in [PCs -> 0 .. MaxIce]
  BY MaxIceType DEF TypeOK, Ice
<1> QED
  BY <1>1 DEF TypeOK, Ice, rooms, history

LEMMA ShutdownType == ASSUME TypeOK, Shutdown PROVE TypeOK'
<1> DEFINE todo == UNION {Registered(c) : c \in Chats}
           r == [Resting EXCEPT !.at = "shut", !.todo = todo]
<1>1. todo \in SUBSET PCs
  BY RegisteredType
<1>2. thr' = [thr EXCEPT ![Loop] = r]
  BY DEF Shutdown
<1> HIDE DEF todo
<1>3. r \in ThreadState /\ Directed(r)
  BY <1>1 DEF Resting, ThreadState, Directed, Labels, Targets
<1> HIDE DEF r
<1>4. thr' \in [Threads -> ThreadState] /\ \A s \in Threads : Directed(thr'[s])
  BY <1>2, <1>3, LoopThread, MoveType
<1> QED
  BY <1>4 DEF TypeOK, Shutdown, conns, history

LEMMA ShutdownCloseType == ASSUME TypeOK, NEW p \in PCs, ShutdownClose(p) PROVE TypeOK'
<1> DEFINE r == [thr[Loop] EXCEPT !.todo = @ \ {p}]
<1>0. thr[Loop] \in ThreadState /\ Directed(thr[Loop])
  BY LoopThread DEF TypeOK
<1>1. r \in ThreadState /\ Directed(r)
  BY <1>0 DEF ThreadState, Directed
<1>2. thr' = [thr EXCEPT ![Loop] = r] /\ ClosePC(p, events) /\ events \in SUBSET PCs
  BY LoopThread DEF ShutdownClose, TypeOK
<1> HIDE DEF r
<1>3. thr' \in [Threads -> ThreadState] /\ \A s \in Threads : Directed(thr'[s])
  BY <1>1, <1>2, LoopThread, MoveType
<1> QED
  BY <1>2, <1>3, ClosePCType DEF TypeOK, ShutdownClose, rooms

LEMMA CloseType == ASSUME TypeOK, NEW t \in Threads, Close(t) PROVE TypeOK'
<1> DEFINE r == Visit(thr[t], Registered(thr[t].chat))
<1>1. /\ thr[t] \in ThreadState /\ thr[t].chat \in Chats /\ thr[t].user \in Users
      /\ thr[t].pc \in PCs
  BY DEF TypeOK, Directed, Close
<1>2. r \in ThreadState /\ Directed(r)
  BY <1>1, RegisteredType, VisitType
<1>3. thr' = [thr EXCEPT ![t] = r] /\ ClosePC(thr[t].pc, events) /\ events \in SUBSET PCs
  BY DEF Close, TypeOK
<1> HIDE DEF r
<1>4. thr' \in [Threads -> ThreadState] /\ \A s \in Threads : Directed(thr'[s])
  BY <1>2, <1>3, MoveType
<1> QED
  BY <1>1, <1>3, <1>4, ClosePCType DEF TypeOK, Close, rooms

LEMMA SpreadType == ASSUME TypeOK, NEW t \in Threads, Spread(t) PROVE TypeOK'
<1> DEFINE r == Visit(thr[t], Registered(thr[t].chat))
<1>1. thr[t] \in ThreadState /\ thr[t].chat \in Chats /\ thr[t].user \in Users
  BY DEF TypeOK, Directed, Spread
<1>2. r \in ThreadState /\ Directed(r)
  BY <1>1, RegisteredType, VisitType
<1>3. thr' = [thr EXCEPT ![t] = r]
  BY DEF Spread, TypeOK
<1> HIDE DEF r
<1>4. thr' \in [Threads -> ThreadState] /\ \A s \in Threads : Directed(thr'[s])
  BY <1>2, <1>3, MoveType
<1> QED
  BY <1>4 DEF TypeOK, Spread, rooms, conns, history

LEMMA SnapshotType == ASSUME TypeOK, NEW t \in Threads, Snapshot(t) PROVE TypeOK'
<1>1. thr[t] \in ThreadState /\ thr[t].chat \in Chats /\ thr[t].user \in Users
  BY DEF TypeOK, Directed, Snapshot
<1> PICK q \in thr[t].todo :
      thr' = [thr EXCEPT ![t] = [thr[t] EXCEPT !.at = "apply", !.cur = q, !.todo = @ \ {q},
                                   !.snap = Live(thr[t].chat), !.late = FALSE]]
  BY DEF Snapshot
<1> DEFINE live == Live(thr[t].chat)
           r == [thr[t] EXCEPT !.at = "apply", !.cur = q, !.todo = @ \ {q},
                               !.snap = live, !.late = FALSE]
<1>2. live \in SUBSET PCs /\ q \in PCs
  <2>1. live \in SUBSET PCs
    BY <1>1, LiveType
  <2>2. thr[t].todo \in SUBSET PCs
    BY <1>1 DEF ThreadState
  <2> QED
    BY <2>1, <2>2
<1>3. thr' = [thr EXCEPT ![t] = r]
  BY DEF TypeOK
<1> HIDE DEF live
<1>4. r \in ThreadState /\ Directed(r)
  BY <1>1, <1>2 DEF ThreadState, Directed, Labels
<1> HIDE DEF r
<1>5. thr' \in [Threads -> ThreadState] /\ \A s \in Threads : Directed(thr'[s])
  BY <1>3, <1>4, MoveType
<1> QED
  BY <1>5 DEF TypeOK, Snapshot, rooms, conns, history

LEMMA ApplyType == ASSUME TypeOK, NEW t \in Threads, Apply(t) PROVE TypeOK'
<1> DEFINE q == thr[t].cur
           want == Wanted(q, thr[t].snap)
           calm == [thr[t] EXCEPT !.cur = None, !.snap = {}, !.late = FALSE]
           r == Visit(calm, thr[t].todo)
           moved == [thr EXCEPT ![t] = r]
<1>1. thr[t] \in ThreadState /\ thr[t].chat \in Chats /\ thr[t].user \in Users /\ q \in PCs
  BY DEF TypeOK, Directed, Apply
<1>2. want \in SUBSET PCs /\ thr[t].todo \in SUBSET PCs
  BY <1>1 DEF Wanted, ThreadState
<1>3. calm \in ThreadState /\ calm.chat \in Chats /\ calm.user \in Users
  BY <1>1 DEF ThreadState
<1>4. moved = [thr EXCEPT ![t] = Visit([@ EXCEPT !.cur = None, !.snap = {}, !.late = FALSE],
                                       @.todo)]
  BY DEF TypeOK
<1>5. r \in ThreadState /\ Directed(r)
  BY <1>2, <1>3, VisitType
<1>6. moved \in [Threads -> ThreadState] /\ \A s \in Threads : Directed(moved[s])
  BY <1>5 DEF TypeOK
<1>7. /\ senders' \in [PCs -> SUBSET PCs] /\ offered' \in [PCs -> SUBSET PCs]
      /\ offering' \in SUBSET PCs /\ needsOffer' \in SUBSET PCs /\ torn' \in SUBSET PCs
  <2>1. \/ UNCHANGED <<offering, needsOffer, senders, offered, torn>>
        \/ /\ senders' = [senders EXCEPT ![q] = want]
           /\ needsOffer' \in {needsOffer \union {q}, needsOffer \ {q}}
           /\ offering' \in {offering, offering \union {q}}
           /\ offered' \in {offered, [offered EXCEPT ![q] = want]}
           /\ torn' \in {torn \union {q}, torn \ {q}}
    BY DEF Apply
  <2> HIDE DEF want, q, moved
  <2> QED
    BY <1>1, <1>2, <2>1 DEF TypeOK
<1>8. \A s \in Threads : [thr[s] EXCEPT !.late = TRUE] \in ThreadState
                         /\ Directed([thr[s] EXCEPT !.late = TRUE])
  <2> TAKE s \in Threads
  <2>1. thr[s] \in ThreadState /\ Directed(thr[s])
    BY DEF TypeOK
  <2> QED
    BY <2>1 DEF ThreadState, Directed
<1>9. \/ thr' = moved
      \/ thr' = [s \in Threads |->
                   IF s # t /\ thr[s].at = "apply" /\ thr[s].cur = q
                   THEN [thr[s] EXCEPT !.late = TRUE]
                   ELSE moved[s]]
  BY <1>4 DEF Apply
<1>10. thr' \in [Threads -> ThreadState] /\ \A s \in Threads : Directed(thr'[s])
  <2> HIDE DEF moved, q
  <2> QED
    BY <1>6, <1>8, <1>9
<1> QED
  BY <1>7, <1>10 DEF TypeOK, Apply, rooms

LEMMA RegisterTrackType ==
  ASSUME TypeOK, Homed, NEW p \in PCs, RegisterTrack(p)
  PROVE  TypeOK'
<1> DEFINE c == home[p].chat
           u == home[p].user
           r == [Resting EXCEPT !.at = "spread", !.next = "reading", !.chat = c, !.user = u,
                                !.pc = p]
<1>1. c \in Chats /\ u \in Users
  BY DEF Homed, RegisterTrack
<1>2. r \in ThreadState /\ Directed(r)
  BY <1>1 DEF Resting, ThreadState, Directed, Labels, Targets
<1>3. \/ thr' = [thr EXCEPT ![Relay(p)] = Ended] /\ UNCHANGED <<tracks, usurped>>
      \/ /\ thr' = [thr EXCEPT ![Relay(p)] = r]
         /\ tracks' = [tracks EXCEPT ![c][u] = p]
         /\ usurped' = usurped \union ({tracks[c][u]} \ {None})
  BY DEF RegisterTrack
<1>4. thr' \in [Threads -> ThreadState] /\ \A s \in Threads : Directed(thr'[s])
  <2> HIDE DEF r
  <2> QED
    BY <1>2, <1>3, RestType, PCThreads, MoveType
<1>5. tracks' \in [Chats -> [Users -> PCs \union {None}]] /\ usurped' \in SUBSET PCs
  <2>1. tracks \in [Chats -> [Users -> PCs \union {None}]] /\ usurped \in SUBSET PCs
    BY DEF TypeOK
  <2>2. tracks[c][u] \in PCs \union {None}
    BY <1>1, <2>1
  <2> HIDE DEF c, u, r
  <2> QED
    BY <1>1, <1>3, <2>1, <2>2
<1> QED
  BY <1>4, <1>5 DEF TypeOK, RegisterTrack, conns

\* A relay that reads knows its room: Directed says so of every label.
LEMMA UnregisterTrackType ==
  ASSUME TypeOK, NEW p \in PCs, UnregisterTrack(p)
  PROVE  TypeOK'
<1> DEFINE r == [thr[Relay(p)] EXCEPT !.at = "spread", !.next = "done"]
<1>1. Relay(p) \in Threads
  BY PCThreads
<1>2. /\ thr[Relay(p)] \in ThreadState
      /\ thr[Relay(p)].chat \in Chats /\ thr[Relay(p)].user \in Users
  BY <1>1 DEF TypeOK, Directed, UnregisterTrack
<1>3. r \in ThreadState /\ Directed(r)
  BY <1>2 DEF ThreadState, Directed, Labels, Targets
<1>4. thr' = [thr EXCEPT ![Relay(p)] = r]
  BY <1>1 DEF UnregisterTrack, TypeOK
<1> HIDE DEF r
<1>5. thr' \in [Threads -> ThreadState] /\ \A s \in Threads : Directed(thr'[s])
  BY <1>1, <1>3, <1>4, MoveType
<1>6. tracks' \in [Chats -> [Users -> PCs \union {None}]]
  BY DEF TypeOK, UnregisterTrack
<1> QED
  BY <1>5, <1>6 DEF TypeOK, UnregisterTrack, conns, history

LEMMA FailType == ASSUME TypeOK, NEW p \in PCs, Fail(p) PROVE TypeOK'
  BY DEF TypeOK, Fail, rooms, history

LEMMA RemovePeerType ==
  ASSUME TypeOK, Homed, NEW p \in PCs, RemovePeer(p)
  PROVE  TypeOK'
<1> DEFINE c == home[p].chat
           u == home[p].user
           r == Closing(c, u, p, "done")
<1>1. c \in Chats /\ u \in Users
  BY DEF Homed, RemovePeer
<1>2. CASE peers[c][u] = p
  <2>1. r \in ThreadState /\ Directed(r)
    BY <1>1, ClosingType DEF Targets
  <2>2. /\ Deregister(c, u) /\ events' = events \ {p} /\ thr' = [thr EXCEPT ![Remover(p)] = r]
        /\ UNCHANGED <<home, answered, usurped, state, offering, needsOffer, ice, senders,
                       offered, torn>>
    BY <1>2 DEF RemovePeer
  <2> HIDE DEF r
  <2>3. thr' \in [Threads -> ThreadState] /\ \A s \in Threads : Directed(thr'[s])
    BY <2>1, <2>2, PCThreads, MoveType
  <2>4. /\ peers' \in [Chats -> [Users -> PCs \union {None}]]
        /\ tracks' \in [Chats -> [Users -> PCs \union {None}]]
    BY <1>1, <2>2, DeregisterType
  <2> QED
    BY <2>2, <2>3, <2>4 DEF TypeOK
<1>3. CASE peers[c][u] # p
  <2>1. /\ ClosePC(p, events \ {p}) /\ UNCHANGED <<rooms, thr, home, answered, usurped>>
        /\ events \ {p} \in SUBSET PCs
    BY <1>3 DEF RemovePeer, TypeOK
  <2> QED
    BY <2>1, ClosePCType DEF TypeOK, rooms
<1> QED
  BY <1>2, <1>3

LEMMA NextType == ASSUME TypeOK, Homed, Next PROVE TypeOK'
<1>1. ASSUME NEW c \in Chats, NEW u \in Users, Join(c, u) \/ Hangup(c, u) PROVE TypeOK'
  BY <1>1, SignalType DEF Join, Hangup
<1>2. ASSUME NEW t \in Threads, Continue(t) PROVE TypeOK'
  BY <1>2, CloseType, SpreadType, SnapshotType, ApplyType DEF Continue
<1> QED
  BY <1>1, <1>2, AnswerType, IceType, ShutdownType, RefuseType, RegisterType, AdmitType,
     ShutdownCloseType, RegisterTrackType, UnregisterTrackType, FailType, RemovePeerType
     DEF Next, Signals

-----------------------------------------------------------------------------
(* Who may be registered, and what is left to close.                       *)

IsRegistered(p) == \E c \in Chats, u \in Users : peers[c][u] = p

\* What a goroutine is closing was made, and is out of its room.
Closers ==
  \A t \in Threads : thr[t].at = "close" =>
    state[thr[t].pc] # "unused" /\ ~IsRegistered(thr[t].pc)

\* The connection join is about to register is known to nobody else.
JustMade ==
  thr[Loop].at = "register" =>
    LET p == thr[Loop].pc IN
    /\ state[p] = "open" /\ p \notin events \union answered
    /\ home[p] = [chat |-> thr[Loop].chat, user |-> thr[Loop].user]
    /\ ~IsRegistered(p)
    /\ \A t \in Threads : thr[t].at = "close" => thr[t].pc # p

\* Once the loop shuts down nobody is registered, and it closes what was.
RoomsGone ==
  thr[Loop].at = "shut" =>
    /\ \A c \in Chats, u \in Users : peers[c][u] = None
    /\ \A p \in thr[Loop].todo : state[p] # "unused"

Joining(r) == r.at \in {"admit", "register"} \/ r.next = "admit"

\* A join has left the room before it enters it.
LeftFirst ==
  /\ \A t \in Threads : thr[t].next = "admit" => thr[t].at \in {"close", "each", "apply"}
  /\ Joining(thr[Loop]) => peers[thr[Loop].chat][thr[Loop].user] = None

\* The goroutine of a state change closes its own connection.
OwnRemover == \A p \in PCs : thr[Remover(p)].at = "close" => thr[Remover(p)].pc = p

TrackUsed == \A c \in Chats, u \in Users : tracks[c][u] # None => state[tracks[c][u]] # "unused"

IInv ==
  /\ TypeOK /\ Homed /\ RegisteredIsLive /\ NoLeakedConnection /\ TrackHasRelay
  /\ Closers /\ JustMade /\ RoomsGone /\ LeftFirst /\ OwnRemover /\ TrackUsed

-----------------------------------------------------------------------------
(* Steps that change neither the rooms nor the life of a connection.       *)

\* From r to n a goroutine starts and ends no removal, and joins a room only
\* when its user is not there.
Carries(r, n) ==
  /\ {r.at, n.at} \intersect {"close", "register", "shut"} # {} =>
       n.at = r.at /\ n.chat = r.chat /\ n.user = r.user /\ n.pc = r.pc /\ n.todo = r.todo
  /\ n.next = "admit" => n.at \in {"close", "each", "apply"}
  /\ Joining(n) => \/ Joining(r) /\ n.chat = r.chat /\ n.user = r.user
                   \/ peers[n.chat][n.user] = None

\* Moreover, if it is a relay, it goes on reading.
Continues(t, r, n) ==
  /\ Carries(r, n)
  /\ t # Loop /\ "reading" \in {r.at, r.next} => "reading" \in {n.at, n.next}

LEMMA ContinuesVisit ==
  ASSUME NEW t, NEW r \in ThreadState, r.at \in {"spread", "apply"},
         NEW q \in ThreadState, q.next = r.next, q.chat = r.chat, q.user = r.user,
         NEW todo
  PROVE  Continues(t, r, Visit(q, todo))
<1> DEFINE n == Visit(q, todo)
<1>1. q.next \in Targets
  BY DEF ThreadState
<1>2. CASE todo # {}
  <2>1. n = [q EXCEPT !.at = "each", !.todo = todo]
    BY <1>2 DEF Visit
  <2> QED
    BY <2>1 DEF Continues, Carries, Joining, ThreadState
<1>3. CASE todo = {} /\ q.next = "idle"
  <2>1. n = Resting
    BY <1>3 DEF Visit, Proceed
  <2> QED
    BY <2>1, <1>3 DEF Continues, Carries, Joining, Resting
<1>4. CASE todo = {} /\ q.next = "done"
  <2>1. n = Ended
    BY <1>4 DEF Visit, Proceed
  <2> QED
    BY <2>1, <1>4 DEF Continues, Carries, Joining, Resting, Ended
<1>5. CASE todo = {} /\ q.next \in {"admit", "reading"}
  <2>1. n = [Resting EXCEPT !.at = q.next, !.chat = q.chat, !.user = q.user, !.pc = q.pc]
    BY <1>5 DEF Visit, Proceed
  <2> QED
    BY <2>1, <1>5 DEF Continues, Carries, Joining, Resting
<1> QED
  BY <1>1, <1>2, <1>3, <1>4, <1>5 DEF Targets

LEMMA ContinuesSame ==
  ASSUME IInv, NEW t \in Threads PROVE Continues(t, thr[t], thr[t])
  BY DEF IInv, LeftFirst, Continues, Carries

LEMMA QuietTracks ==
  ASSUME IInv, TypeOK', Homed', TrackHasRelay', TrackUsed',
         UNCHANGED <<peers, home, state, events>>,
         answered' = answered \/ thr'[Loop].at # "register",
         \A t \in Threads : Carries(thr[t], thr'[t])
  PROVE  IInv'
<1>1. RegisteredIsLive'
  BY DEF IInv, RegisteredIsLive
<1>3. \A t \in Threads : thr'[t].at \in {"close", "register", "shut"} =>
        thr'[t].at = thr[t].at /\ thr'[t].pc = thr[t].pc /\ thr'[t].todo = thr[t].todo
        /\ thr'[t].chat = thr[t].chat /\ thr'[t].user = thr[t].user
  BY DEF Carries
<1>4. \A t \in Threads : thr[t].at \in {"close", "register", "shut"} =>
        thr'[t].at = thr[t].at /\ thr'[t].pc = thr[t].pc /\ thr'[t].todo = thr[t].todo
  BY DEF Carries
<1>5. Closers'
  BY <1>3 DEF IInv, Closers, IsRegistered
<1>6. JustMade'
  BY <1>3, LoopThread DEF IInv, JustMade, IsRegistered
<1>7. RoomsGone'
  BY <1>3, LoopThread DEF IInv, RoomsGone
<1>8. LeftFirst'
  BY LoopThread DEF IInv, LeftFirst, Carries
<1>9. OwnRemover'
  BY <1>3, PCThreads DEF IInv, OwnRemover
<1>10. NoLeakedConnection'
  BY <1>4, LoopThread DEF IInv, NoLeakedConnection
<1> QED
  BY <1>1, <1>5, <1>6, <1>7, <1>8, <1>9, <1>10 DEF IInv

LEMMA Quiet ==
  ASSUME IInv, TypeOK', Homed', UNCHANGED <<rooms, home, state, events>>,
         answered' = answered \/ thr'[Loop].at # "register",
         \A t \in Threads : Continues(t, thr[t], thr'[t])
  PROVE  IInv'
<1>1. TrackUsed'
  BY DEF IInv, TrackUsed, rooms
<1>2. TrackHasRelay'
  <2> SUFFICES ASSUME NEW c \in Chats, NEW u \in Users, tracks[c][u] # None
               PROVE  /\ home[tracks[c][u]] = [chat |-> c, user |-> u] /\ Registered(c) # {}
                      /\ "reading" \in {thr'[Relay(tracks[c][u])].at, thr'[Relay(tracks[c][u])].next}
    BY DEF TrackHasRelay, Registered, rooms
  <2>1. tracks[c][u] \in PCs
    BY DEF IInv, TypeOK
  <2> QED
    BY <2>1, PCThreads, ThreadsDiffer DEF IInv, TrackHasRelay, Continues
<1> QED
  BY <1>1, <1>2, QuietTracks DEF rooms, Continues

LEMMA InitInv == Init => IInv
<1> SUFFICES ASSUME Init PROVE IInv
  OBVIOUS
<1>1. TypeOK
  BY RestType, MaxIceType DEF Init, TypeOK
<1>2. \A t \in Threads : thr[t] = Resting
  BY DEF Init
<1>3. \A c \in Chats, u \in Users : peers[c][u] = None /\ tracks[c][u] = None
  BY DEF Init
<1> QED
  BY <1>1, <1>2, <1>3, LoopThread, PCThreads
     DEF Init, IInv, Homed, RegisteredIsLive, NoLeakedConnection, TrackHasRelay, Closers,
         JustMade, RoomsGone, LeftFirst, Joining, OwnRemover, TrackUsed, Resting

LEMMA StutterInv == ASSUME IInv, UNCHANGED vars PROVE IInv'
<1>1. TypeOK'
  BY DEF IInv, TypeOK, vars, rooms, conns, history
<1>2. Homed'
  BY DEF IInv, Homed, vars, conns
<1> QED
  BY <1>1, <1>2, ContinuesSame, Quiet DEF vars, conns

LEMMA RefuseInv == ASSUME IInv, Refuse PROVE IInv'
<1>1. TypeOK' /\ Homed'
  BY RefuseType DEF IInv, Homed, Refuse, conns
<1>2. Continues(Loop, thr[Loop], Resting)
  BY LoopThread DEF Refuse, Continues, Carries, Joining, Resting, IInv, LeftFirst
<1>3. \A t \in Threads : Continues(t, thr[t], thr'[t])
  BY <1>2, ContinuesSame DEF Refuse, IInv, TypeOK
<1> QED
  BY <1>1, <1>3, Quiet DEF Refuse, conns

LEMMA SpreadInv == ASSUME IInv, NEW t \in Threads, Spread(t) PROVE IInv'
<1>1. TypeOK' /\ Homed'
  BY SpreadType DEF IInv, Homed, Spread, conns
<1>2. thr[t] \in ThreadState
  BY DEF IInv, TypeOK
<1>3. Continues(t, thr[t], Visit(thr[t], Registered(thr[t].chat)))
  BY <1>2, ContinuesVisit DEF Spread
<1>4. \A s \in Threads : Continues(s, thr[s], thr'[s])
  BY <1>3, ContinuesSame DEF Spread, IInv, TypeOK
<1> QED
  BY <1>1, <1>4, Quiet DEF Spread, conns

LEMMA SnapshotInv == ASSUME IInv, NEW t \in Threads, Snapshot(t) PROVE IInv'
<1>1. TypeOK' /\ Homed'
  BY SnapshotType DEF IInv, Homed, Snapshot, conns
<1>2. thr[t] \in ThreadState /\ thr[t].at = "each"
  BY DEF IInv, TypeOK, Snapshot
<1>3. /\ thr'[t].at = "apply" /\ thr'[t].next = thr[t].next
      /\ thr'[t].chat = thr[t].chat /\ thr'[t].user = thr[t].user
  BY <1>2 DEF Snapshot, IInv, TypeOK, ThreadState
<1>4. Continues(t, thr[t], thr'[t])
  BY <1>2, <1>3 DEF Continues, Carries, Joining
<1>5. \A s \in Threads : Continues(s, thr[s], thr'[s])
  BY <1>4, ContinuesSame DEF Snapshot, IInv, TypeOK
<1> QED
  BY <1>1, <1>5, Quiet DEF Snapshot, conns

LEMMA ApplyInv == ASSUME IInv, NEW t \in Threads, Apply(t) PROVE IInv'
<1>1. TypeOK' /\ Homed'
  BY ApplyType DEF IInv, Homed, Apply
<1> DEFINE calm == [thr[t] EXCEPT !.cur = None, !.snap = {}, !.late = FALSE]
           r == Visit(calm, thr[t].todo)
           moved == [thr EXCEPT ![t] = r]
<1>2. thr[t] \in ThreadState /\ thr[t].at = "apply"
  BY DEF IInv, TypeOK, Apply
<1>3. calm \in ThreadState /\ calm.next = thr[t].next /\ calm.chat = thr[t].chat
      /\ calm.user = thr[t].user
  BY <1>2 DEF ThreadState
<1>4. Continues(t, thr[t], r)
  BY <1>2, <1>3, ContinuesVisit
<1>5. moved = [thr EXCEPT ![t] = Visit([@ EXCEPT !.cur = None, !.snap = {}, !.late = FALSE],
                                       @.todo)]
  BY DEF IInv, TypeOK
<1>6. \/ thr' = moved
      \/ thr' = [s \in Threads |->
                   IF s # t /\ thr[s].at = "apply" /\ thr[s].cur = thr[t].cur
                   THEN [thr[s] EXCEPT !.late = TRUE]
                   ELSE moved[s]]
  BY <1>5 DEF Apply
<1> HIDE DEF r
<1>7. thr'[t] = r
  BY <1>6 DEF IInv, TypeOK
<1>8. ASSUME NEW s \in Threads, s # t
      PROVE  thr'[s] = thr[s]
             \/ (thr[s].at = "apply" /\ thr'[s] = [thr[s] EXCEPT !.late = TRUE])
  BY <1>6, <1>8 DEF IInv, TypeOK
<1>9. ASSUME NEW s \in Threads, s # t PROVE Continues(s, thr[s], thr'[s])
  <2>1. CASE thr'[s] = thr[s]
    BY <2>1, ContinuesSame
  <2>2. CASE thr[s].at = "apply" /\ thr'[s] = [thr[s] EXCEPT !.late = TRUE]
    <3>1. thr[s] \in ThreadState
      BY DEF IInv, TypeOK
    <3>2. /\ thr'[s].at = "apply" /\ thr'[s].next = thr[s].next
          /\ thr'[s].chat = thr[s].chat /\ thr'[s].user = thr[s].user
      BY <2>2, <3>1 DEF ThreadState
    <3> QED
      BY <2>2, <3>2 DEF Continues, Carries, Joining, IInv, LeftFirst
  <2> QED
    BY <1>8, <1>9, <2>1, <2>2
<1>10. \A s \in Threads : Continues(s, thr[s], thr'[s])
  BY <1>4, <1>7, <1>9
<1> QED
  BY <1>1, <1>10, Quiet DEF Apply

LEMMA AnswerInv ==
  ASSUME IInv, NEW c \in Chats, NEW u \in Users, Answer(c, u)
  PROVE  IInv'
<1>1. TypeOK'
  BY AnswerType DEF IInv
<1>2. Homed'
  BY DEF Answer, IInv, Homed, RegisteredIsLive
<1> DEFINE r == [Resting EXCEPT !.at = "each", !.chat = c, !.user = u, !.todo = {peers[c][u]}]
<1>3. Continues(Loop, thr[Loop], r)
  BY LoopThread DEF Answer, Continues, Carries, Joining, Resting, IInv, LeftFirst
<1>4. thr' = thr \/ thr' = [thr EXCEPT ![Loop] = r]
  BY DEF Answer
<1>5. thr'[Loop].at # "register"
  BY <1>4, LoopThread DEF Answer, Resting, IInv, TypeOK
<1> HIDE DEF r
<1>6. \A s \in Threads : Continues(s, thr[s], thr'[s])
  BY <1>3, <1>4, ContinuesSame DEF IInv, TypeOK
<1> QED
  BY <1>1, <1>2, <1>5, <1>6, Quiet DEF Answer

LEMMA IceInv ==
  ASSUME IInv, NEW c \in Chats, NEW u \in Users, Ice(c, u)
  PROVE  IInv'
<1>1. TypeOK' /\ Homed'
  BY IceType DEF IInv, Homed, Ice
<1> QED
  BY <1>1, ContinuesSame, Quiet DEF Ice

-----------------------------------------------------------------------------
(* Steps that close a connection nobody has registered.                    *)

\* From r to n the goroutine t at most finishes closing p.
Finishes(t, p, r, n) ==
  /\ n.at = "close" => r.at = "close" /\ n.pc = r.pc
  /\ r.at = "close" /\ r.pc # p => n.at = "close" /\ n.pc = r.pc
  /\ "register" \in {r.at, n.at} =>
       n.at = r.at /\ n.chat = r.chat /\ n.user = r.user /\ n.pc = r.pc
  /\ "shut" \in {r.at, n.at} => n.at = r.at /\ r.todo \ {p} \subseteq n.todo
                                          /\ n.todo \subseteq r.todo
  /\ n.next = "admit" => n.at \in {"close", "each", "apply"}
  /\ Joining(n) => Joining(r) /\ n.chat = r.chat /\ n.user = r.user
  /\ t # Loop /\ "reading" \in {r.at, r.next} => "reading" \in {n.at, n.next}

LEMMA FinishesSame ==
  ASSUME IInv, NEW t \in Threads, NEW p PROVE Finishes(t, p, thr[t], thr[t])
  BY DEF IInv, LeftFirst, Finishes

LEMMA FinishesVisit ==
  ASSUME NEW t, NEW r \in ThreadState, r.at = "close", NEW todo
  PROVE  Finishes(t, r.pc, r, Visit(r, todo))
<1> DEFINE n == Visit(r, todo)
<1>1. r.next \in Targets
  BY DEF ThreadState
<1>2. CASE todo # {}
  <2>1. n = [r EXCEPT !.at = "each", !.todo = todo]
    BY <1>2 DEF Visit
  <2> QED
    BY <2>1 DEF Finishes, Joining, ThreadState
<1>3. CASE todo = {} /\ r.next = "idle"
  <2>1. n = Resting
    BY <1>3 DEF Visit, Proceed
  <2> QED
    BY <2>1, <1>3 DEF Finishes, Joining, Resting
<1>4. CASE todo = {} /\ r.next = "done"
  <2>1. n = Ended
    BY <1>4 DEF Visit, Proceed
  <2> QED
    BY <2>1, <1>4 DEF Finishes, Joining, Resting, Ended
<1>5. CASE todo = {} /\ r.next \in {"admit", "reading"}
  <2>1. n = [Resting EXCEPT !.at = r.next, !.chat = r.chat, !.user = r.user, !.pc = r.pc]
    BY <1>5 DEF Visit, Proceed
  <2> QED
    BY <2>1, <1>5 DEF Finishes, Joining, Resting
<1> QED
  BY <1>1, <1>2, <1>3, <1>4, <1>5 DEF Targets

LEMMA ClosedInv ==
  ASSUME IInv, TypeOK', UNCHANGED <<rooms, home, answered>>,
         NEW p \in PCs, ~IsRegistered(p), state[p] # "unused",
         thr[Loop].at = "register" => thr[Loop].pc # p,
         NEW pending \in {events, events \ {p}}, ClosePC(p, pending),
         \A t \in Threads : Finishes(t, p, thr[t], thr'[t])
  PROVE  IInv'
<1>1. state'[p] = "closed" /\ \A q \in PCs : q # p => state'[q] = state[q]
  BY DEF ClosePC, IInv, TypeOK
<1>2. \A q \in PCs : q # p => (q \in events' <=> q \in events)
  BY DEF ClosePC
<1>3. Homed'
  BY <1>1, <1>2 DEF IInv, Homed
<1>4. RegisteredIsLive'
  <2> SUFFICES ASSUME NEW c \in Chats, NEW u \in Users, peers[c][u] # None
               PROVE  /\ home[peers[c][u]] = [chat |-> c, user |-> u]
                      /\ state'[peers[c][u]] = "open"
                         \/ (state'[peers[c][u]] = "failed" /\ peers[c][u] \in events')
    BY DEF RegisteredIsLive, rooms
  <2>1. peers[c][u] \in PCs /\ peers[c][u] # p
    BY DEF IInv, TypeOK, IsRegistered
  <2> QED
    BY <2>1, <1>1, <1>2 DEF IInv, RegisteredIsLive
<1>5. Closers'
  <2> SUFFICES ASSUME NEW t \in Threads, thr'[t].at = "close"
               PROVE  state'[thr'[t].pc] # "unused" /\ ~IsRegistered(thr'[t].pc)
    BY DEF Closers, IsRegistered, rooms
  <2>1. thr[t].at = "close" /\ thr'[t].pc = thr[t].pc /\ thr[t].pc \in PCs
    BY DEF Finishes, IInv, TypeOK, Directed
  <2> QED
    BY <2>1, <1>1 DEF IInv, Closers
<1>6. JustMade'
  <2> SUFFICES ASSUME thr'[Loop].at = "register" PROVE JustMade'
    BY DEF JustMade
  <2>1. /\ thr[Loop].at = "register" /\ thr'[Loop].pc = thr[Loop].pc
        /\ thr'[Loop].chat = thr[Loop].chat /\ thr'[Loop].user = thr[Loop].user
    BY LoopThread DEF Finishes
  <2>2. thr[Loop].pc \in PCs /\ thr[Loop].pc # p
    BY <2>1, LoopThread DEF IInv, TypeOK, Directed
  <2>3. \A t \in Threads : thr'[t].at = "close" => thr'[t].pc # thr[Loop].pc
    BY <2>1 DEF Finishes, IInv, JustMade
  <2> QED
    BY <2>1, <2>2, <2>3, <1>1, <1>2 DEF IInv, JustMade, IsRegistered, rooms
<1>7. RoomsGone'
  <2> SUFFICES ASSUME thr'[Loop].at = "shut"
               PROVE  /\ \A c \in Chats, u \in Users : peers[c][u] = None
                      /\ \A q \in thr'[Loop].todo : state'[q] # "unused"
    BY DEF RoomsGone, rooms
  <2>1. thr[Loop].at = "shut" /\ thr'[Loop].todo \subseteq thr[Loop].todo
        /\ thr[Loop].todo \in SUBSET PCs
    BY LoopThread DEF Finishes, IInv, TypeOK, ThreadState
  <2> QED
    BY <2>1, <1>1 DEF IInv, RoomsGone
<1>8. LeftFirst'
  BY LoopThread DEF IInv, LeftFirst, rooms, Finishes
<1>9. OwnRemover'
  BY PCThreads DEF IInv, OwnRemover, Finishes
<1>10. TrackUsed'
  BY <1>1 DEF IInv, TrackUsed, rooms, TypeOK
<1>11. NoLeakedConnection'
  <2> SUFFICES ASSUME NEW q \in PCs, state'[q] \in {"open", "failed"}
               PROVE  \/ peers[home[q].chat][home[q].user] = q
                      \/ thr'[Loop].at = "register" /\ thr'[Loop].pc = q
                      \/ thr'[Loop].at = "shut" /\ q \in thr'[Loop].todo
                      \/ \E t \in Threads : thr'[t].at = "close" /\ thr'[t].pc = q
    BY DEF NoLeakedConnection, rooms
  <2>1. q # p /\ state[q] \in {"open", "failed"}
    BY <1>1
  <2> QED
    BY <2>1, LoopThread DEF IInv, NoLeakedConnection, Finishes
<1>12. TrackHasRelay'
  <2> SUFFICES ASSUME NEW c \in Chats, NEW u \in Users, tracks[c][u] # None
               PROVE  /\ home[tracks[c][u]] = [chat |-> c, user |-> u] /\ Registered(c) # {}
                      /\ "reading" \in {thr'[Relay(tracks[c][u])].at, thr'[Relay(tracks[c][u])].next}
    BY DEF TrackHasRelay, Registered, rooms
  <2>1. tracks[c][u] \in PCs
    BY DEF IInv, TypeOK
  <2> QED
    BY <2>1, PCThreads, ThreadsDiffer DEF IInv, TrackHasRelay, Finishes
<1> QED
  BY <1>3, <1>4, <1>5, <1>6, <1>7, <1>8, <1>9, <1>10, <1>11, <1>12 DEF IInv

LEMMA CloseInv == ASSUME IInv, NEW t \in Threads, Close(t) PROVE IInv'
<1>1. TypeOK'
  BY CloseType DEF IInv
<1> PICK p : p = thr[t].pc
  OBVIOUS
<1>2. /\ thr[t] \in ThreadState /\ thr[t].at = "close" /\ p \in PCs
      /\ ~IsRegistered(p) /\ state[p] # "unused"
      /\ thr[Loop].at = "register" => thr[Loop].pc # p
  BY DEF Close, IInv, TypeOK, Directed, Closers, JustMade
<1>3. Finishes(t, p, thr[t], Visit(thr[t], Registered(thr[t].chat)))
  BY <1>2, FinishesVisit
<1>4. \A s \in Threads : Finishes(s, p, thr[s], thr'[s])
  BY <1>3, FinishesSame DEF Close, IInv, TypeOK
<1> QED
  BY <1>1, <1>2, <1>4, ClosedInv DEF Close

LEMMA ShutdownCloseInv == ASSUME IInv, NEW p \in PCs, ShutdownClose(p) PROVE IInv'
<1>1. TypeOK'
  BY ShutdownCloseType DEF IInv
<1>2. /\ ~IsRegistered(p) /\ state[p] # "unused" /\ thr[Loop].at = "shut"
      /\ thr[Loop] \in ThreadState
  BY LoopThread, NoneFresh DEF ShutdownClose, IInv, RoomsGone, IsRegistered, TypeOK
<1> DEFINE r == [thr[Loop] EXCEPT !.todo = @ \ {p}]
<1>3. Finishes(Loop, p, thr[Loop], r)
  BY <1>2, LoopThread DEF Finishes, ThreadState, Joining, IInv, LeftFirst
<1>4. thr' = [thr EXCEPT ![Loop] = r]
  BY LoopThread DEF ShutdownClose, IInv, TypeOK
<1> HIDE DEF r
<1>5. \A s \in Threads : Finishes(s, p, thr[s], thr'[s])
  BY <1>3, <1>4, FinishesSame DEF IInv, TypeOK
<1> QED
  BY <1>1, <1>2, <1>5, ClosedInv DEF ShutdownClose

-----------------------------------------------------------------------------
(* Steps that take a connection out of its room.                           *)

LEMMA DeregisterFacts ==
  ASSUME TypeOK, TrackHasRelay, NEW c \in Chats, NEW u \in Users, peers[c][u] # None,
         Deregister(c, u)
  PROVE  /\ peers'[c][u] = None
         /\ \A d \in Chats, v \in Users :
              /\ <<d, v>> # <<c, u>> => peers'[d][v] = peers[d][v]
              /\ tracks'[d][v] # None => tracks'[d][v] = tracks[d][v] /\ Registered(d)' # {}
<1>1. /\ peers'[c][u] = None
      /\ \A d \in Chats, v \in Users : <<d, v>> # <<c, u>> => peers'[d][v] = peers[d][v]
  BY DEF TypeOK, Deregister
<1>2. ASSUME NEW d \in Chats, NEW v \in Users, tracks'[d][v] # None
      PROVE  tracks'[d][v] = tracks[d][v]
  BY <1>2 DEF TypeOK, Deregister
<1>3. ASSUME NEW d \in Chats, NEW v \in Users, tracks'[d][v] # None
      PROVE  Registered(d)' # {}
  <2>1. Registered(d) # {}
    BY <1>2, <1>3 DEF TrackHasRelay
  <2>2. CASE d # c
    <3> PICK w \in Users : peers[d][w] # None
      BY <2>1 DEF Registered
    <3>1. peers'[d][w] # None
      BY <2>2, <1>1
    <3> QED
      BY <3>1 DEF Registered
  <2>3. CASE d = c
    <3>1. Registered(c) # {peers[c][u]}
      BY <1>3, <2>3 DEF Deregister, TypeOK
    <3>2. peers[c][u] \in Registered(c)
      BY DEF Registered
    <3> PICK q \in Registered(c) : q # peers[c][u]
      BY <3>1, <3>2
    <3> PICK w \in Users : peers[c][w] = q
      BY DEF Registered
    <3>3. peers'[c][w] = q /\ q # None
      BY <1>1 DEF Registered
    <3> QED
      BY <3>3, <2>3 DEF Registered
  <2> QED
    BY <2>2, <2>3
<1> QED
  BY <1>1, <1>2, <1>3

LEMMA RemovalInv ==
  ASSUME IInv, TypeOK',
         NEW c \in Chats, NEW u \in Users, NEW p \in PCs, peers[c][u] = p, Deregister(c, u),
         UNCHANGED <<home, state, answered>>, events' \in {events, events \ {p}},
         NEW t \in Threads, NEW next,
         \/ t = Loop /\ thr[Loop].at = "idle" /\ next \in {"idle", "admit"}
         \/ t = Remover(p) /\ next = "done",
         thr' = [thr EXCEPT ![t] = Closing(c, u, p, next)]
  PROVE  IInv'
<1>1. /\ p # None /\ peers'[c][u] = None
      /\ \A d \in Chats, v \in Users :
           /\ <<d, v>> # <<c, u>> => peers'[d][v] = peers[d][v]
           /\ tracks'[d][v] # None => tracks'[d][v] = tracks[d][v] /\ Registered(d)' # {}
  BY NoneFresh, DeregisterFacts DEF IInv
<1>2. \A d \in Chats, v \in Users : peers[d][v] # None => home[peers[d][v]] = [chat |-> d, user |-> v]
  BY DEF IInv, RegisteredIsLive
<1>3. \A d \in Chats, v \in Users :
        peers'[d][v] # p /\ (peers'[d][v] # None => peers'[d][v] = peers[d][v])
  <2>1. \A d \in Chats, v \in Users : peers[d][v] = p => d = c /\ v = u
    <3>1. ASSUME NEW d \in Chats, NEW v \in Users, peers[d][v] = p PROVE d = c /\ v = u
      <4>1. [chat |-> d, user |-> v] = [chat |-> c, user |-> u]
        BY <1>1, <1>2, <3>1
      <4> QED
        BY <4>1
    <3> QED
      BY <3>1
  <2> QED
    BY <2>1, <1>1
<1>4. /\ thr'[t].at = "close" /\ thr'[t].pc = p /\ thr'[t].chat = c /\ thr'[t].user = u
      /\ thr'[t].next = next
      /\ \A s \in Threads : s # t => thr'[s] = thr[s]
  BY DEF IInv, TypeOK, Closing, Resting
<1>5. thr[t].at # "close"
  BY DEF IInv, Closers, OwnRemover, IsRegistered
<1>6. home[p] = [chat |-> c, user |-> u] /\ state[p] # "unused"
  BY <1>1 DEF IInv, RegisteredIsLive
<1>7. Homed'
  BY DEF IInv, Homed
<1>8. RegisteredIsLive'
  BY <1>3 DEF IInv, RegisteredIsLive
<1>9. Closers'
  <2> SUFFICES ASSUME NEW s \in Threads, thr'[s].at = "close"
               PROVE  /\ state[thr'[s].pc] # "unused"
                      /\ \A d \in Chats, v \in Users : peers'[d][v] # thr'[s].pc
    BY DEF Closers, IsRegistered
  <2>1. CASE s = t
    BY <2>1, <1>3, <1>4, <1>6
  <2>2. CASE s # t
    <3>1. thr'[s] = thr[s] /\ thr[s].pc \in PCs
      BY <2>2, <1>4 DEF IInv, TypeOK, Directed
    <3> QED
      BY <3>1, <1>3, NoneFresh DEF IInv, Closers, IsRegistered
  <2> QED
    BY <2>1, <2>2
<1>10. JustMade'
  <2> SUFFICES ASSUME thr'[Loop].at = "register" PROVE JustMade'
    BY DEF JustMade
  <2>1. Loop # t /\ thr'[Loop] = thr[Loop] /\ thr[Loop].pc \in PCs /\ thr[Loop].pc # p
    BY <1>4, LoopThread DEF IInv, JustMade, IsRegistered, TypeOK, Directed
  <2>2. ~IsRegistered(thr[Loop].pc)'
    BY <1>3, <2>1, NoneFresh DEF IInv, JustMade, IsRegistered
  <2>3. \A s \in Threads : thr'[s].at = "close" => thr'[s].pc # thr[Loop].pc
    BY <1>4, <2>1 DEF IInv, JustMade
  <2> QED
    BY <2>1, <2>2, <2>3 DEF IInv, JustMade
<1>11. RoomsGone'
  BY <1>1, <1>4, LoopThread DEF IInv, RoomsGone
<1>12. LeftFirst'
  <2>1. \A s \in Threads : thr'[s].next = "admit" => thr'[s].at \in {"close", "each", "apply"}
    BY <1>4 DEF IInv, LeftFirst
  <2>2. ASSUME Joining(thr'[Loop]) PROVE peers'[thr'[Loop].chat][thr'[Loop].user] = None
    <3>1. CASE t = Loop
      BY <3>1, <1>1, <1>4
    <3>2. CASE t # Loop
      <4>1. thr'[Loop] = thr[Loop] /\ thr[Loop].chat \in Chats /\ thr[Loop].user \in Users
        BY <3>2, <2>2, <1>4, LoopThread DEF IInv, LeftFirst, Joining, TypeOK, Directed
      <4> QED
        BY <4>1, <2>2, <1>3 DEF IInv, LeftFirst
    <3> QED
      BY <3>1, <3>2
  <2> QED
    BY <2>1, <2>2 DEF LeftFirst
<1>13. OwnRemover'
  BY <1>4, PCThreads, ThreadsDiffer DEF IInv, OwnRemover
<1>14. TrackUsed'
  BY <1>1 DEF IInv, TrackUsed
<1>15. NoLeakedConnection'
  <2> SUFFICES ASSUME NEW q \in PCs, state[q] \in {"open", "failed"}
               PROVE  \/ peers'[home[q].chat][home[q].user] = q
                      \/ thr'[Loop].at = "register" /\ thr'[Loop].pc = q
                      \/ thr'[Loop].at = "shut" /\ q \in thr'[Loop].todo
                      \/ \E s \in Threads : thr'[s].at = "close" /\ thr'[s].pc = q
    BY DEF NoLeakedConnection
  <2>1. CASE q = p
    BY <2>1, <1>4
  <2>2. CASE q # p /\ peers[home[q].chat][home[q].user] = q
    <3>1. home[q].chat \in Chats /\ home[q].user \in Users
      BY DEF IInv, Homed
    <3> QED
      BY <2>2, <3>1, <1>1
  <2>3. CASE q # p /\ peers[home[q].chat][home[q].user] # q
    <3>1. \/ thr[Loop].at = "register" /\ thr[Loop].pc = q
          \/ thr[Loop].at = "shut" /\ q \in thr[Loop].todo
          \/ \E s \in Threads : thr[s].at = "close" /\ thr[s].pc = q
      BY <2>3 DEF IInv, NoLeakedConnection
    <3>2. thr[Loop].at \in {"register", "shut"} => thr'[Loop] = thr[Loop]
      BY <1>4, LoopThread, ThreadsDiffer
    <3>3. \A s \in Threads : thr[s].at = "close" => thr'[s] = thr[s]
      BY <1>4, <1>5
    <3> QED
      BY <3>1, <3>2, <3>3
  <2> QED
    BY <2>1, <2>2, <2>3
<1>16. TrackHasRelay'
  <2> SUFFICES ASSUME NEW d \in Chats, NEW v \in Users, tracks'[d][v] # None
               PROVE  /\ home[tracks'[d][v]] = [chat |-> d, user |-> v] /\ Registered(d)' # {}
                      /\ "reading" \in {thr'[Relay(tracks'[d][v])].at,
                                        thr'[Relay(tracks'[d][v])].next}
    BY DEF TrackHasRelay
  <2>1. tracks'[d][v] = tracks[d][v] /\ tracks[d][v] \in PCs /\ Registered(d)' # {}
    BY <1>1 DEF IInv, TypeOK
  <2>2. thr'[Relay(tracks[d][v])] = thr[Relay(tracks[d][v])]
    BY <2>1, <1>4, PCThreads, ThreadsDiffer
  <2> QED
    BY <2>1, <2>2 DEF IInv, TrackHasRelay
<1> QED
  BY <1>7, <1>8, <1>9, <1>10, <1>11, <1>12, <1>13, <1>14, <1>15, <1>16 DEF IInv

LEMMA SignalInv ==
  ASSUME IInv, NEW c \in Chats, NEW u \in Users, NEW next \in {"idle", "admit"},
         Signal(c, u, next)
  PROVE  IInv'
<1>1. TypeOK' /\ Homed'
  BY SignalType DEF IInv, Homed, Signal, conns
<1>2. CASE peers[c][u] = None
  <2> DEFINE r == [Resting EXCEPT !.at = next, !.chat = c, !.user = u]
  <2>1. Continues(Loop, thr[Loop], r)
    BY <1>2 DEF Signal, Continues, Carries, Joining, Resting
  <2>2. thr' = [thr EXCEPT ![Loop] = r] /\ UNCHANGED <<rooms, conns>>
    BY <1>2 DEF Signal
  <2> HIDE DEF r
  <2>3. \A s \in Threads : Continues(s, thr[s], thr'[s])
    BY <2>1, <2>2, ContinuesSame DEF IInv, TypeOK
  <2> QED
    BY <1>1, <2>2, <2>3, Quiet DEF conns
<1>3. CASE peers[c][u] # None
  <2> PICK p \in PCs : p = peers[c][u]
    BY <1>3 DEF IInv, TypeOK
  <2> QED
    BY <1>1, <1>3, LoopThread, RemovalInv DEF Signal, conns
<1> QED
  BY <1>2, <1>3

LEMMA RemovePeerInv == ASSUME IInv, NEW p \in PCs, RemovePeer(p) PROVE IInv'
<1> PICK c \in Chats, u \in Users : c = home[p].chat /\ u = home[p].user
  BY DEF IInv, Homed, RemovePeer
<1>1. TypeOK' /\ state[p] # "unused"
  BY RemovePeerType DEF IInv, Homed, RemovePeer
<1>2. CASE peers[c][u] = p
  BY <1>1, <1>2, PCThreads, RemovalInv DEF RemovePeer
<1>3. CASE peers[c][u] # p
  <2>1. ~IsRegistered(p)
    <3> SUFFICES ASSUME NEW d \in Chats, NEW v \in Users, peers[d][v] = p PROVE FALSE
      BY DEF IsRegistered
    <3>1. home[p] = [chat |-> d, user |-> v]
      BY NoneFresh DEF IInv, RegisteredIsLive
    <3> QED
      BY <3>1, <1>3
  <2>2. ClosePC(p, events \ {p}) /\ UNCHANGED <<rooms, thr, home, answered>>
    BY <1>3 DEF RemovePeer
  <2>3. thr[Loop].at = "register" => thr[Loop].pc # p
    BY DEF IInv, JustMade, RemovePeer
  <2>4. \A s \in Threads : Finishes(s, p, thr[s], thr'[s])
    BY <2>2, FinishesSame
  <2> QED
    BY <1>1, <2>1, <2>2, <2>3, <2>4, ClosedInv
<1> QED
  BY <1>2, <1>3

-----------------------------------------------------------------------------
(* The other steps.                                                        *)

LEMMA RegisterTrackInv == ASSUME IInv, NEW p \in PCs, RegisterTrack(p) PROVE IInv'
<1> PICK c \in Chats, u \in Users : c = home[p].chat /\ u = home[p].user
  BY DEF IInv, Homed, RegisterTrack
<1>1. TypeOK' /\ Homed' /\ Relay(p) \in Threads /\ Relay(p) # Loop
  BY RegisterTrackType, PCThreads, ThreadsDiffer DEF IInv, Homed, RegisterTrack, conns
<1>2. CASE Registered(c) = {}
  <2>1. Carries(thr[Relay(p)], Ended)
    BY DEF RegisterTrack, Carries, Joining, Ended, Resting
  <2>2. thr' = [thr EXCEPT ![Relay(p)] = Ended] /\ UNCHANGED tracks
    BY <1>2 DEF RegisterTrack
  <2>3. \A s \in Threads : Carries(thr[s], thr'[s])
    BY <2>1, <2>2, ContinuesSame DEF IInv, TypeOK, Continues
  <2>4. TrackUsed'
    BY <2>2 DEF RegisterTrack, conns, IInv, TrackUsed
  <2>5. TrackHasRelay'
    <3> SUFFICES ASSUME NEW d \in Chats, NEW v \in Users, tracks[d][v] # None
                 PROVE  /\ home[tracks[d][v]] = [chat |-> d, user |-> v] /\ Registered(d) # {}
                        /\ "reading" \in {thr'[Relay(tracks[d][v])].at,
                                          thr'[Relay(tracks[d][v])].next}
      BY <2>2 DEF TrackHasRelay, Registered, RegisterTrack, conns
    <3>1. tracks[d][v] \in PCs /\ home[tracks[d][v]] = [chat |-> d, user |-> v]
          /\ Registered(d) # {}
      BY DEF IInv, TypeOK, TrackHasRelay
    <3>2. tracks[d][v] # p
      BY <3>1, <1>2
    <3>3. thr'[Relay(tracks[d][v])] = thr[Relay(tracks[d][v])]
      BY <2>2, <3>1, <3>2, PCThreads, ThreadsDiffer DEF IInv, TypeOK
    <3> QED
      BY <3>1, <3>3 DEF IInv, TrackHasRelay
  <2> QED
    BY <1>1, <2>3, <2>4, <2>5, QuietTracks DEF RegisterTrack, conns
<1>3. CASE Registered(c) # {}
  <2> DEFINE r == [Resting EXCEPT !.at = "spread", !.next = "reading", !.chat = c, !.user = u,
                                  !.pc = p]
  <2>1. thr' = [thr EXCEPT ![Relay(p)] = r] /\ tracks' = [tracks EXCEPT ![c][u] = p]
    BY <1>3 DEF RegisterTrack
  <2>2. Carries(thr[Relay(p)], r) /\ r.next = "reading"
    BY DEF RegisterTrack, Carries, Joining, Resting
  <2> HIDE DEF r
  <2>3. \A s \in Threads : Carries(thr[s], thr'[s])
    BY <2>1, <2>2, ContinuesSame DEF IInv, TypeOK, Continues
  <2>4. \A d \in Chats, v \in Users :
          \/ tracks'[d][v] = tracks[d][v]
          \/ d = c /\ v = u /\ tracks'[d][v] = p
    BY <2>1 DEF IInv, TypeOK
  <2>5. thr'[Relay(p)].next = "reading" /\ \A s \in Threads : s # Relay(p) => thr'[s] = thr[s]
    BY <1>1, <2>1, <2>2 DEF IInv, TypeOK
  <2>6. state[p] # "unused" /\ home[p] = [chat |-> c, user |-> u]
    BY DEF RegisterTrack, IInv, Homed, TypeOK
  <2>7. TrackUsed'
    BY <2>4, <2>6 DEF RegisterTrack, conns, IInv, TrackUsed
  <2>8. TrackHasRelay'
    <3> SUFFICES ASSUME NEW d \in Chats, NEW v \in Users, tracks'[d][v] # None
                 PROVE  /\ home[tracks'[d][v]] = [chat |-> d, user |-> v] /\ Registered(d) # {}
                        /\ "reading" \in {thr'[Relay(tracks'[d][v])].at,
                                          thr'[Relay(tracks'[d][v])].next}
      BY DEF TrackHasRelay, Registered, RegisterTrack, conns
    <3>1. CASE tracks'[d][v] = p /\ d = c /\ v = u
      BY <3>1, <1>3, <2>5, <2>6
    <3>2. CASE tracks'[d][v] = tracks[d][v]
      <4>1. tracks[d][v] \in PCs
        BY <3>2 DEF IInv, TypeOK
      <4>2. CASE tracks[d][v] = p
        BY <3>2, <4>2, <2>5 DEF IInv, TrackHasRelay
      <4>3. CASE tracks[d][v] # p
        <5>1. thr'[Relay(tracks[d][v])] = thr[Relay(tracks[d][v])]
          BY <4>1, <4>3, <2>5, PCThreads, ThreadsDiffer
        <5> QED
          BY <3>2, <5>1 DEF IInv, TrackHasRelay
      <4> QED
        BY <4>2, <4>3
    <3> QED
      BY <3>1, <3>2, <2>4
  <2> QED
    BY <1>1, <2>3, <2>7, <2>8, QuietTracks DEF RegisterTrack, conns
<1> QED
  BY <1>2, <1>3

LEMMA UnregisterTrackInv == ASSUME IInv, NEW p \in PCs, UnregisterTrack(p) PROVE IInv'
<1> PICK c, u : c = home[p].chat /\ u = home[p].user
  OBVIOUS
<1>1. TypeOK' /\ Homed' /\ Relay(p) \in Threads /\ Relay(p) # Loop
  BY UnregisterTrackType, PCThreads, ThreadsDiffer DEF IInv, Homed, UnregisterTrack, conns
<1>2. /\ thr'[Relay(p)].at = "spread" /\ thr'[Relay(p)].next = "done"
      /\ \A s \in Threads : s # Relay(p) => thr'[s] = thr[s]
  BY <1>1 DEF UnregisterTrack, IInv, TypeOK, ThreadState
<1>3. Carries(thr[Relay(p)], thr'[Relay(p)])
  BY <1>2 DEF UnregisterTrack, Carries, Joining
<1>4. \A s \in Threads : Carries(thr[s], thr'[s])
  BY <1>2, <1>3, ContinuesSame DEF Continues
<1>5. ASSUME NEW d \in Chats, NEW v \in Users, tracks'[d][v] # None
      PROVE  tracks'[d][v] = tracks[d][v] /\ tracks[d][v] # p /\ tracks[d][v] \in PCs
  <2>1. tracks'[d][v] = tracks[d][v] /\ tracks[d][v] # None
    BY <1>5 DEF UnregisterTrack, IInv, TypeOK
  <2>2. ASSUME tracks[d][v] = p PROVE FALSE
    <3>1. home[p] = [chat |-> d, user |-> v]
      BY <2>1, <2>2 DEF IInv, TrackHasRelay
    <3>2. tracks' = [tracks EXCEPT ![d][v] = None]
      BY <2>2, <3>1 DEF UnregisterTrack
    <3> QED
      BY <1>5, <3>2 DEF IInv, TypeOK
  <2> QED
    BY <2>1, <2>2 DEF IInv, TypeOK
<1>6. TrackUsed'
  <2>1. TrackUsed /\ state' = state /\ answered' = answered
    BY DEF IInv, UnregisterTrack, conns
  <2> HIDE DEF IInv
  <2> QED
    BY <1>5, <2>1 DEF TrackUsed
<1>7. TrackHasRelay'
  <2> SUFFICES ASSUME NEW d \in Chats, NEW v \in Users, tracks'[d][v] # None
               PROVE  /\ home[tracks'[d][v]] = [chat |-> d, user |-> v] /\ Registered(d) # {}
                      /\ "reading" \in {thr'[Relay(tracks'[d][v])].at,
                                        thr'[Relay(tracks'[d][v])].next}
    <3>1. home' = home /\ peers' = peers
      BY DEF UnregisterTrack, conns
    <3>2. \A d \in Chats : Registered(d)' = Registered(d)
      BY <3>1 DEF Registered
    <3> HIDE DEF IInv
    <3> QED
      BY <3>1, <3>2 DEF TrackHasRelay
  <2>1. tracks'[d][v] = tracks[d][v] /\ tracks[d][v] # p /\ tracks[d][v] \in PCs
    BY <1>5
  <2>2. thr'[Relay(tracks[d][v])] = thr[Relay(tracks[d][v])]
    BY <2>1, <1>2, PCThreads, ThreadsDiffer
  <2> QED
    BY <2>1, <2>2 DEF IInv, TrackHasRelay
<1> QED
  BY <1>1, <1>4, <1>6, <1>7, QuietTracks DEF UnregisterTrack, conns

LEMMA FailInv == ASSUME IInv, NEW p \in PCs, Fail(p) PROVE IInv'
<1>1. TypeOK'
  BY FailType DEF IInv
<1>2. /\ state[p] = "open" /\ state'[p] = "failed" /\ p \in events' /\ p \in answered
      /\ \A q \in PCs : q # p => state'[q] = state[q] /\ (q \in events' <=> q \in events)
      /\ UNCHANGED <<peers, tracks, home, answered, thr>>
  BY DEF Fail, IInv, TypeOK, rooms
<1>3. Homed'
  BY <1>2 DEF IInv, Homed
<1>4. RegisteredIsLive'
  BY <1>2 DEF IInv, RegisteredIsLive, TypeOK
<1>5. NoLeakedConnection'
  BY <1>2 DEF IInv, NoLeakedConnection
<1>6. TrackHasRelay'
  BY <1>2 DEF IInv, TrackHasRelay, Registered
<1>7. Closers'
  BY <1>2 DEF IInv, Closers, IsRegistered, TypeOK, Directed
<1>8. JustMade'
  <2> SUFFICES ASSUME thr[Loop].at = "register" PROVE JustMade'
    BY <1>2 DEF JustMade
  <2>1. thr[Loop].pc \in PCs /\ thr[Loop].pc # p
    BY <1>2, LoopThread DEF IInv, JustMade, TypeOK, Directed
  <2> QED
    BY <1>2, <2>1 DEF IInv, JustMade, IsRegistered
<1>9. RoomsGone'
  BY <1>2, LoopThread DEF IInv, RoomsGone, TypeOK, ThreadState
<1>10. LeftFirst' /\ OwnRemover'
  BY <1>2 DEF IInv, LeftFirst, OwnRemover
<1>11. TrackUsed'
  BY <1>2 DEF IInv, TrackUsed, TypeOK
<1> QED
  BY <1>1, <1>3, <1>4, <1>5, <1>6, <1>7, <1>8, <1>9, <1>10, <1>11 DEF IInv

LEMMA AdmitInv == ASSUME IInv, NEW p \in PCs, Admit(p) PROVE IInv'
<1>1. TypeOK'
  BY AdmitType DEF IInv
<1> PICK c \in Chats, u \in Users : c = thr[Loop].chat /\ u = thr[Loop].user
  BY LoopThread DEF IInv, TypeOK, Directed, Admit
<1>2. /\ thr[Loop].at = "admit" /\ thr'[Loop].at = "register" /\ thr'[Loop].pc = p
      /\ thr'[Loop].chat = c /\ thr'[Loop].user = u /\ thr'[Loop].next = thr[Loop].next
      /\ \A t \in Threads : t # Loop => thr'[t] = thr[t]
  BY LoopThread DEF Admit, IInv, TypeOK, ThreadState
<1>3. /\ state[p] = "unused" /\ state'[p] = "open" /\ home'[p] = [chat |-> c, user |-> u]
      /\ \A q \in PCs : q # p => state'[q] = state[q] /\ home'[q] = home[q]
      /\ UNCHANGED <<peers, tracks, events, answered>>
  BY DEF Admit, IInv, TypeOK, rooms
<1>4. ~IsRegistered(p)
  <2> SUFFICES ASSUME NEW d \in Chats, NEW v \in Users, peers[d][v] = p PROVE FALSE
    BY DEF IsRegistered
  <2>1. peers[d][v] # None
    BY NoneFresh
  <2> QED
    BY <2>1, <1>3 DEF IInv, RegisteredIsLive
<1>5. \A t \in Threads : thr[t].at = "close" => thr[t].pc \in PCs /\ thr[t].pc # p
  BY <1>3 DEF IInv, Closers, TypeOK, Directed
<1>6. Homed'
  BY <1>3 DEF IInv, Homed
<1>7. RegisteredIsLive'
  <2> SUFFICES ASSUME NEW d \in Chats, NEW v \in Users, peers[d][v] # None
               PROVE  /\ home'[peers[d][v]] = [chat |-> d, user |-> v]
                      /\ state'[peers[d][v]] = "open"
                         \/ (state'[peers[d][v]] = "failed" /\ peers[d][v] \in events)
    BY <1>3 DEF RegisteredIsLive
  <2>1. peers[d][v] \in PCs /\ peers[d][v] # p
    BY <1>4 DEF IInv, TypeOK, IsRegistered
  <2> QED
    BY <1>3, <2>1 DEF IInv, RegisteredIsLive
<1>8. NoLeakedConnection'
  <2> SUFFICES ASSUME NEW q \in PCs, state'[q] \in {"open", "failed"}
               PROVE  \/ peers[home'[q].chat][home'[q].user] = q
                      \/ thr'[Loop].at = "register" /\ thr'[Loop].pc = q
                      \/ \E t \in Threads : thr'[t].at = "close" /\ thr'[t].pc = q
    BY <1>3 DEF NoLeakedConnection
  <2>1. CASE q = p
    BY <2>1, <1>2
  <2>2. CASE q # p
    <3>1. \/ peers[home[q].chat][home[q].user] = q
          \/ \E t \in Threads : thr[t].at = "close" /\ thr[t].pc = q
      BY <2>2, <1>2, <1>3 DEF IInv, NoLeakedConnection
    <3> QED
      BY <3>1, <2>2, <1>2, <1>3
  <2> QED
    BY <2>1, <2>2
<1>9. TrackUsed'
  BY <1>3 DEF IInv, TrackUsed, TypeOK
<1>10. TrackHasRelay'
  <2> SUFFICES ASSUME NEW d \in Chats, NEW v \in Users, tracks[d][v] # None
               PROVE  /\ home'[tracks[d][v]] = [chat |-> d, user |-> v] /\ Registered(d) # {}
                      /\ "reading" \in {thr'[Relay(tracks[d][v])].at,
                                        thr'[Relay(tracks[d][v])].next}
    BY <1>3 DEF TrackHasRelay, Registered
  <2>1. tracks[d][v] \in PCs /\ tracks[d][v] # p
    BY <1>3 DEF IInv, TypeOK, TrackUsed
  <2>2. thr'[Relay(tracks[d][v])] = thr[Relay(tracks[d][v])]
    BY <2>1, <1>2, PCThreads, ThreadsDiffer
  <2> QED
    BY <2>1, <2>2, <1>3 DEF IInv, TrackHasRelay
<1>11. Closers'
  BY <1>2, <1>3, <1>5 DEF IInv, Closers, IsRegistered
<1>12. JustMade'
  <2>1. p \notin events \union answered
    BY <1>3 DEF IInv, Homed
  <2>2. \A t \in Threads : thr'[t].at = "close" => thr'[t].pc # p
    BY <1>2, <1>5
  <2> QED
    BY <2>1, <2>2, <1>2, <1>3, <1>4 DEF JustMade, IsRegistered
<1>13. RoomsGone'
  BY <1>2 DEF RoomsGone
<1>14. LeftFirst'
  BY <1>2, <1>3, LoopThread DEF IInv, LeftFirst, Joining
<1>15. OwnRemover'
  BY <1>2, PCThreads, ThreadsDiffer DEF IInv, OwnRemover
<1> QED
  BY <1>1, <1>6, <1>7, <1>8, <1>9, <1>10, <1>11, <1>12, <1>13, <1>14, <1>15 DEF IInv

LEMMA RegisterInv == ASSUME IInv, Register PROVE IInv'
<1>1. TypeOK' /\ Homed'
  BY RegisterType DEF IInv, Homed, Register, conns
<1> PICK c \in Chats, u \in Users, p \in PCs :
           c = thr[Loop].chat /\ u = thr[Loop].user /\ p = thr[Loop].pc
  BY LoopThread DEF IInv, TypeOK, Directed, Register
<1>2. /\ thr[Loop].at = "register" /\ thr'[Loop].at = "each" /\ thr'[Loop].next = "idle"
      /\ \A t \in Threads : t # Loop => thr'[t] = thr[t]
  BY LoopThread DEF Register, IInv, TypeOK, ThreadState
<1>3. /\ state[p] = "open" /\ home[p] = [chat |-> c, user |-> u] /\ peers[c][u] = None
      /\ \A t \in Threads : thr[t].at = "close" => thr[t].pc # p
  BY <1>2 DEF IInv, JustMade, LeftFirst, Joining
<1>4. /\ peers'[c][u] = p
      /\ \A d \in Chats, v \in Users : <<d, v>> # <<c, u>> => peers'[d][v] = peers[d][v]
      /\ UNCHANGED <<tracks, home, state, events, answered>>
  BY DEF Register, IInv, TypeOK, conns
<1>5. RegisteredIsLive'
  BY <1>3, <1>4 DEF IInv, RegisteredIsLive
<1>6. NoLeakedConnection'
  <2> SUFFICES ASSUME NEW q \in PCs, state[q] \in {"open", "failed"}
               PROVE  \/ peers'[home[q].chat][home[q].user] = q
                      \/ \E t \in Threads : thr'[t].at = "close" /\ thr'[t].pc = q
    BY <1>4 DEF NoLeakedConnection
  <2>1. CASE q = p
    BY <2>1, <1>3, <1>4
  <2>2. CASE q # p /\ peers[home[q].chat][home[q].user] = q
    <3>1. home[q].chat \in Chats /\ home[q].user \in Users
      BY DEF IInv, Homed
    <3>2. <<home[q].chat, home[q].user>> # <<c, u>>
      BY <2>2, <1>3, NoneFresh
    <3> QED
      BY <2>2, <3>1, <3>2, <1>4
  <2>3. CASE q # p /\ peers[home[q].chat][home[q].user] # q
    BY <2>3, <1>2 DEF IInv, NoLeakedConnection
  <2> QED
    BY <2>1, <2>2, <2>3
<1>7. TrackHasRelay'
  <2> SUFFICES ASSUME NEW d \in Chats, NEW v \in Users, tracks[d][v] # None
               PROVE  /\ home[tracks[d][v]] = [chat |-> d, user |-> v] /\ Registered(d)' # {}
                      /\ "reading" \in {thr'[Relay(tracks[d][v])].at,
                                        thr'[Relay(tracks[d][v])].next}
    BY <1>4 DEF TrackHasRelay
  <2>1. tracks[d][v] \in PCs /\ Registered(d) # {}
    <3>1. tracks[d][v] \in PCs
      BY DEF IInv, TypeOK
    <3>2. Registered(d) # {}
      BY DEF IInv, TrackHasRelay
    <3> QED
      BY <3>1, <3>2
  <2>2. thr'[Relay(tracks[d][v])] = thr[Relay(tracks[d][v])]
    BY <2>1, <1>2, PCThreads, ThreadsDiffer
  <2>3. Registered(d)' # {}
    <3> PICK w \in Users : peers[d][w] # None
      BY <2>1 DEF Registered
    <3>1. peers'[d][w] # None
      BY <1>3, <1>4
    <3> QED
      BY <3>1 DEF Registered
  <2> QED
    BY <2>2, <2>3 DEF IInv, TrackHasRelay
<1>8. Closers'
  <2> SUFFICES ASSUME NEW t \in Threads, thr'[t].at = "close"
               PROVE  /\ state[thr'[t].pc] # "unused"
                      /\ \A d \in Chats, v \in Users : peers'[d][v] # thr'[t].pc
    BY <1>4 DEF Closers, IsRegistered
  <2>1. thr'[t] = thr[t]
    BY <1>2
  <2> QED
    BY <2>1, <1>3, <1>4 DEF IInv, Closers, IsRegistered
<1>9. JustMade' /\ RoomsGone'
  BY <1>2 DEF JustMade, RoomsGone
<1>10. LeftFirst'
  BY <1>2 DEF IInv, LeftFirst, Joining
<1>11. OwnRemover'
  BY <1>2, PCThreads, ThreadsDiffer DEF IInv, OwnRemover
<1>12. TrackUsed'
  BY <1>4 DEF IInv, TrackUsed
<1> QED
  BY <1>1, <1>5, <1>6, <1>7, <1>8, <1>9, <1>10, <1>11, <1>12 DEF IInv

LEMMA ShutdownInv == ASSUME IInv, Shutdown PROVE IInv'
<1> DEFINE all == UNION {Registered(c) : c \in Chats}
<1>1. TypeOK' /\ Homed'
  BY ShutdownType DEF IInv, Homed, Shutdown, conns
<1>2. /\ thr[Loop].at = "idle" /\ thr'[Loop].at = "shut" /\ thr'[Loop].todo = all
      /\ thr'[Loop].next = "idle"
      /\ \A t \in Threads : t # Loop => thr'[t] = thr[t]
  <2>1. thr' = [thr EXCEPT ![Loop] = [Resting EXCEPT !.at = "shut", !.todo = all]]
    BY DEF Shutdown
  <2>2. thr[Loop].at = "idle"
    BY DEF Shutdown
  <2>3. thr \in [Threads -> ThreadState]
    BY DEF IInv, TypeOK
  <2> DEFINE r == [Resting EXCEPT !.at = "shut", !.todo = all]
  <2> HIDE DEF all
  <2>4. r.at = "shut" /\ r.todo = all /\ r.next = "idle"
    BY DEF Resting
  <2> HIDE DEF r
  <2>5. thr' = [thr EXCEPT ![Loop] = r]
    BY <2>1 DEF r
  <2> QED
    BY <2>2, <2>3, <2>4, <2>5, LoopThread
<1>3. /\ \A c \in Chats, u \in Users : peers'[c][u] = None /\ tracks'[c][u] = None
      /\ UNCHANGED <<home, state, events, answered>>
  BY DEF Shutdown, conns
<1>4. \A q \in all : state[q] # "unused"
  <2> SUFFICES ASSUME NEW c \in Chats, NEW q \in Registered(c) PROVE state[q] # "unused"
    OBVIOUS
  <2> PICK u \in Users : peers[c][u] = q /\ q # None
    BY DEF Registered
  <2> QED
    BY DEF IInv, RegisteredIsLive
<1>5. NoLeakedConnection'
  <2> SUFFICES ASSUME NEW q \in PCs, state[q] \in {"open", "failed"}
               PROVE  \/ thr'[Loop].at = "shut" /\ q \in thr'[Loop].todo
                      \/ \E t \in Threads : thr'[t].at = "close" /\ thr'[t].pc = q
    BY <1>3 DEF NoLeakedConnection
  <2>1. CASE peers[home[q].chat][home[q].user] = q
    <3>1. home[q].chat \in Chats /\ home[q].user \in Users /\ q # None
      BY NoneFresh DEF IInv, Homed
    <3>2. q \in Registered(home[q].chat)
      BY <2>1, <3>1 DEF Registered
    <3> QED
      BY <3>1, <3>2, <1>2
  <2>2. CASE peers[home[q].chat][home[q].user] # q
    BY <2>2, <1>2 DEF IInv, NoLeakedConnection
  <2> QED
    BY <2>1, <2>2
<1>6. RegisteredIsLive' /\ TrackHasRelay' /\ TrackUsed'
  BY <1>3 DEF RegisteredIsLive, TrackHasRelay, TrackUsed
<1>7. Closers'
  <2> SUFFICES ASSUME NEW t \in Threads, thr'[t].at = "close"
               PROVE  /\ state[thr'[t].pc] # "unused"
                      /\ \A d \in Chats, v \in Users : peers'[d][v] # thr'[t].pc
    BY <1>3 DEF Closers, IsRegistered
  <2>1. thr'[t] = thr[t] /\ thr[t].pc \in PCs
    BY <1>2 DEF IInv, TypeOK, Directed
  <2> QED
    BY <2>1, <1>3, NoneFresh DEF IInv, Closers
<1>8. JustMade' /\ RoomsGone'
  BY <1>2, <1>3, <1>4 DEF JustMade, RoomsGone
<1>9. LeftFirst'
  BY <1>2 DEF IInv, LeftFirst, Joining
<1>10. OwnRemover'
  BY <1>2, PCThreads, ThreadsDiffer DEF IInv, OwnRemover
<1> QED
  BY <1>1, <1>5, <1>6, <1>7, <1>8, <1>9, <1>10 DEF IInv

LEMMA NextInv == ASSUME IInv, [Next]_vars PROVE IInv'
<1>1. ASSUME NEW c \in Chats, NEW u \in Users, Join(c, u) \/ Hangup(c, u) PROVE IInv'
  BY <1>1, SignalInv DEF Join, Hangup
<1>2. ASSUME NEW t \in Threads, Continue(t) PROVE IInv'
  BY <1>2, CloseInv, SpreadInv, SnapshotInv, ApplyInv DEF Continue
<1> QED
  BY <1>1, <1>2, StutterInv, AnswerInv, IceInv, ShutdownInv, RefuseInv, RegisterInv, AdmitInv,
     ShutdownCloseInv, RegisterTrackInv, UnregisterTrackInv, FailInv, RemovePeerInv
     DEF Next, Signals

THEOREM Invariance == Spec => []IInv
<1> QED
  BY InitInv, NextInv, PTL DEF Spec

\* Every variable keeps its type, and a goroutine at work has a direction.
THEOREM TypeCorrect == Spec => []TypeOK
  BY Invariance, PTL DEF IInv

\* Whatever goroutines overlap, whoever is registered belongs there and is
\* alive, or has failed and is about to be removed.
THEOREM OnlyTheLiveRegistered == Spec => []RegisteredIsLive
  BY Invariance, PTL DEF IInv

\* No interleaving of joins, failures, removals and shutdown leaves behind a
\* connection that is neither registered nor about to be closed.
THEOREM NothingLeaks == Spec => []NoLeakedConnection
  BY Invariance, PTL DEF IInv

\* A forwarded track has a relay that will withdraw it, and a room.
THEOREM TracksAreRelayed == Spec => []TrackHasRelay
  BY Invariance, PTL DEF IInv

-----------------------------------------------------------------------------
(* The size of a room.                                                     *)

\* What join found when it tested the room still holds when it enters.
SizeInv ==
  /\ \A c \in Chats : IsFiniteSet(Registered(c)) /\ Cardinality(Registered(c)) <= MaxPeers
  /\ thr[Loop].at = "register" => Cardinality(Registered(thr[Loop].chat)) < MaxPeers

\* Only Register puts anybody into a room.
Shrinks == \A c \in Chats, u \in Users : peers'[c][u] \in {None, peers[c][u]}

LEMMA OnlyRegisterAdds ==
  ASSUME IInv, [Next]_vars, ~Register
  PROVE  Shrinks
<1>1. ASSUME NEW c \in Chats, NEW u \in Users, Deregister(c, u) PROVE Shrinks
  BY <1>1 DEF Deregister, Shrinks, IInv, TypeOK
<1>2. ASSUME NEW c \in Chats, NEW u \in Users, Join(c, u) \/ Hangup(c, u) PROVE Shrinks
  BY <1>1, <1>2 DEF Join, Hangup, Signal, Shrinks, rooms
<1>3. ASSUME NEW p \in PCs, RemovePeer(p) PROVE Shrinks
  <2> PICK c \in Chats, u \in Users : c = home[p].chat /\ u = home[p].user
    BY <1>3 DEF IInv, Homed, RemovePeer
  <2>1. Deregister(c, u) \/ UNCHANGED rooms
    BY <1>3 DEF RemovePeer
  <2> QED
    BY <1>1, <2>1 DEF Shrinks, rooms
<1>4. ASSUME NEW t \in Threads, Continue(t) PROVE Shrinks
  BY <1>4 DEF Continue, Close, Spread, Snapshot, Apply, Shrinks, rooms
<1>5. CASE Shutdown
  BY <1>5 DEF Shutdown, Shrinks
<1>6. ASSUME UNCHANGED peers PROVE Shrinks
  BY <1>6 DEF Shrinks
<1>7. ASSUME NEW c \in Chats, NEW u \in Users, Answer(c, u) \/ Ice(c, u) PROVE Shrinks
  BY <1>6, <1>7 DEF Answer, Ice, rooms
<1>8. ASSUME NEW p \in PCs,
             Admit(p) \/ ShutdownClose(p) \/ RegisterTrack(p) \/ UnregisterTrack(p) \/ Fail(p)
      PROVE  Shrinks
  BY <1>6, <1>8 DEF Admit, ShutdownClose, RegisterTrack, UnregisterTrack, Fail, rooms
<1>9. CASE Refuse \/ UNCHANGED vars
  BY <1>6, <1>9 DEF Refuse, vars, rooms
<1> QED
  BY <1>2, <1>3, <1>4, <1>5, <1>7, <1>8, <1>9 DEF Next, Signals

LEMMA SizeShrinks ==
  ASSUME SizeInv, Shrinks, NEW c \in Chats
  PROVE  /\ IsFiniteSet(Registered(c)')
         /\ Cardinality(Registered(c)') <= Cardinality(Registered(c))
         /\ Cardinality(Registered(c)) \in Nat /\ Cardinality(Registered(c)') \in Nat
<1>1. IsFiniteSet(Registered(c))
  BY DEF SizeInv
<1>2. Registered(c)' \subseteq Registered(c)
  BY DEF Shrinks, Registered
<1> QED
  BY <1>1, <1>2, FS_Subset, FS_CardinalityType

LEMMA VisitAt ==
  ASSUME NEW r \in ThreadState, NEW todo PROVE Visit(r, todo).at # "register"
<1>1. CASE todo # {}
  BY <1>1 DEF Visit, ThreadState
<1>2. CASE todo = {}
  <2>1. r.next \in Targets /\ Visit(r, todo) = Proceed(r)
    BY <1>2 DEF Visit, ThreadState
  <2> QED
    BY <2>1 DEF Proceed, Resting, Ended, Targets
<1> QED
  BY <1>1, <1>2

\* The loop comes to register only by testing the room.
LEMMA LoopAtRegister ==
  ASSUME IInv, [Next]_vars, ~Register, thr'[Loop].at = "register"
  PROVE  /\ thr'[Loop].chat = thr[Loop].chat
         /\ \/ thr[Loop].at = "register"
            \/ Cardinality(Registered(thr[Loop].chat)) < MaxPeers
<1> DEFINE Goal == /\ thr'[Loop].chat = thr[Loop].chat
                   /\ \/ thr[Loop].at = "register"
                      \/ Cardinality(Registered(thr[Loop].chat)) < MaxPeers
<1>1. thr[Loop] \in ThreadState /\ thr \in [Threads -> ThreadState]
  BY LoopThread DEF IInv, TypeOK
<1>2. CASE thr'[Loop] = thr[Loop]
  BY <1>2
<1>3. ASSUME NEW c \in Chats, NEW u \in Users, Join(c, u) \/ Hangup(c, u) PROVE Goal
  BY <1>1, <1>3, LoopThread DEF Join, Hangup, Signal, Closing, Resting
<1>4. ASSUME NEW c \in Chats, NEW u \in Users, Answer(c, u) \/ Ice(c, u) PROVE Goal
  <2> DEFINE r == [Resting EXCEPT !.at = "each", !.chat = c, !.user = u, !.todo = {peers[c][u]}]
  <2>1. thr' = thr \/ thr' = [thr EXCEPT ![Loop] = r]
    BY <1>4 DEF Answer, Ice
  <2>2. r.at = "each"
    BY DEF Resting
  <2> HIDE DEF r
  <2> QED
    BY <1>1, <1>2, <2>1, <2>2, LoopThread
<1>5. CASE Shutdown \/ Refuse
  <2> DEFINE all == UNION {Registered(c) : c \in Chats}
             r == [Resting EXCEPT !.at = "shut", !.todo = all]
  <2>1. thr' = [thr EXCEPT ![Loop] = r] \/ thr' = [thr EXCEPT ![Loop] = Resting]
    BY <1>5 DEF Shutdown, Refuse
  <2> HIDE DEF all
  <2>2. r.at = "shut" /\ Resting.at = "idle"
    BY DEF Resting
  <2> HIDE DEF r
  <2> QED
    BY <1>1, <2>1, <2>2, LoopThread
<1>6. ASSUME NEW p \in PCs, Admit(p) PROVE Goal
  BY <1>1, <1>6, LoopThread DEF Admit, ThreadState
<1>7. ASSUME NEW p \in PCs, ShutdownClose(p) PROVE Goal
  BY <1>1, <1>7, LoopThread DEF ShutdownClose, ThreadState
<1>8. ASSUME NEW p \in PCs,
             RegisterTrack(p) \/ UnregisterTrack(p) \/ Fail(p) \/ RemovePeer(p)
      PROVE  Goal
  BY <1>1, <1>2, <1>8, LoopThread, ThreadsDiffer
     DEF RegisterTrack, UnregisterTrack, Fail, RemovePeer
<1>9. ASSUME NEW t \in Threads, Continue(t) PROVE Goal
  <2>1. CASE Close(t) \/ Spread(t)
    <3>1. thr' = [thr EXCEPT ![t] = Visit(thr[t], Registered(thr[t].chat))]
      BY <2>1 DEF Close, Spread
    <3>2. CASE t = Loop
      BY <3>1, <3>2, <1>1, VisitAt
    <3>3. CASE t # Loop
      BY <3>1, <3>3, <1>1, <1>2, LoopThread
    <3> QED
      BY <3>2, <3>3
  <2>2. CASE Snapshot(t)
    <3>1. CASE t = Loop
      BY <2>2, <3>1, <1>1 DEF Snapshot, ThreadState
    <3>2. CASE t # Loop
      BY <2>2, <3>2, <1>1, <1>2, LoopThread DEF Snapshot
    <3> QED
      BY <3>1, <3>2
  <2>3. CASE Apply(t)
    <3> DEFINE calm == [thr[t] EXCEPT !.cur = None, !.snap = {}, !.late = FALSE]
               r == Visit(calm, thr[t].todo)
               moved == [thr EXCEPT ![t] = r]
    <3>1. moved = [thr EXCEPT ![t] = Visit([@ EXCEPT !.cur = None, !.snap = {}, !.late = FALSE],
                                           @.todo)]
      BY <1>1
    <3>2. \/ thr' = moved
          \/ thr' = [s \in Threads |->
                       IF s # t /\ thr[s].at = "apply" /\ thr[s].cur = thr[t].cur
                       THEN [thr[s] EXCEPT !.late = TRUE]
                       ELSE moved[s]]
      BY <2>3, <3>1 DEF Apply
    <3>3. calm \in ThreadState
      BY <1>1 DEF ThreadState
    <3>4. r.at # "register"
      BY <3>3, VisitAt
    <3> HIDE DEF r
    <3>5. CASE t = Loop
      BY <3>2, <3>4, <3>5, <1>1
    <3>6. CASE t # Loop
      <4>1. thr'[Loop] = thr[Loop]
            \/ (thr[Loop].at = "apply" /\ thr'[Loop] = [thr[Loop] EXCEPT !.late = TRUE])
        BY <3>2, <3>6, <1>1, LoopThread
      <4>2. [thr[Loop] EXCEPT !.late = TRUE].at = thr[Loop].at
        BY <1>1 DEF ThreadState
      <4> QED
        BY <4>1, <4>2, <1>2
    <3> QED
      BY <3>5, <3>6
  <2> QED
    BY <1>9, <2>1, <2>2, <2>3 DEF Continue
<1>10. CASE UNCHANGED vars
  BY <1>2, <1>10 DEF vars
<1> QED
  BY <1>3, <1>4, <1>5, <1>6, <1>7, <1>8, <1>9, <1>10 DEF Next, Signals

LEMMA SizeInit == Init => SizeInv
<1> SUFFICES ASSUME Init PROVE SizeInv
  OBVIOUS
<1>1. \A c \in Chats : Registered(c) = {}
  BY DEF Init, Registered
<1>2. thr[Loop] = Resting
  BY LoopThread DEF Init
<1> QED
  BY <1>1, <1>2, FS_EmptySet, MaxPeersType DEF SizeInv, Resting

LEMMA SizeNext == ASSUME IInv, IInv', SizeInv, [Next]_vars PROVE SizeInv'
<1>1. CASE Register
  <2> PICK c \in Chats, u \in Users, p \in PCs :
             c = thr[Loop].chat /\ u = thr[Loop].user /\ p = thr[Loop].pc
    BY <1>1, LoopThread DEF IInv, TypeOK, Directed, Register
  <2>1. thr[Loop].at = "register" /\ thr'[Loop].at = "each"
    BY <1>1, LoopThread DEF Register, IInv, TypeOK, ThreadState
  <2>2. peers' = [peers EXCEPT ![c][u] = p]
    BY <1>1 DEF Register
  <2>3. Registered(c)' \subseteq Registered(c) \union {p}
    BY <2>2 DEF Registered, IInv, TypeOK
  <2>4. \A d \in Chats : d # c => Registered(d)' = Registered(d)
    BY <2>2 DEF Registered, IInv, TypeOK
  <2>5. IsFiniteSet(Registered(c)) /\ Cardinality(Registered(c)) < MaxPeers
        /\ Cardinality(Registered(c)) \in Nat
    BY <2>1, FS_CardinalityType DEF SizeInv
  <2>6. IsFiniteSet(Registered(c) \union {p})
        /\ Cardinality(Registered(c) \union {p}) <= Cardinality(Registered(c)) + 1
        /\ Cardinality(Registered(c) \union {p}) \in Nat
    <3> PICK S : S = Registered(c)
      OBVIOUS
    <3>1. /\ IsFiniteSet(S \union {p})
          /\ Cardinality(S \union {p}) = IF p \in S THEN Cardinality(S) ELSE Cardinality(S) + 1
      BY <2>5, FS_AddElement
    <3>2. Cardinality(S) \in Nat /\ Cardinality(S \union {p}) \in Nat
      BY <2>5, <3>1, FS_CardinalityType
    <3> QED
      BY <3>1, <3>2
  <2>7. IsFiniteSet(Registered(c)') /\ Cardinality(Registered(c)') \in Nat
        /\ Cardinality(Registered(c)') <= Cardinality(Registered(c) \union {p})
    BY <2>3, <2>6, FS_Subset, FS_CardinalityType
  <2>8. Cardinality(Registered(c)') <= MaxPeers
    BY <2>5, <2>6, <2>7, MaxPeersType
  <2> QED
    BY <2>1, <2>4, <2>7, <2>8 DEF SizeInv
<1>2. CASE ~Register
  <2>1. Shrinks
    BY <1>2, OnlyRegisterAdds
  <2>2. \A c \in Chats : IsFiniteSet(Registered(c)') /\ Cardinality(Registered(c)') <= MaxPeers
    BY <2>1, SizeShrinks, MaxPeersType DEF SizeInv
  <2>3. ASSUME thr'[Loop].at = "register"
        PROVE  Cardinality(Registered(thr[Loop].chat)') < MaxPeers
               /\ thr'[Loop].chat = thr[Loop].chat
    <3>1. /\ thr'[Loop].chat = thr[Loop].chat
          /\ Cardinality(Registered(thr[Loop].chat)) < MaxPeers
      BY <1>2, <2>3, LoopAtRegister DEF SizeInv
    <3>2. thr'[Loop].chat \in Chats
      BY <2>3, LoopThread DEF IInv, TypeOK, Directed
    <3> QED
      BY <3>1, <3>2, <2>1, SizeShrinks, MaxPeersType
  <2> QED
    BY <2>2, <2>3 DEF SizeInv
<1> QED
  BY <1>1, <1>2

\* join tests the size of the room in one critical section and enters it in
\* another: no room outgrows maxPeersPerRoom all the same.
THEOREM RoomsAreBounded == Spec => []RoomCapacity
<1>1. SizeInv => RoomCapacity
  BY DEF SizeInv, RoomCapacity
<1> QED
  BY <1>1, Invariance, InitInv, NextInv, SizeInit, SizeNext, PTL DEF Spec

-----------------------------------------------------------------------------
(* Being heard.                                                            *)

Started(p) == "reading" \in {thr[Relay(p)].at, thr[Relay(p)].next}

\* A relay that has registered its track belongs to a connection that was
\* answered, and its track is forwarded, or another one took the entry, or the
\* connection has left the room.
Heard ==
  \A p \in PCs : Started(p) =>
    /\ p \in answered
    /\ \/ tracks[home[p].chat][home[p].user] = p
       \/ p \in usurped
       \/ peers[home[p].chat][home[p].user] # p

\* No relay starts, and those that have started lose nothing.
LEMMA HeardQuiet ==
  ASSUME IInv, Heard, answered \subseteq answered', UNCHANGED <<home, tracks, usurped>>,
         \A p \in PCs : Started(p) => peers'[home[p].chat][home[p].user] # p
                          \/ peers'[home[p].chat][home[p].user] = peers[home[p].chat][home[p].user],
         \A p \in PCs : Started(p)' => Started(p)
  PROVE  Heard'
  BY DEF Heard

\* The goroutine t goes on: it starts no relay.
LEMMA HeardVisit ==
  ASSUME NEW r \in ThreadState, NEW q \in ThreadState, q.next = r.next, NEW todo,
         "reading" \in {Visit(q, todo).at, Visit(q, todo).next}
  PROVE  r.next = "reading"
<1>1. q.next \in Targets
  BY DEF ThreadState
<1>2. CASE todo # {}
  <2>1. Visit(q, todo) = [q EXCEPT !.at = "each", !.todo = todo]
    BY <1>2 DEF Visit
  <2>2. Visit(q, todo).at = "each" /\ Visit(q, todo).next = q.next
    BY <2>1 DEF ThreadState
  <2> QED
    BY <2>2
<1>3. CASE todo = {} /\ q.next \in {"idle", "done"}
  <2>1. Visit(q, todo) \in {Resting, Ended}
    BY <1>3 DEF Visit, Proceed
  <2>2. /\ Resting.at = "idle" /\ Resting.next = "idle"
        /\ Ended.at = "done" /\ Ended.next = "done"
    BY DEF Resting, Ended
  <2> QED
    BY <2>1, <2>2
<1>4. CASE todo = {} /\ q.next \in {"admit", "reading"}
  <2>1. Visit(q, todo) = [Resting EXCEPT !.at = q.next, !.chat = q.chat, !.user = q.user, !.pc = q.pc]
    BY <1>4 DEF Visit, Proceed
  <2> QED
    BY <2>1, <1>4 DEF Resting
<1> QED
  BY <1>1, <1>2, <1>3, <1>4 DEF Targets

LEMMA HeardContinue ==
  ASSUME IInv, NEW t \in Threads, Continue(t)
  PROVE  \A p \in PCs : Started(p)' => Started(p)
<1> SUFFICES ASSUME NEW p \in PCs, Started(p)' PROVE Started(p)
  OBVIOUS
<1> PICK s \in Threads : s = Relay(p)
  BY PCThreads
<1>1. thr \in [Threads -> ThreadState] /\ thr[t] \in ThreadState /\ thr[s] \in ThreadState
  BY DEF IInv, TypeOK
<1>2. "reading" \in {thr'[s].at, thr'[s].next}
  BY DEF Started
<1>3. CASE s # t
  <2>1. thr'[s] = thr[s] \/ thr'[s] = [thr[s] EXCEPT !.late = TRUE]
    BY <1>1, <1>3 DEF Continue, Close, Spread, Snapshot, Apply
  <2> QED
    BY <2>1, <1>1, <1>2 DEF Started, ThreadState
<1>4. CASE s = t
  <2>1. CASE Close(t) \/ Spread(t)
    <3>1. thr'[t] = Visit(thr[t], Registered(thr[t].chat))
      BY <2>1, <1>1 DEF Close, Spread
    <3> PICK todo : todo = Registered(thr[t].chat)
      OBVIOUS
    <3>2. "reading" \in {Visit(thr[t], todo).at, Visit(thr[t], todo).next}
      BY <3>1, <1>2, <1>4
    <3>3. thr[t].next = "reading"
      BY <3>2, <1>1, HeardVisit
    <3> QED
      BY <3>3, <1>4 DEF Started
  <2>2. CASE Snapshot(t)
    BY <2>2, <1>1, <1>2, <1>4 DEF Snapshot, Started, ThreadState
  <2>3. CASE Apply(t)
    <3> DEFINE calm == [thr[t] EXCEPT !.cur = None, !.snap = {}, !.late = FALSE]
    <3>1. thr'[t] = Visit(calm, thr[t].todo)
      BY <2>3, <1>1 DEF Apply
    <3>2. calm \in ThreadState /\ calm.next = thr[t].next
      BY <1>1 DEF ThreadState
    <3> PICK todo : todo = thr[t].todo
      OBVIOUS
    <3> HIDE DEF calm
    <3>3. "reading" \in {Visit(calm, todo).at, Visit(calm, todo).next}
      BY <3>1, <1>2, <1>4
    <3>4. thr[t].next = "reading"
      BY <3>2, <3>3, <1>1, HeardVisit
    <3> QED
      BY <3>4, <1>4 DEF Started
  <2> QED
    BY <2>1, <2>2, <2>3 DEF Continue
<1> QED
  BY <1>3, <1>4

\* A user that leaves as the last one clears the tracks of a room in which no
\* other connection is registered.
LEMMA HeardDeregister ==
  ASSUME IInv, Heard, NEW c \in Chats, NEW u \in Users, Deregister(c, u), peers[c][u] # None,
         UNCHANGED <<home, answered, usurped>>,
         \A p \in PCs : Started(p)' => Started(p)
  PROVE  Heard'
<1> SUFFICES ASSUME NEW p \in PCs, Started(p)
             PROVE  /\ p \in answered
                    /\ \/ tracks'[home[p].chat][home[p].user] = p
                       \/ p \in usurped
                       \/ peers'[home[p].chat][home[p].user] # p
  BY DEF Heard
<1>1. p \in answered /\ home[p].chat \in Chats /\ home[p].user \in Users /\ p # None
  BY NoneFresh DEF Heard, IInv, Homed
<1>2. CASE peers[home[p].chat][home[p].user] # p
  BY <1>1, <1>2 DEF Deregister, IInv, TypeOK
<1>3. CASE peers[home[p].chat][home[p].user] = p
  <2>1. CASE peers'[home[p].chat][home[p].user] = p
    <3>1. tracks'[home[p].chat][home[p].user] = tracks[home[p].chat][home[p].user]
      <4>1. CASE home[p].chat # c
        BY <4>1, <1>1 DEF Deregister, IInv, TypeOK
      <4>2. CASE home[p].chat = c
        <5>1. p # peers[c][u]
          <6>1. home[p].user # u
            BY <2>1, <4>2, <1>1 DEF Deregister, IInv, TypeOK
          <6>2. ASSUME p = peers[c][u] PROVE FALSE
            <7>1. home[p] = [chat |-> c, user |-> u]
              BY <6>2, <1>1 DEF IInv, RegisteredIsLive
            <7> QED
              BY <7>1, <6>1
          <6> QED
            BY <6>2
        <5>2. p \in Registered(c)
          BY <1>1, <1>3, <4>2 DEF Registered
        <5> QED
          BY <5>1, <5>2 DEF Deregister
      <4> QED
        BY <4>1, <4>2
    <3> QED
      BY <3>1, <1>1, <1>3 DEF Heard
  <2>2. CASE peers'[home[p].chat][home[p].user] # p
    BY <2>2, <1>1
  <2> QED
    BY <2>1, <2>2
<1> QED
  BY <1>2, <1>3

LEMMA HeardNext == ASSUME IInv, Heard, [Next]_vars PROVE Heard'
<1>0. thr \in [Threads -> ThreadState]
  BY DEF IInv, TypeOK
<1>1. ASSUME NEW c \in Chats, NEW u \in Users, NEW next \in {"idle", "admit"}, Signal(c, u, next)
      PROVE  Heard'
  <2>1. \A p \in PCs : Started(p)' => Started(p)
    BY <1>0, <1>1, PCThreads, ThreadsDiffer DEF Signal, Started
  <2>2. UNCHANGED <<home, answered, usurped>>
    BY <1>1 DEF Signal, conns, history
  <2>3. CASE peers[c][u] = None
    BY <1>1, <2>1, <2>2, <2>3, HeardQuiet DEF Signal, rooms
  <2>4. CASE peers[c][u] # None
    BY <1>1, <2>1, <2>2, <2>4, HeardDeregister DEF Signal
  <2> QED
    BY <2>3, <2>4
<1>2. ASSUME NEW c \in Chats, NEW u \in Users, Join(c, u) \/ Hangup(c, u) PROVE Heard'
  BY <1>1, <1>2 DEF Join, Hangup
<1>3. ASSUME NEW t \in Threads, Continue(t) PROVE Heard'
  <2>1. UNCHANGED <<peers, tracks, home, answered, usurped>>
    BY <1>3 DEF Continue, Close, Spread, Snapshot, Apply, rooms, conns, history
  <2> QED
    BY <1>3, <2>1, HeardContinue, HeardQuiet
<1>4. ASSUME NEW p \in PCs, RemovePeer(p) PROVE Heard'
  <2> PICK c \in Chats, u \in Users : c = home[p].chat /\ u = home[p].user
    BY <1>4 DEF IInv, Homed, RemovePeer
  <2>1. \A q \in PCs : Started(q)' => Started(q)
    BY <1>0, <1>4, PCThreads, ThreadsDiffer DEF RemovePeer, Started
  <2>2. UNCHANGED <<home, answered, usurped>>
    BY <1>4 DEF RemovePeer
  <2>3. CASE peers[c][u] = p
    BY <1>4, <2>1, <2>2, <2>3, NoneFresh, HeardDeregister DEF RemovePeer
  <2>4. CASE peers[c][u] # p
    BY <1>4, <2>1, <2>2, <2>4, HeardQuiet DEF RemovePeer, rooms
  <2> QED
    BY <2>3, <2>4
<1>5. CASE Shutdown
  <2>1. \A p \in PCs : Started(p)' => Started(p)
    BY <1>0, <1>5, PCThreads, ThreadsDiffer DEF Shutdown, Started
  <2>2. UNCHANGED <<home, answered, usurped>>
    BY <1>5 DEF Shutdown, conns, history
  <2> SUFFICES ASSUME NEW p \in PCs, Started(p)
               PROVE  p \in answered /\ peers'[home[p].chat][home[p].user] # p
    BY <2>1, <2>2 DEF Heard
  <2>3. p \in answered /\ home[p].chat \in Chats /\ home[p].user \in Users /\ p # None
    BY NoneFresh DEF Heard, IInv, Homed
  <2> QED
    BY <2>3, <1>5 DEF Shutdown
<1>6. CASE Register
  <2> PICK c \in Chats, u \in Users, p \in PCs :
             c = thr[Loop].chat /\ u = thr[Loop].user /\ p = thr[Loop].pc
    BY <1>6, LoopThread DEF IInv, TypeOK, Directed, Register
  <2>1. p \notin answered /\ peers' = [peers EXCEPT ![c][u] = p]
        /\ UNCHANGED <<tracks, home, answered, usurped>>
    BY <1>6 DEF Register, IInv, JustMade, conns, history
  <2>2. \A q \in PCs : Started(q)' => Started(q)
    BY <1>0, <1>6, PCThreads, ThreadsDiffer DEF Register, Started
  <2>3. ASSUME NEW q \in PCs, Started(q)
        PROVE  \/ peers'[home[q].chat][home[q].user] # q
               \/ peers'[home[q].chat][home[q].user] = peers[home[q].chat][home[q].user]
    <3>1. q \in answered /\ q # p /\ home[q].chat \in Chats /\ home[q].user \in Users
      BY <2>1, <2>3 DEF Heard, IInv, Homed
    <3> QED
      BY <2>1, <3>1 DEF IInv, TypeOK
  <2> QED
    BY <2>1, <2>2, <2>3, HeardQuiet
<1>7. ASSUME NEW p \in PCs, Admit(p) PROVE Heard'
  <2>1. \A q \in PCs : Started(q)' => Started(q)
    BY <1>0, <1>7, PCThreads, ThreadsDiffer DEF Admit, Started
  <2>2. \A q \in PCs : q \in answered => home'[q] = home[q]
    BY <1>7 DEF Admit, IInv, Homed, TypeOK
  <2>3. UNCHANGED <<peers, tracks, answered, usurped>>
    BY <1>7 DEF Admit, rooms, history
  <2> QED
    BY <2>1, <2>2, <2>3 DEF Heard
<1>8. ASSUME NEW p \in PCs, RegisterTrack(p) PROVE Heard'
  <2> PICK c \in Chats, u \in Users : c = home[p].chat /\ u = home[p].user
    BY <1>8 DEF IInv, Homed, RegisterTrack
  <2>1. \A q \in PCs : q # p /\ Started(q)' => Started(q)
    BY <1>0, <1>8, PCThreads, ThreadsDiffer DEF RegisterTrack, Started
  <2>2. CASE Registered(c) = {}
    <3>1. ~Started(p)'
      BY <1>0, <1>8, <2>2, PCThreads DEF RegisterTrack, Started, Ended, Resting
    <3> QED
      BY <1>8, <2>1, <2>2, <3>1, HeardQuiet DEF RegisterTrack, conns
  <2>3. CASE Registered(c) # {}
    <3>1. tracks' = [tracks EXCEPT ![c][u] = p]
          /\ usurped' = usurped \union ({tracks[c][u]} \ {None})
          /\ UNCHANGED <<peers, home, answered>> /\ p \in answered
      BY <1>8, <2>3 DEF RegisterTrack, conns
    <3>2. tracks \in [Chats -> [Users -> PCs \union {None}]]
      BY DEF IInv, TypeOK
    <3> SUFFICES ASSUME NEW q \in PCs, Started(q)'
                 PROVE  /\ q \in answered
                        /\ \/ tracks'[home[q].chat][home[q].user] = q
                           \/ q \in usurped'
                           \/ peers[home[q].chat][home[q].user] # q
      BY <3>1 DEF Heard
    <3>3. CASE q = p
      BY <3>1, <3>2, <3>3
    <3>4. CASE q # p
      <4>1. q \in answered /\ q # None /\ home[q].chat \in Chats /\ home[q].user \in Users
            /\ \/ tracks[home[q].chat][home[q].user] = q
               \/ q \in usurped
               \/ peers[home[q].chat][home[q].user] # q
        BY <2>1, <3>4, NoneFresh DEF Heard, IInv, Homed
      <4>2. CASE tracks[home[q].chat][home[q].user] = q
        <5>1. CASE home[q].chat = c /\ home[q].user = u
          BY <5>1, <4>1, <4>2, <3>1
        <5>2. CASE ~(home[q].chat = c /\ home[q].user = u)
          BY <5>2, <4>1, <4>2, <3>1, <3>2
        <5> QED
          BY <5>1, <5>2
      <4> QED
        BY <4>1, <4>2, <3>1
    <3> QED
      BY <3>3, <3>4
  <2> QED
    BY <2>2, <2>3
<1>9. ASSUME NEW p \in PCs, UnregisterTrack(p) PROVE Heard'
  <2>0. thr[Relay(p)].at = "reading" /\ Relay(p) \in Threads
    BY <1>9, PCThreads DEF UnregisterTrack
  <2> PICK c \in Chats, u \in Users : c = home[p].chat /\ u = home[p].user
    BY <2>0 DEF IInv, Homed, Heard, Started
  <2>1. \A q \in PCs : Started(q)' => Started(q) /\ q # p
    <3>1. ~Started(p)'
      BY <1>0, <1>9, <2>0 DEF UnregisterTrack, Started, ThreadState
    <3>2. \A q \in PCs : q # p => (Started(q)' => Started(q))
      BY <1>0, <1>9, PCThreads, ThreadsDiffer DEF UnregisterTrack, Started
    <3> QED
      BY <3>1, <3>2
  <2>2. /\ tracks' = tracks \/ (tracks[c][u] = p /\ tracks' = [tracks EXCEPT ![c][u] = None])
        /\ UNCHANGED <<peers, home, answered, usurped>>
    BY <1>9 DEF UnregisterTrack, conns, history
  <2> SUFFICES ASSUME NEW q \in PCs, Started(q), q # p
               PROVE  /\ q \in answered
                      /\ \/ tracks'[home[q].chat][home[q].user] = q
                         \/ q \in usurped
                         \/ peers[home[q].chat][home[q].user] # q
    BY <2>1, <2>2 DEF Heard
  <2>3. q \in answered /\ home[q].chat \in Chats /\ home[q].user \in Users
        /\ \/ tracks[home[q].chat][home[q].user] = q
           \/ q \in usurped
           \/ peers[home[q].chat][home[q].user] # q
    BY DEF Heard, IInv, Homed
  <2>4. CASE tracks[home[q].chat][home[q].user] = q
    <3>1. tracks[c][u] = p => ~(home[q].chat = c /\ home[q].user = u)
      BY <2>4
    <3>2. tracks \in [Chats -> [Users -> PCs \union {None}]]
      BY DEF IInv, TypeOK
    <3>3. tracks'[home[q].chat][home[q].user] = tracks[home[q].chat][home[q].user]
      BY <3>1, <3>2, <2>2, <2>3
    <3> QED
      BY <3>3, <2>3, <2>4
  <2> QED
    BY <2>2, <2>3, <2>4
<1>10. ASSUME NEW c \in Chats, NEW u \in Users, Answer(c, u) \/ Ice(c, u) PROVE Heard'
  <2>1. \A p \in PCs : Started(p)' => Started(p)
    BY <1>0, <1>10, PCThreads, ThreadsDiffer DEF Answer, Ice, Started
  <2> QED
    BY <2>1, <1>10, HeardQuiet DEF Answer, Ice, rooms, history
<1>11. CASE Refuse
  <2>1. \A p \in PCs : Started(p)' => Started(p)
    BY <1>0, <1>11, PCThreads, ThreadsDiffer DEF Refuse, Started
  <2> QED
    BY <2>1, <1>11, HeardQuiet DEF Refuse, rooms, conns, history
<1>12. ASSUME NEW p \in PCs, ShutdownClose(p) \/ Fail(p) PROVE Heard'
  <2>1. \A q \in PCs : Started(q)' => Started(q)
    BY <1>0, <1>12, PCThreads, ThreadsDiffer DEF ShutdownClose, Fail, Started
  <2> QED
    BY <2>1, <1>12, HeardQuiet DEF ShutdownClose, Fail, rooms, conns, history
<1>13. CASE UNCHANGED vars
  BY <1>13 DEF vars, rooms, conns, history, Heard, Started
<1> QED
  BY <1>2, <1>3, <1>4, <1>5, <1>6, <1>7, <1>8, <1>9, <1>10, <1>11, <1>12, <1>13
     DEF Next, Signals

LEMMA HeardInit == Init => Heard
<1> SUFFICES ASSUME Init PROVE Heard
  OBVIOUS
<1>1. \A p \in PCs : thr[Relay(p)] = Resting
  BY PCThreads DEF Init
<1> QED
  BY <1>1 DEF Heard, Started, Resting

\* A user in the room whose relay is reading is heard by the others, whatever
\* goroutines overlap, unless a relay of an earlier connection came late.
THEOREM ReadersAreHeard == Spec => []HeardUnlessUsurped
<1>1. Heard => HeardUnlessUsurped
  BY DEF Heard, Started, HeardUnlessUsurped
<1> QED
  BY <1>1, Invariance, InitInv, NextInv, HeardInit, HeardNext, PTL DEF Spec

-----------------------------------------------------------------------------
(* Renegotiation.                                                          *)

Blank(r) ==
  /\ r.at \notin {"each", "apply", "shut"} => r.todo = {}
  /\ r.at # "apply" => r.cur = None

\* The record r still has p to negotiate.
Keeps(r, p) == p \in r.todo \/ p = r.cur

\* A peer whose senders no offer describes is marked; a marked peer waits for
\* an answer, or the loop has it in hand, which holds nothing between signals.
MarkInv ==
  /\ Blank(thr[Loop])
  /\ \A p \in PCs : senders[p] # offered[p] => p \in needsOffer
  /\ \A p \in needsOffer : p \in offering \/ Keeps(thr[Loop], p) \/ state[p] = "closed"

LEMMA MarkQuiet ==
  ASSUME TypeOK, MarkInv, UNCHANGED <<senders, offered, needsOffer, offering>>, Blank(thr'[Loop]),
         \A p \in PCs : state[p] = "closed" => state'[p] = "closed",
         \A p \in PCs : Keeps(thr[Loop], p) => Keeps(thr'[Loop], p)
  PROVE  MarkInv'
  BY DEF MarkInv, TypeOK

LEMMA MarkClosed ==
  ASSUME TypeOK, MarkInv, NEW p \in PCs, NEW pending, ClosePC(p, pending), Blank(thr'[Loop]),
         \A q \in PCs : q # p /\ Keeps(thr[Loop], q) => Keeps(thr'[Loop], q)
  PROVE  MarkInv'
  BY DEF MarkInv, ClosePC, TypeOK

LEMMA VisitBlank ==
  ASSUME NEW r \in ThreadState, r.cur = None, NEW todo
  PROVE  /\ Blank(Visit(r, todo))
         /\ \A q \in todo : Keeps(Visit(r, todo), q)
<1>1. r.next \in Targets
  BY DEF ThreadState
<1>2. CASE todo # {}
  <2>1. Visit(r, todo) = [r EXCEPT !.at = "each", !.todo = todo]
    BY <1>2 DEF Visit
  <2>2. Visit(r, todo).at = "each" /\ Visit(r, todo).todo = todo /\ Visit(r, todo).cur = None
    BY <2>1 DEF ThreadState
  <2> QED
    BY <2>2 DEF Blank, Keeps
<1>3. CASE todo = {} /\ r.next \in {"idle", "done"}
  <2>1. Visit(r, todo) \in {Resting, Ended}
    BY <1>3 DEF Visit, Proceed
  <2>2. Resting.todo = {} /\ Resting.cur = None /\ Ended.todo = {} /\ Ended.cur = None
    BY DEF Resting, Ended
  <2> QED
    BY <2>1, <2>2, <1>3 DEF Blank
<1>4. CASE todo = {} /\ r.next \in {"admit", "reading"}
  <2>1. Visit(r, todo) = [Resting EXCEPT !.at = r.next, !.chat = r.chat, !.user = r.user, !.pc = r.pc]
    BY <1>4 DEF Visit, Proceed
  <2>2. Visit(r, todo).todo = {} /\ Visit(r, todo).cur = None
    BY <2>1 DEF Resting
  <2> QED
    BY <2>2, <1>4 DEF Blank
<1> QED
  BY <1>1, <1>2, <1>3, <1>4 DEF Targets

\* Between signals the loop has nothing in hand.
LEMMA IdleBlank ==
  ASSUME MarkInv, thr[Loop].at \notin {"each", "apply", "shut"}
  PROVE  \A p \in PCs : ~Keeps(thr[Loop], p)
  BY NoneFresh DEF MarkInv, Blank, Keeps

LEMMA MarkNext == ASSUME IInv, MarkInv, [Next]_vars PROVE MarkInv'
<1>0. thr \in [Threads -> ThreadState] /\ thr[Loop] \in ThreadState /\ TypeOK
  BY LoopThread DEF IInv, TypeOK
<1>a. Resting.at = "idle" /\ Resting.todo = {} /\ Resting.cur = None
  BY DEF Resting
<1>b. ASSUME thr'[Loop] = thr[Loop]
      PROVE  Blank(thr'[Loop]) /\ \A p \in PCs : Keeps(thr[Loop], p) => Keeps(thr'[Loop], p)
  BY <1>b DEF MarkInv
<1>1. ASSUME NEW c \in Chats, NEW u \in Users, NEW next \in {"idle", "admit"}, Signal(c, u, next)
      PROVE  MarkInv'
  <2>1. thr'[Loop].at \in {"idle", "admit", "close"}
        /\ thr'[Loop].todo = {} /\ thr'[Loop].cur = None
    <3>1. CASE peers[c][u] = None
      <4> DEFINE r == [Resting EXCEPT !.at = next, !.chat = c, !.user = u]
      <4>1. r.at = next /\ r.todo = {} /\ r.cur = None
        BY DEF Resting
      <4>2. thr' = [thr EXCEPT ![Loop] = r]
        BY <1>1, <3>1 DEF Signal
      <4> HIDE DEF r
      <4> QED
        BY <1>0, <4>1, <4>2, LoopThread
    <3>2. CASE peers[c][u] # None
      <4> DEFINE r == Closing(c, u, peers[c][u], next)
      <4>1. r.at = "close" /\ r.todo = {} /\ r.cur = None
        BY DEF Closing, Resting
      <4>2. thr' = [thr EXCEPT ![Loop] = r]
        BY <1>1, <3>2 DEF Signal
      <4> HIDE DEF r
      <4> QED
        BY <1>0, <4>1, <4>2, LoopThread
    <3> QED
      BY <3>1, <3>2
  <2>2. UNCHANGED <<state, senders, offered, needsOffer, offering>> /\ thr[Loop].at = "idle"
    BY <1>1 DEF Signal, conns
  <2> QED
    BY <1>0, <2>1, <2>2, IdleBlank, MarkQuiet DEF Blank
<1>2. ASSUME NEW c \in Chats, NEW u \in Users, Join(c, u) \/ Hangup(c, u) PROVE MarkInv'
  BY <1>1, <1>2 DEF Join, Hangup
<1>3. CASE Refuse
  BY <1>0, <1>a, <1>3, LoopThread, IdleBlank, MarkQuiet DEF Refuse, conns, Blank
<1>4. ASSUME NEW p \in PCs, Admit(p) PROVE MarkInv'
  <2>1. thr'[Loop].at = "register" /\ thr'[Loop].todo = thr[Loop].todo
        /\ thr'[Loop].cur = thr[Loop].cur /\ thr[Loop].at = "admit"
    BY <1>0, <1>4, LoopThread DEF Admit, ThreadState
  <2>2. /\ UNCHANGED <<senders, offered, needsOffer, offering>>
        /\ \A q \in PCs : state[q] = "closed" => state'[q] = "closed"
    BY <1>0, <1>4 DEF Admit, TypeOK
  <2> QED
    BY <1>0, <2>1, <2>2, MarkQuiet DEF Blank, Keeps, MarkInv
<1>5. CASE Register
  <2>1. thr'[Loop].at = "each" /\ thr'[Loop].cur = thr[Loop].cur /\ thr[Loop].at = "register"
    BY <1>0, <1>5, LoopThread DEF Register, ThreadState
  <2>2. UNCHANGED <<state, senders, offered, needsOffer, offering>>
    BY <1>5 DEF Register, conns
  <2> QED
    BY <1>0, <2>1, <2>2, IdleBlank, MarkQuiet DEF Blank, MarkInv
<1>6. ASSUME NEW c \in Chats, NEW u \in Users, Answer(c, u) PROVE MarkInv'
  <2> PICK p \in PCs : p = peers[c][u]
    BY <1>6 DEF Answer, IInv, TypeOK
  <2>1. /\ thr[Loop].at = "idle" /\ offering' = offering \ {p}
        /\ UNCHANGED <<state, senders, offered, needsOffer>>
    BY <1>6 DEF Answer
  <2>2. \A q \in needsOffer : q \in offering \/ state[q] = "closed"
    BY <1>0, <2>1, IdleBlank DEF MarkInv, TypeOK
  <2>3. CASE p \in needsOffer
    <3>1. thr'[Loop].at = "each" /\ thr'[Loop].todo = {p} /\ thr'[Loop].cur = None
      BY <1>0, <1>6, <2>3, LoopThread DEF Answer, Resting
    <3> QED
      BY <2>1, <2>2, <3>1 DEF MarkInv, Blank, Keeps
  <2>4. CASE p \notin needsOffer
    <3>1. thr' = thr
      BY <1>6, <2>4 DEF Answer
    <3> QED
      BY <2>1, <2>2, <2>4, <3>1 DEF MarkInv
  <2> QED
    BY <2>3, <2>4
<1>7. CASE Shutdown
  <2> DEFINE all == UNION {Registered(c) : c \in Chats}
             r == [Resting EXCEPT !.at = "shut", !.todo = all]
  <2>1. thr' = [thr EXCEPT ![Loop] = r]
    BY <1>7 DEF Shutdown
  <2> HIDE DEF all
  <2>2. r.at = "shut" /\ r.cur = None
    BY DEF Resting
  <2> HIDE DEF r
  <2>3. thr'[Loop] = r
    BY <2>1, <1>0, LoopThread
  <2>4. UNCHANGED <<state, senders, offered, needsOffer, offering>> /\ thr[Loop].at = "idle"
    BY <1>7 DEF Shutdown, conns
  <2> QED
    BY <1>0, <2>2, <2>3, <2>4, IdleBlank, MarkQuiet DEF Blank
<1>8. ASSUME NEW p \in PCs, ShutdownClose(p) PROVE MarkInv'
  <2>1. /\ thr'[Loop].at = "shut" /\ thr'[Loop].cur = thr[Loop].cur /\ thr[Loop].at = "shut"
        /\ thr'[Loop].todo = thr[Loop].todo \ {p}
    BY <1>0, <1>8, LoopThread DEF ShutdownClose, ThreadState
  <2>2. Blank(thr'[Loop])
        /\ \A q \in PCs : q # p /\ Keeps(thr[Loop], q) => Keeps(thr'[Loop], q)
    BY <2>1 DEF Blank, Keeps, MarkInv
  <2> QED
    BY <1>8, <2>2, MarkClosed DEF ShutdownClose, IInv
<1>9. ASSUME NEW t \in Threads, Close(t) PROVE MarkInv'
  <2> PICK p \in PCs : p = thr[t].pc
    BY <1>9 DEF Close, IInv, TypeOK, Directed
  <2> PICK todo : todo = Registered(thr[t].chat)
    OBVIOUS
  <2>1. ClosePC(p, events) /\ thr' = [thr EXCEPT ![t] = Visit(thr[t], todo)]
    BY <1>9 DEF Close
  <2>2. CASE t = Loop
    <3>1. thr[Loop].cur = None /\ thr[Loop].at = "close"
      BY <1>9, <2>2 DEF MarkInv, Blank, Close
    <3>2. Blank(thr'[Loop])
      BY <1>0, <2>1, <2>2, <3>1, VisitBlank
    <3> QED
      BY <2>1, <3>1, <3>2, IdleBlank, MarkClosed DEF IInv
  <2>3. CASE t # Loop
    BY <1>0, <1>b, <2>1, <2>3, LoopThread, MarkClosed DEF IInv
  <2> QED
    BY <2>2, <2>3
<1>10. ASSUME NEW t \in Threads, Spread(t) PROVE MarkInv'
  <2> PICK todo : todo = Registered(thr[t].chat)
    OBVIOUS
  <2>1. /\ thr' = [thr EXCEPT ![t] = Visit(thr[t], todo)]
        /\ UNCHANGED <<state, senders, offered, needsOffer, offering>>
    BY <1>10 DEF Spread, conns
  <2>2. CASE t = Loop
    <3>1. thr[Loop].cur = None /\ thr[Loop].at = "spread"
      BY <1>10, <2>2 DEF MarkInv, Blank, Spread
    <3>2. Blank(thr'[Loop])
      BY <1>0, <2>1, <2>2, <3>1, VisitBlank
    <3> QED
      BY <1>0, <2>1, <3>1, <3>2, IdleBlank, MarkQuiet
  <2>3. CASE t # Loop
    BY <1>0, <1>b, <2>1, <2>3, LoopThread, MarkQuiet
  <2> QED
    BY <2>2, <2>3
<1>11. ASSUME NEW t \in Threads, Snapshot(t) PROVE MarkInv'
  <2>1. UNCHANGED <<state, senders, offered, needsOffer, offering>>
    BY <1>11 DEF Snapshot, conns
  <2>2. CASE t = Loop
    <3> PICK q \in thr[t].todo :
          thr' = [thr EXCEPT ![t] = [thr[t] EXCEPT !.at = "apply", !.cur = q, !.todo = @ \ {q},
                                       !.snap = Live(thr[t].chat), !.late = FALSE]]
      BY <1>11 DEF Snapshot
    <3>1. thr'[Loop].at = "apply" /\ thr'[Loop].cur = q /\ thr'[Loop].todo = thr[Loop].todo \ {q}
      BY <1>0, <2>2 DEF ThreadState
    <3>2. thr[Loop].cur = None
      BY <1>11, <2>2 DEF Snapshot, MarkInv, Blank
    <3>3. \A p \in PCs : Keeps(thr[Loop], p) => Keeps(thr'[Loop], p)
      BY <3>1, <3>2, NoneFresh DEF Keeps
    <3> QED
      BY <1>0, <2>1, <3>1, <3>3, MarkQuiet DEF Blank
  <2>3. CASE t # Loop
    BY <1>0, <1>b, <1>11, <2>1, <2>3, LoopThread, MarkQuiet DEF Snapshot
  <2> QED
    BY <2>2, <2>3
<1>12. ASSUME NEW t \in Threads, Apply(t) PROVE MarkInv'
  <2> DEFINE calm == [thr[t] EXCEPT !.cur = None, !.snap = {}, !.late = FALSE]
  <2> PICK q \in PCs : q = thr[t].cur
    BY <1>12 DEF Apply, IInv, TypeOK, Directed
  <2> PICK want \in SUBSET PCs : want = Wanted(q, thr[t].snap)
    BY <1>0 DEF Wanted, ThreadState
  <2> PICK todo : todo = thr[t].todo
    OBVIOUS
  <2>1. calm \in ThreadState /\ calm.cur = None
    BY <1>0 DEF ThreadState
  <2>2. Blank(Visit(calm, todo)) /\ \A p \in todo : Keeps(Visit(calm, todo), p)
    BY <2>1, VisitBlank
  <2>3. thr'[t] = Visit(calm, todo)
    BY <1>0, <1>12 DEF Apply
  <2> HIDE DEF calm
  <2>4. Blank(thr'[Loop])
        /\ \A p \in PCs : p # q /\ Keeps(thr[Loop], p) => Keeps(thr'[Loop], p)
    <3>1. CASE t = Loop
      BY <2>2, <2>3, <3>1 DEF Keeps
    <3>2. CASE t # Loop
      <4>1. thr'[Loop] = thr[Loop]
            \/ (thr[Loop].at = "apply" /\ thr'[Loop] = [thr[Loop] EXCEPT !.late = TRUE])
        BY <1>0, <1>12, <3>2, LoopThread DEF Apply
      <4>2. thr'[Loop].at = thr[Loop].at /\ thr'[Loop].todo = thr[Loop].todo
            /\ thr'[Loop].cur = thr[Loop].cur
        BY <1>0, <4>1 DEF ThreadState
      <4> QED
        BY <4>2 DEF Blank, Keeps, MarkInv
    <3> QED
      BY <3>1, <3>2
  <2>5. /\ \A p \in needsOffer : p # q =>
              p \in offering \/ Keeps(thr'[Loop], p) \/ state[p] = "closed"
        /\ UNCHANGED state
    BY <1>0, <1>12, <2>4 DEF MarkInv, TypeOK, Apply
  <2>6. CASE state[q] = "closed"
    <3>1. UNCHANGED <<senders, offered, needsOffer, offering>>
      BY <1>12, <2>6 DEF Apply
    <3> QED
      BY <2>4, <2>5, <2>6, <3>1 DEF MarkInv
  <2>7. CASE state[q] # "closed"
    <3>1. /\ senders' = [senders EXCEPT ![q] = want]
          /\ IF q \in offering
             THEN needsOffer' = needsOffer \union {q} /\ UNCHANGED <<offering, offered>>
             ELSE /\ needsOffer' = needsOffer \ {q}
                  /\ offering' = offering \union {q}
                  /\ offered' = [offered EXCEPT ![q] = want]
      BY <1>12, <2>7 DEF Apply
    <3>2. senders \in [PCs -> SUBSET PCs] /\ offered \in [PCs -> SUBSET PCs]
      BY DEF IInv, TypeOK
    <3>3. ASSUME NEW p \in PCs PROVE senders'[p] # offered'[p] => p \in needsOffer'
      <4>1. CASE q \in offering
        BY <3>1, <3>2, <4>1 DEF MarkInv
      <4>2. CASE q \notin offering
        BY <3>1, <3>2, <4>2 DEF MarkInv
      <4> QED
        BY <4>1, <4>2
    <3>4. \A p \in needsOffer' :
            p \in offering' \/ Keeps(thr'[Loop], p) \/ state'[p] = "closed"
      BY <3>1, <2>5
    <3> QED
      BY <2>4, <3>3, <3>4 DEF MarkInv
  <2> QED
    BY <2>6, <2>7
<1>13. ASSUME NEW p \in PCs, RemovePeer(p) PROVE MarkInv'
  <2>1. thr'[Loop] = thr[Loop]
    BY <1>0, <1>13, LoopThread, PCThreads, ThreadsDiffer DEF RemovePeer
  <2> PICK c, u : c = home[p].chat /\ u = home[p].user
    OBVIOUS
  <2>2. CASE peers[c][u] = p
    BY <1>0, <1>b, <1>13, <2>1, <2>2, MarkQuiet DEF RemovePeer
  <2>3. CASE peers[c][u] # p
    BY <1>b, <1>13, <2>1, <2>3, MarkClosed DEF RemovePeer, IInv
  <2> QED
    BY <2>2, <2>3
<1>14. ASSUME NEW p \in PCs, RegisterTrack(p) \/ UnregisterTrack(p) \/ Fail(p) PROVE MarkInv'
  <2>1. thr'[Loop] = thr[Loop]
    BY <1>0, <1>14, LoopThread, PCThreads, ThreadsDiffer DEF RegisterTrack, UnregisterTrack, Fail
  <2>2. \A q \in PCs : state[q] = "closed" => state'[q] = "closed"
    BY <1>0, <1>14 DEF RegisterTrack, UnregisterTrack, Fail, conns, TypeOK
  <2> QED
    BY <1>0, <1>b, <1>14, <2>1, <2>2, MarkQuiet DEF RegisterTrack, UnregisterTrack, Fail, conns
<1>15. ASSUME NEW c \in Chats, NEW u \in Users, Ice(c, u) PROVE MarkInv'
  BY <1>0, <1>b, <1>15, MarkQuiet DEF Ice
<1>16. CASE UNCHANGED vars
  BY <1>0, <1>b, <1>16, MarkQuiet DEF vars, conns
<1> QED
  BY <1>2, <1>3, <1>4, <1>5, <1>6, <1>7, <1>8, <1>9, <1>10, <1>11, <1>12, <1>13, <1>14, <1>15,
     <1>16 DEF Next, Signals, Continue

LEMMA MarkInit == Init => MarkInv
<1> SUFFICES ASSUME Init PROVE MarkInv
  OBVIOUS
<1>1. Blank(thr[Loop])
  BY LoopThread DEF Init, Blank, Resting
<1>2. needsOffer = {} /\ \A p \in PCs : senders[p] = {} /\ offered[p] = {}
  BY DEF Init
<1> QED
  BY <1>1, <1>2 DEF MarkInv

\* Whoever negotiates and however the answers interleave, a change of the
\* senders no offer described is marked, and a mark nobody answers for is in
\* the hands of the loop.
THEOREM MarksAreKept == Spec => []NoLostRenegotiation
<1>1. IInv /\ MarkInv => NoLostRenegotiation
  BY DEF IInv, TypeOK, MarkInv, Keeps, NoLostRenegotiation
<1> QED
  BY <1>1, Invariance, InitInv, NextInv, MarkInit, MarkNext, PTL DEF Spec

-----------------------------------------------------------------------------
(* Settling.                                                               *)

Used(q, c) == state[q] # "unused" /\ home[q].chat = c

\* What a goroutine negotiates belongs to its room; what it cloned was made.
InRoom(r) ==
  /\ r.at \in {"each", "apply"} => \A q \in r.todo : Used(q, r.chat)
  /\ r.at = "apply" => Used(r.cur, r.chat) /\ \A x \in r.snap : state[x] # "unused"

\* Moreover the goroutines of a connection work for its room.
WorkInv ==
  /\ \A t \in Threads : InRoom(thr[t])
  /\ \A p \in PCs : \A t \in {Relay(p), Remover(p)} :
       thr[t].at \notin {"idle", "done"} => Used(p, thr[t].chat)

\* A connection stays in use, for the user it was made for.
Stays ==
  \A q \in PCs : state[q] # "unused" => state'[q] # "unused" /\ home'[q] = home[q]

LEMMA StaysNext == ASSUME IInv, [Next]_vars PROVE Stays
<1>0. TypeOK
  BY DEF IInv
<1>1. ASSUME UNCHANGED <<state, home>> PROVE Stays
  BY <1>1 DEF Stays
<1>2. ASSUME NEW p, NEW pending, ClosePC(p, pending), UNCHANGED home PROVE Stays
  BY <1>0, <1>2 DEF Stays, ClosePC, TypeOK
<1>3. ASSUME NEW c \in Chats, NEW u \in Users, Join(c, u) \/ Hangup(c, u) PROVE Stays
  BY <1>1, <1>3 DEF Join, Hangup, Signal, conns
<1>4. ASSUME NEW c \in Chats, NEW u \in Users, Answer(c, u) \/ Ice(c, u) PROVE Stays
  BY <1>1, <1>4 DEF Answer, Ice
<1>5. CASE Shutdown \/ Refuse \/ Register
  BY <1>1, <1>5 DEF Shutdown, Refuse, Register, conns
<1>6. ASSUME NEW p \in PCs, Admit(p) PROVE Stays
  BY <1>0, <1>6 DEF Admit, TypeOK, Stays
<1>7. ASSUME NEW p \in PCs, ShutdownClose(p) PROVE Stays
  BY <1>2, <1>7 DEF ShutdownClose
<1>8. ASSUME NEW t \in Threads, Close(t) PROVE Stays
  BY <1>2, <1>8 DEF Close
<1>9. ASSUME NEW t \in Threads, Spread(t) \/ Snapshot(t) \/ Apply(t) PROVE Stays
  BY <1>1, <1>9 DEF Spread, Snapshot, Apply, conns
<1>10. ASSUME NEW p \in PCs, RegisterTrack(p) \/ UnregisterTrack(p) PROVE Stays
  BY <1>1, <1>10 DEF RegisterTrack, UnregisterTrack, conns
<1>11. ASSUME NEW p \in PCs, Fail(p) PROVE Stays
  BY <1>0, <1>11 DEF Fail, TypeOK, Stays
<1>12. ASSUME NEW p \in PCs, RemovePeer(p) PROVE Stays
  BY <1>1, <1>2, <1>12 DEF RemovePeer
<1>13. CASE UNCHANGED vars
  BY <1>1, <1>13 DEF vars, conns
<1> QED
  BY <1>3, <1>4, <1>5, <1>6, <1>7, <1>8, <1>9, <1>10, <1>11, <1>12, <1>13
     DEF Next, Signals, Continue

LEMMA RegisteredUsed ==
  ASSUME IInv, NEW c \in Chats, NEW p \in Registered(c)
  PROVE  p \in PCs /\ Used(p, c) /\ state[p] # "closed" /\ IsRegistered(p)
<1> PICK u \in Users : peers[c][u] = p /\ p # None
  BY DEF Registered
<1>1. p \in PCs /\ IsRegistered(p)
  BY DEF IInv, TypeOK, IsRegistered
<1>2. home[p] = [chat |-> c, user |-> u] /\ state[p] \in {"open", "failed"}
  BY DEF IInv, RegisteredIsLive
<1>3. home[p].chat = c
  BY <1>2
<1> QED
  BY <1>1, <1>2, <1>3 DEF Used

LEMMA LiveUsed ==
  ASSUME IInv, NEW c \in Chats, NEW x \in Live(c)
  PROVE  x \in PCs /\ state[x] # "unused"
<1> PICK u \in Users : tracks[c][u] = x /\ x # None
  BY DEF Live
<1> QED
  BY DEF IInv, TypeOK, TrackUsed

LEMMA VisitShape ==
  ASSUME NEW r \in ThreadState, NEW todo
  PROVE  /\ Visit(r, todo).at \in {"idle", "done", "admit", "reading", "each"}
         /\ Visit(r, todo).at \notin {"idle", "done"} => Visit(r, todo).chat = r.chat
         /\ Visit(r, todo).at = "each" => Visit(r, todo).todo = todo
         /\ todo # {} => Visit(r, todo).at = "each"
<1>1. r.next \in Targets
  BY DEF ThreadState
<1>2. CASE todo # {}
  <2>1. Visit(r, todo) = [r EXCEPT !.at = "each", !.todo = todo]
    BY <1>2 DEF Visit
  <2>2. Visit(r, todo).at = "each" /\ Visit(r, todo).todo = todo /\ Visit(r, todo).chat = r.chat
    BY <2>1 DEF ThreadState
  <2> QED
    BY <2>2
<1>3. CASE todo = {} /\ r.next \in {"idle", "done"}
  <2>1. Visit(r, todo) \in {Resting, Ended}
    BY <1>3 DEF Visit, Proceed
  <2>2. Resting.at = "idle" /\ Ended.at = "done"
    BY DEF Resting, Ended
  <2> QED
    BY <2>1, <2>2, <1>3
<1>4. CASE todo = {} /\ r.next \in {"admit", "reading"}
  <2>1. Visit(r, todo) = [Resting EXCEPT !.at = r.next, !.chat = r.chat, !.user = r.user, !.pc = r.pc]
    BY <1>4 DEF Visit, Proceed
  <2>2. Visit(r, todo).at = r.next /\ Visit(r, todo).chat = r.chat
    BY <2>1 DEF Resting
  <2> QED
    BY <2>2, <1>4
<1> QED
  BY <1>1, <1>2, <1>3, <1>4 DEF Targets

\* The others at most learn that they are late.
Late(t) ==
  thr'[t] = thr[t] \/ (thr[t].at = "apply" /\ thr'[t] = [thr[t] EXCEPT !.late = TRUE])

LEMMA OthersLate ==
  ASSUME IInv, NEW t \in Threads, Continue(t), NEW s \in Threads, s # t
  PROVE  Late(s)
<1>1. thr \in [Threads -> ThreadState]
  BY DEF IInv, TypeOK
<1> QED
  BY <1>1 DEF Continue, Close, Spread, Snapshot, Apply, Late

LEMMA LateFields ==
  ASSUME IInv, NEW s \in Threads, Late(s)
  PROVE  /\ thr'[s].at = thr[s].at /\ thr'[s].chat = thr[s].chat /\ thr'[s].todo = thr[s].todo
         /\ thr'[s].cur = thr[s].cur /\ thr'[s].snap = thr[s].snap
         /\ thr[s].late => thr'[s].late
<1>1. thr[s] \in ThreadState
  BY DEF IInv, TypeOK
<1> QED
  BY <1>1 DEF Late, ThreadState

LEMMA InRoomStays ==
  ASSUME IInv, Stays, NEW s \in Threads, Late(s), InRoom(thr[s])
  PROVE  InRoom(thr[s])'
<1>1. thr[s].todo \in SUBSET PCs /\ thr[s].snap \in SUBSET PCs
      /\ (thr[s].at = "apply" => thr[s].cur \in PCs)
  BY DEF IInv, TypeOK, ThreadState, Directed
<1> QED
  BY <1>1, LateFields DEF InRoom, Used, Stays

\* From r to n the goroutine stays with its room.
SameRoom(r, n) ==
  n.at \notin {"idle", "done"} => r.at \notin {"idle", "done"} /\ n.chat = r.chat

LEMMA WorkStep ==
  ASSUME IInv, WorkInv, Stays,
         \A s \in Threads : Late(s) \/ InRoom(thr[s])',
         \A s \in Threads : s = Loop \/ SameRoom(thr[s], thr'[s])
                            \/ \E p \in PCs : s \in {Relay(p), Remover(p)} /\ Used(p, thr'[s].chat)
  PROVE  WorkInv'
<1>1. \A s \in Threads : InRoom(thr[s])'
  BY InRoomStays DEF WorkInv
<1>2. ASSUME NEW p \in PCs, NEW s \in {Relay(p), Remover(p)}, thr'[s].at \notin {"idle", "done"}
      PROVE  state'[p] # "unused" /\ home'[p].chat = thr'[s].chat
  <2>1. s \in Threads /\ s # Loop
    BY PCThreads, ThreadsDiffer
  <2>2. CASE SameRoom(thr[s], thr'[s])
    BY <1>2, <2>2 DEF SameRoom, WorkInv, Used, Stays
  <2>3. CASE \E q \in PCs : s \in {Relay(q), Remover(q)} /\ Used(q, thr'[s].chat)
    <3> PICK q \in PCs : s \in {Relay(q), Remover(q)} /\ Used(q, thr'[s].chat)
      BY <2>3
    <3>1. q = p
      BY ThreadsDiffer
    <3> QED
      BY <3>1 DEF Used, Stays
  <2> QED
    BY <2>1, <2>2, <2>3
<1> QED
  BY <1>1, <1>2 DEF WorkInv, Used

LEMMA LateSameRoom ==
  ASSUME IInv, NEW s \in Threads, Late(s) PROVE SameRoom(thr[s], thr'[s])
  BY LateFields DEF SameRoom

LEMMA InRoomVisit ==
  ASSUME IInv, IInv', Stays, NEW t \in Threads, NEW r \in ThreadState, NEW todo \in SUBSET PCs,
         thr'[t] = Visit(r, todo), \A q \in todo : Used(q, r.chat)
  PROVE  InRoom(thr[t])' /\ (thr'[t].at \notin {"idle", "done"} => thr'[t].chat = r.chat)
<1>1. /\ thr'[t].at \in {"idle", "done", "admit", "reading", "each"}
      /\ thr'[t].at \notin {"idle", "done"} => thr'[t].chat = r.chat
      /\ thr'[t].at = "each" => thr'[t].todo = todo
  BY VisitShape
<1> QED
  BY <1>1 DEF InRoom, Used, Stays

LEMMA WorkContinue ==
  ASSUME IInv, IInv', WorkInv, Stays, NEW t \in Threads, Continue(t)
  PROVE  WorkInv'
<1>0. thr \in [Threads -> ThreadState] /\ thr[t] \in ThreadState /\ thr[t].todo \in SUBSET PCs
      /\ thr[t].at \notin {"idle", "done"}
  BY DEF IInv, TypeOK, ThreadState, Continue, Close, Spread, Snapshot, Apply
<1>1. thr[t].chat \in Chats
  BY DEF IInv, TypeOK, Directed, Continue, Close, Spread, Snapshot, Apply
<1>2. InRoom(thr[t])' /\ (thr'[t].at \notin {"idle", "done"} => thr'[t].chat = thr[t].chat)
  <2>1. CASE Close(t) \/ Spread(t)
    <3> PICK c \in Chats : c = thr[t].chat
      BY <1>1
    <3> PICK todo \in SUBSET PCs : todo = Registered(c)
      BY RegisteredType DEF IInv
    <3>1. thr'[t] = Visit(thr[t], todo)
      BY <2>1, <1>0 DEF Close, Spread
    <3>2. \A q \in todo : Used(q, c)
      BY RegisteredUsed
    <3> QED
      BY <3>1, <3>2, <1>0, InRoomVisit
  <2>2. CASE Snapshot(t)
    <3> PICK q \in thr[t].todo :
          thr' = [thr EXCEPT ![t] = [thr[t] EXCEPT !.at = "apply", !.cur = q, !.todo = @ \ {q},
                                       !.snap = Live(thr[t].chat), !.late = FALSE]]
      BY <2>2 DEF Snapshot
    <3>1. /\ thr'[t].at = "apply" /\ thr'[t].cur = q /\ thr'[t].todo = thr[t].todo \ {q}
          /\ thr'[t].snap = Live(thr[t].chat) /\ thr'[t].chat = thr[t].chat
      BY <1>0 DEF ThreadState
    <3>2. \A x \in thr[t].todo : Used(x, thr[t].chat) /\ x \in PCs
      BY <1>0, <2>2 DEF WorkInv, InRoom, Snapshot
    <3>3. \A x \in Live(thr[t].chat) : x \in PCs /\ state[x] # "unused"
      BY <1>1, LiveUsed
    <3> QED
      BY <3>1, <3>2, <3>3 DEF InRoom, Used, Stays
  <2>3. CASE Apply(t)
    <3> DEFINE calm == [thr[t] EXCEPT !.cur = None, !.snap = {}, !.late = FALSE]
    <3> PICK todo \in SUBSET PCs : todo = thr[t].todo
      BY <1>0
    <3>1. calm \in ThreadState /\ calm.chat = thr[t].chat
      BY <1>0 DEF ThreadState
    <3>2. thr'[t] = Visit(calm, todo)
      BY <2>3, <1>0 DEF Apply
    <3>3. \A q \in todo : Used(q, thr[t].chat)
      BY <2>3 DEF WorkInv, InRoom, Apply
    <3> HIDE DEF calm
    <3>4. \A q \in todo : Used(q, calm.chat)
      BY <3>1, <3>3
    <3> PICK r \in ThreadState : r = calm
      BY <3>1
    <3> QED
      BY <3>1, <3>2, <3>4, InRoomVisit
  <2> QED
    BY <2>1, <2>2, <2>3 DEF Continue
<1>3. \A s \in Threads : s # t => Late(s)
  BY OthersLate
<1>4. SameRoom(thr[t], thr'[t])
  BY <1>0, <1>2 DEF SameRoom
<1>5. \A s \in Threads : SameRoom(thr[s], thr'[s])
  BY <1>3, <1>4, LateSameRoom
<1> QED
  BY <1>2, <1>3, <1>5, WorkStep

\* Only the goroutine t moves, and it is not negotiating yet.
LEMMA WorkMove ==
  ASSUME IInv, WorkInv, Stays, NEW t \in Threads,
         \A s \in Threads : s # t => thr'[s] = thr[s],
         thr'[t].at \notin {"each", "apply"},
         t = Loop \/ SameRoom(thr[t], thr'[t])
           \/ \E p \in PCs : t \in {Relay(p), Remover(p)} /\ Used(p, thr'[t].chat)
  PROVE  WorkInv'
<1>1. \A s \in Threads : s # t => Late(s)
  BY DEF Late
<1>2. InRoom(thr[t])'
  BY DEF InRoom
<1> QED
  BY <1>1, <1>2, LateSameRoom, WorkStep

LEMMA WorkNext == ASSUME IInv, IInv', WorkInv, Stays, [Next]_vars PROVE WorkInv'
<1>0. thr \in [Threads -> ThreadState] /\ thr[Loop] \in ThreadState
  BY LoopThread DEF IInv, TypeOK
<1>a. \A s \in Threads : thr'[s] = thr[s] => Late(s)
  BY DEF Late
<1>1. ASSUME NEW c \in Chats, NEW u \in Users, NEW next \in {"idle", "admit"}, Signal(c, u, next)
      PROVE  WorkInv'
  <2>1. thr'[Loop].at \notin {"each", "apply"}
    <3>1. CASE peers[c][u] = None
      <4> DEFINE r == [Resting EXCEPT !.at = next, !.chat = c, !.user = u]
      <4>1. r.at = next
        BY DEF Resting
      <4>2. thr' = [thr EXCEPT ![Loop] = r]
        BY <1>1, <3>1 DEF Signal
      <4> HIDE DEF r
      <4> QED
        BY <1>0, <4>1, <4>2, LoopThread
    <3>2. CASE peers[c][u] # None
      <4> DEFINE r == Closing(c, u, peers[c][u], next)
      <4>1. r.at = "close" /\ r.todo = {} /\ r.cur = None
        BY DEF Closing, Resting
      <4>2. thr' = [thr EXCEPT ![Loop] = r]
        BY <1>1, <3>2 DEF Signal
      <4> HIDE DEF r
      <4> QED
        BY <1>0, <4>1, <4>2, LoopThread
    <3> QED
      BY <3>1, <3>2
  <2>2. \A s \in Threads : s # Loop => thr'[s] = thr[s]
    BY <1>0, <1>1 DEF Signal
  <2> QED
    BY <2>1, <2>2, LoopThread, WorkMove
<1>2. ASSUME NEW c \in Chats, NEW u \in Users, Join(c, u) \/ Hangup(c, u) PROVE WorkInv'
  BY <1>1, <1>2 DEF Join, Hangup
<1>3. CASE Refuse
  BY <1>0, <1>3, LoopThread, WorkMove DEF Refuse, Resting
<1>4. ASSUME NEW p \in PCs, Admit(p) PROVE WorkInv'
  <2>1. thr'[Loop].at = "register" /\ \A s \in Threads : s # Loop => thr'[s] = thr[s]
    BY <1>0, <1>4, LoopThread DEF Admit, ThreadState
  <2> QED
    BY <2>1, LoopThread, WorkMove
<1>5. CASE Register
  <2> PICK c \in Chats, u \in Users, p \in PCs :
             c = thr[Loop].chat /\ u = thr[Loop].user /\ p = thr[Loop].pc
    BY <1>5, LoopThread DEF IInv, TypeOK, Directed, Register
  <2>1. /\ thr'[Loop].at = "each" /\ thr'[Loop].todo = {p} /\ thr'[Loop].chat = c
        /\ \A s \in Threads : s # Loop => thr'[s] = thr[s]
    BY <1>0, <1>5, LoopThread DEF Register, ThreadState
  <2>2. Used(p, c)
    BY <1>5 DEF Register, IInv, JustMade, Used
  <2>3. InRoom(thr[Loop])'
    BY <2>1, <2>2 DEF InRoom, Used, Stays
  <2> QED
    BY <1>a, <2>1, <2>3, LoopThread, LateSameRoom, WorkStep
<1>6. ASSUME NEW c \in Chats, NEW u \in Users, Answer(c, u) PROVE WorkInv'
  <2> PICK p \in PCs : p = peers[c][u]
    BY <1>6 DEF Answer, IInv, TypeOK
  <2>1. CASE p \in needsOffer
    <3>1. /\ thr'[Loop].at = "each" /\ thr'[Loop].todo = {p} /\ thr'[Loop].chat = c
          /\ \A s \in Threads : s # Loop => thr'[s] = thr[s]
      BY <1>0, <1>6, <2>1, LoopThread DEF Answer, Resting
    <3>2. Used(p, c)
      BY NoneFresh, RegisteredUsed DEF Registered
    <3>3. InRoom(thr[Loop])'
      BY <3>1, <3>2 DEF InRoom, Used, Stays
    <3> QED
      BY <1>a, <3>1, <3>3, LoopThread, LateSameRoom, WorkStep
  <2>2. CASE p \notin needsOffer
    BY <1>a, <1>6, <2>2, LateSameRoom, WorkStep DEF Answer
  <2> QED
    BY <2>1, <2>2
<1>7. CASE Shutdown
  <2> DEFINE all == UNION {Registered(c) : c \in Chats}
             r == [Resting EXCEPT !.at = "shut", !.todo = all]
  <2>1. thr' = [thr EXCEPT ![Loop] = r]
    BY <1>7 DEF Shutdown
  <2> HIDE DEF all
  <2>2. r.at = "shut"
    BY DEF Resting
  <2> HIDE DEF r
  <2>3. thr'[Loop] = r /\ \A s \in Threads : s # Loop => thr'[s] = thr[s]
    BY <2>1, <1>0, LoopThread
  <2> QED
    BY <2>2, <2>3, LoopThread, WorkMove
<1>8. ASSUME NEW p \in PCs, ShutdownClose(p) PROVE WorkInv'
  <2>1. thr'[Loop].at = "shut" /\ \A s \in Threads : s # Loop => thr'[s] = thr[s]
    BY <1>0, <1>8, LoopThread DEF ShutdownClose, ThreadState
  <2> QED
    BY <2>1, LoopThread, WorkMove
<1>9. ASSUME NEW p \in PCs, RegisterTrack(p) PROVE WorkInv'
  <2> PICK c \in Chats, u \in Users : c = home[p].chat /\ u = home[p].user
    BY <1>9 DEF IInv, Homed, RegisterTrack
  <2>1. Relay(p) \in Threads /\ Used(p, c)
    BY <1>9, PCThreads DEF RegisterTrack, Used, IInv, Homed
  <2>2. /\ thr'[Relay(p)].at \in {"done", "spread"}
        /\ thr'[Relay(p)].at = "spread" => thr'[Relay(p)].chat = c
        /\ \A s \in Threads : s # Relay(p) => thr'[s] = thr[s]
    <3>1. CASE Registered(c) = {}
      BY <1>0, <1>9, <2>1, <3>1 DEF RegisterTrack, Ended, Resting
    <3>2. CASE Registered(c) # {}
      BY <1>0, <1>9, <2>1, <3>2 DEF RegisterTrack, Resting
    <3> QED
      BY <3>1, <3>2
  <2>3. SameRoom(thr[Relay(p)], thr'[Relay(p)])
        \/ \E q \in PCs : Relay(p) \in {Relay(q), Remover(q)} /\ Used(q, thr'[Relay(p)].chat)
    BY <2>1, <2>2 DEF SameRoom
  <2> QED
    BY <2>1, <2>2, <2>3, WorkMove
<1>10. ASSUME NEW p \in PCs, UnregisterTrack(p) PROVE WorkInv'
  <2>1. /\ thr'[Relay(p)].at = "spread" /\ thr[Relay(p)].at = "reading"
        /\ thr'[Relay(p)].chat = thr[Relay(p)].chat
        /\ \A s \in Threads : s # Relay(p) => thr'[s] = thr[s]
    BY <1>0, <1>10, PCThreads DEF UnregisterTrack, ThreadState
  <2> QED
    BY <2>1, PCThreads, WorkMove DEF SameRoom
<1>11. ASSUME NEW p \in PCs, RemovePeer(p) PROVE WorkInv'
  <2> PICK c \in Chats, u \in Users : c = home[p].chat /\ u = home[p].user
    BY <1>11 DEF IInv, Homed, RemovePeer
  <2>1. CASE peers[c][u] = p
    <3>1. /\ thr'[Remover(p)].at = "close" /\ thr'[Remover(p)].chat = c
          /\ \A s \in Threads : s # Remover(p) => thr'[s] = thr[s]
      BY <1>0, <1>11, <2>1, PCThreads DEF RemovePeer, Closing, Resting
    <3>2. Used(p, c)
      BY <1>11 DEF RemovePeer, Used, IInv, Homed
    <3> QED
      BY <3>1, <3>2, PCThreads, WorkMove
  <2>2. CASE peers[c][u] # p
    BY <1>a, <1>11, <2>2, LateSameRoom, WorkStep DEF RemovePeer
  <2> QED
    BY <2>1, <2>2
<1>12. ASSUME UNCHANGED thr PROVE WorkInv'
  BY <1>a, <1>12, LateSameRoom, WorkStep
<1>13. ASSUME NEW c \in Chats, NEW u \in Users, Ice(c, u) PROVE WorkInv'
  BY <1>12, <1>13 DEF Ice
<1>14. ASSUME NEW p \in PCs, Fail(p) PROVE WorkInv'
  BY <1>12, <1>14 DEF Fail
<1>15. CASE UNCHANGED vars
  BY <1>12, <1>15 DEF vars
<1> QED
  BY <1>2, <1>3, <1>4, <1>5, <1>6, <1>7, <1>8, <1>9, <1>10, <1>11, <1>13, <1>14, <1>15,
     WorkContinue DEF Next, Signals

\* The goroutine t will bring the senders of p in line with the tracks of c:
\* it has still to copy the peers, or to reach p, or has p in hand with a
\* clone that is right, unless another has negotiated p meanwhile.
Owing(t, c, p) ==
  /\ thr[t].chat = c
  /\ \/ thr[t].at \in {"close", "spread"}
     \/ thr[t].at \in {"each", "apply"} /\ p \in thr[t].todo
     \/ /\ thr[t].at = "apply" /\ thr[t].cur = p
        /\ thr[t].late \/ Wanted(p, thr[t].snap) = Wanted(p, Live(c))

\* A registered peer is sent what it should be, or somebody owes it that.
SentOrOwed(c, p) ==
  p \in torn \/ senders[p] = Wanted(p, Live(c)) \/ \E t \in Threads : Owing(t, c, p)

\* Whoever is about to apply a clone that is out of date is not the last.
StaleIsOwed(c, p) ==
  \A t \in Threads : thr[t].at = "apply" /\ thr[t].cur = p =>
    \/ thr[t].late
    \/ Wanted(p, thr[t].snap) = Wanted(p, Live(c))
    \/ \E s \in Threads \ {t} : Owing(s, c, p)

ConvInv == \A c \in Chats : \A p \in Registered(c) : SentOrOwed(c, p) /\ StaleIsOwed(c, p)

LEMMA WantedSame ==
  ASSUME NEW p, NEW S, \A x \in S \union {p} : home'[x] = home[x]
  PROVE  Wanted(p, S)' = Wanted(p, S)
  BY DEF Wanted

LEMMA LiveSame ==
  ASSUME IInv, Stays, NEW c \in Chats, NEW p \in PCs, state[p] # "unused",
         tracks'[c] = tracks[c]
  PROVE  Wanted(p, Live(c))' = Wanted(p, Live(c)) /\ Live(c)' = Live(c)
<1> PICK L : L = Live(c)
  OBVIOUS
<1>1. Live(c)' = L
  BY DEF Live
<1>2. \A x \in L \union {p} : home'[x] = home[x]
  BY LiveUsed DEF Stays
<1>3. Wanted(p, L)' = Wanted(p, L)
  BY <1>2, WantedSame
<1> QED
  BY <1>1, <1>3 DEF Wanted

LEMMA OwingSame ==
  ASSUME IInv, WorkInv, Stays, NEW c \in Chats, NEW p \in PCs, state[p] # "unused",
         tracks'[c] = tracks[c], NEW t \in Threads, Late(t), Owing(t, c, p)
  PROVE  Owing(t, c, p)'
<1>1. /\ thr'[t].at = thr[t].at /\ thr'[t].chat = thr[t].chat /\ thr'[t].todo = thr[t].todo
      /\ thr'[t].cur = thr[t].cur /\ thr'[t].snap = thr[t].snap
      /\ thr[t].late => thr'[t].late
  BY LateFields
<1>2. CASE thr[t].at \in {"close", "spread"} \/ (thr[t].at \in {"each", "apply"} /\ p \in thr[t].todo)
  BY <1>1, <1>2 DEF Owing
<1>3. CASE thr[t].at = "apply" /\ thr[t].cur = p
           /\ (thr[t].late \/ Wanted(p, thr[t].snap) = Wanted(p, Live(c)))
  <2> PICK S : S = thr[t].snap
    OBVIOUS
  <2>1. \A x \in S : x \in PCs /\ state[x] # "unused"
    BY <1>3 DEF WorkInv, InRoom, IInv, TypeOK, ThreadState
  <2>2. Wanted(p, S)' = Wanted(p, S)
    BY <2>1, WantedSame DEF Stays
  <2>3. Wanted(p, Live(c))' = Wanted(p, Live(c))
    BY LiveSame
  <2>4. thr[t].late \/ Wanted(p, S) = Wanted(p, Live(c))
    BY <1>3
  <2>5. thr'[t].late \/ Wanted(p, S)' = Wanted(p, Live(c))'
    BY <1>1, <2>2, <2>3, <2>4
  <2>6. thr'[t].late \/ Wanted(p, thr[t].snap)' = Wanted(p, Live(c))'
    BY <1>1, <2>5 DEF Wanted
  <2> QED
    BY <1>1, <1>3, <2>6 DEF Owing
<1> QED
  BY <1>2, <1>3 DEF Owing

\* The goroutine s will visit p and has not yet cloned the tracks for that.
Due(s, c, p) ==
  /\ thr[s].chat = c
  /\ thr[s].at \in {"close", "spread"} \/ (thr[s].at = "each" /\ p \in thr[s].todo)

\* The step leaves alone what p is sent, and whoever owes it.
Undisturbed(c, p) ==
  /\ p \in Registered(c) /\ tracks'[c] = tracks[c] /\ senders'[p] = senders[p]
  /\ p \in torn => p \in torn'
  /\ \A t \in Threads : Owing(t, c, p) => Owing(t, c, p)'

\* Whoever is about to apply a clone was before, or made it in this step.
HandsOn(t) ==
  thr'[t].at = "apply" =>
    \/ /\ thr[t].at = "apply" /\ thr'[t].cur = thr[t].cur /\ thr'[t].snap = thr[t].snap
       /\ thr[t].late => thr'[t].late
    \/ thr'[t].snap = Live(thr'[t].chat)

LEMMA LateHandsOn == ASSUME IInv, NEW t \in Threads, Late(t) PROVE HandsOn(t)
  BY LateFields DEF HandsOn

LEMMA StillStale ==
  ASSUME IInv, IInv', WorkInv, WorkInv', Stays, NEW c \in Chats, NEW p,
         p \in Registered(c)', StaleIsOwed(c, p), Undisturbed(c, p),
         \A t \in Threads : HandsOn(t)
  PROVE  StaleIsOwed(c, p)'
<1>1. p \in PCs /\ Used(p, c)
  BY RegisteredUsed DEF Undisturbed
<1>2. Wanted(p, Live(c))' = Wanted(p, Live(c)) /\ Live(c)' = Live(c)
  BY <1>1, LiveSame DEF Undisturbed, Used
<1> SUFFICES ASSUME NEW t \in Threads, thr'[t].at = "apply", thr'[t].cur = p
             PROVE  \/ thr'[t].late
                    \/ Wanted(p, thr[t].snap)' = Wanted(p, Live(c))'
                    \/ \E s \in Threads \ {t} : Owing(s, c, p)'
  BY DEF StaleIsOwed
<1>3. thr'[t].chat = c
  <2>1. home'[p].chat = thr'[t].chat
    BY DEF WorkInv, InRoom, Used
  <2> QED
    BY <2>1, <1>1 DEF Used, Stays
<1>4. CASE thr'[t].snap = Live(thr'[t].chat)
  BY <1>2, <1>3, <1>4 DEF Wanted
<1>5. CASE /\ thr[t].at = "apply" /\ thr'[t].cur = thr[t].cur /\ thr'[t].snap = thr[t].snap
           /\ thr[t].late => thr'[t].late
  <2> PICK S : S = thr[t].snap
    OBVIOUS
  <2>1. \A x \in S : x \in PCs /\ state[x] # "unused"
    BY <1>5 DEF WorkInv, InRoom, IInv, TypeOK, ThreadState
  <2>2. Wanted(p, S)' = Wanted(p, S)
    BY <1>1, <2>1, WantedSame DEF Stays, Used
  <2>3. Wanted(p, thr[t].snap)' = Wanted(p, S)
    BY <1>5, <2>2 DEF Wanted
  <2>4. \/ thr[t].late
        \/ Wanted(p, S) = Wanted(p, Live(c))
        \/ \E s \in Threads \ {t} : Owing(s, c, p)
    BY <1>5 DEF StaleIsOwed
  <2>5. CASE thr[t].late
    BY <1>5, <2>5
  <2>6. CASE Wanted(p, S) = Wanted(p, Live(c))
    BY <1>2, <2>3, <2>6
  <2>7. CASE \E s \in Threads \ {t} : Owing(s, c, p)
    BY <2>7 DEF Undisturbed
  <2> QED
    BY <2>4, <2>5, <2>6, <2>7
<1> QED
  BY <1>4, <1>5 DEF HandsOn

LEMMA KeepOne ==
  ASSUME IInv, IInv', WorkInv, WorkInv', Stays, ConvInv, NEW c \in Chats, NEW p,
         p \in Registered(c)', \A t \in Threads : HandsOn(t),
         (\E s \in Threads : Due(s, c, p)') \/ Undisturbed(c, p)
  PROVE  SentOrOwed(c, p)' /\ StaleIsOwed(c, p)'
<1>1. CASE \E s \in Threads : Due(s, c, p)'
  <2> PICK s \in Threads : Due(s, c, p)'
    BY <1>1
  <2>1. Owing(s, c, p)' /\ thr'[s].at # "apply"
    BY DEF Due, Owing
  <2> QED
    BY <2>1 DEF SentOrOwed, StaleIsOwed
<1>2. CASE Undisturbed(c, p)
  <2>1. SentOrOwed(c, p) /\ StaleIsOwed(c, p) /\ p \in PCs /\ Used(p, c)
    BY <1>2, RegisteredUsed DEF ConvInv, Undisturbed
  <2>2. Wanted(p, Live(c))' = Wanted(p, Live(c))
    BY <1>2, <2>1, LiveSame DEF Undisturbed, Used
  <2>3. SentOrOwed(c, p)'
    <3>1. CASE p \in torn
      BY <3>1, <1>2 DEF SentOrOwed, Undisturbed
    <3>2. CASE senders[p] = Wanted(p, Live(c))
      BY <3>2, <1>2, <2>2 DEF SentOrOwed, Undisturbed
    <3>3. CASE \E t \in Threads : Owing(t, c, p)
      BY <3>3, <1>2 DEF SentOrOwed, Undisturbed
    <3> QED
      BY <2>1, <3>1, <3>2, <3>3 DEF SentOrOwed
  <2> QED
    BY <1>2, <2>1, <2>3, StillStale
<1> QED
  BY <1>1, <1>2

\* The goroutine t moves without having owed anything.
LEMMA ConvMove ==
  ASSUME IInv, IInv', WorkInv, WorkInv', Stays, ConvInv, NEW t \in Threads,
         \A s \in Threads : s # t => thr'[s] = thr[s], thr'[t].at # "apply",
         \A c \in Chats, p \in PCs : p \in Registered(c)' =>
           \/ Due(t, c, p)'
           \/ /\ p \in Registered(c) /\ tracks'[c] = tracks[c] /\ senders'[p] = senders[p]
              /\ p \in torn => p \in torn'
              /\ Owing(t, c, p) => Owing(t, c, p)'
  PROVE  ConvInv'
<1> SUFFICES ASSUME NEW c \in Chats, NEW p, p \in Registered(c)'
             PROVE  SentOrOwed(c, p)' /\ StaleIsOwed(c, p)'
  BY DEF ConvInv
<1>1. p \in PCs
  BY DEF Registered, IInv, TypeOK
<1>2. \A s \in Threads : s # t => Late(s)
  BY DEF Late
<1>3. \A s \in Threads : HandsOn(s)
  BY <1>2, LateHandsOn DEF HandsOn
<1>4. CASE Due(t, c, p)'
  BY <1>3, <1>4, KeepOne
<1>5. CASE /\ p \in Registered(c) /\ tracks'[c] = tracks[c] /\ senders'[p] = senders[p]
           /\ p \in torn => p \in torn'
           /\ Owing(t, c, p) => Owing(t, c, p)'
  <2>1. state[p] # "unused"
    BY <1>5, RegisteredUsed DEF Used
  <2>2. ASSUME NEW s \in Threads, Owing(s, c, p) PROVE Owing(s, c, p)'
    BY <1>1, <1>2, <1>5, <2>1, <2>2, OwingSame
  <2>3. Undisturbed(c, p)
    BY <1>5, <2>2 DEF Undisturbed
  <2> QED
    BY <1>3, <2>3, KeepOne
<1> QED
  BY <1>1, <1>4, <1>5

\* No goroutine moves, and what the registered are sent does not change.
LEMMA ConvStill ==
  ASSUME IInv, IInv', WorkInv, WorkInv', Stays, ConvInv, UNCHANGED <<thr, rooms>>,
         \A c \in Chats : \A p \in Registered(c) :
           senders'[p] = senders[p] /\ (p \in torn => p \in torn')
  PROVE  ConvInv'
<1> SUFFICES ASSUME NEW c \in Chats, NEW p, p \in Registered(c)'
             PROVE  SentOrOwed(c, p)' /\ StaleIsOwed(c, p)'
  BY DEF ConvInv
<1>1. p \in Registered(c) /\ p \in PCs /\ state[p] # "unused"
  <2>1. p \in Registered(c)
    BY DEF Registered, rooms
  <2> QED
    BY <2>1, RegisteredUsed DEF Used
<1>2. \A s \in Threads : Late(s)
  BY DEF Late
<1>3. ASSUME NEW s \in Threads, Owing(s, c, p) PROVE Owing(s, c, p)'
  BY <1>1, <1>2, <1>3, OwingSame DEF rooms
<1>4. Undisturbed(c, p)
  BY <1>1, <1>3 DEF Undisturbed, rooms
<1> QED
  BY <1>2, <1>4, LateHandsOn, KeepOne

\* What a connection that nobody has registered is sent is reset.
LEMMA ClosedSent ==
  ASSUME IInv, NEW p \in PCs, ~IsRegistered(p), NEW pending, ClosePC(p, pending)
  PROVE  \A c \in Chats : \A q \in Registered(c) :
           senders'[q] = senders[q] /\ (q \in torn => q \in torn')
<1> SUFFICES ASSUME NEW c \in Chats, NEW q \in Registered(c)
             PROVE  senders'[q] = senders[q] /\ (q \in torn => q \in torn')
  OBVIOUS
<1>1. q # p /\ q \in PCs
  BY RegisteredUsed
<1>2. senders \in [PCs -> SUBSET PCs]
  BY DEF IInv, TypeOK
<1> QED
  BY <1>1, <1>2 DEF ClosePC

LEMMA NotOwing ==
  ASSUME NEW t, thr[t].at \notin {"close", "spread", "each", "apply"}
  PROVE  \A c, p : ~Owing(t, c, p)
  BY DEF Owing

LEMMA DeregisterRooms ==
  ASSUME IInv, NEW c \in Chats, NEW u \in Users, Deregister(c, u)
  PROVE  \A d \in Chats : d # c => tracks'[d] = tracks[d] /\ Registered(d)' = Registered(d)
<1> SUFFICES ASSUME NEW d \in Chats, d # c
             PROVE  tracks'[d] = tracks[d] /\ Registered(d)' = Registered(d)
  OBVIOUS
<1>1. tracks'[d] = tracks[d] /\ peers'[d] = peers[d]
  BY DEF Deregister, IInv, TypeOK
<1> QED
  BY <1>1 DEF Registered

\* A connection leaves the room c, and the goroutine t is to close it.
LEMMA ConvRemoval ==
  ASSUME IInv, IInv', WorkInv, WorkInv', Stays, ConvInv, NEW t \in Threads,
         NEW c \in Chats, NEW u \in Users, Deregister(c, u), UNCHANGED <<senders, torn>>,
         \A s \in Threads : s # t => thr'[s] = thr[s],
         thr'[t].at = "close", thr'[t].chat = c,
         \A d \in Chats, p \in PCs : Owing(t, d, p) => d = c
  PROVE  ConvInv'
<1> SUFFICES ASSUME NEW d \in Chats, NEW p \in PCs, p \in Registered(d)'
             PROVE  \/ Due(t, d, p)'
                    \/ /\ p \in Registered(d) /\ tracks'[d] = tracks[d]
                       /\ senders'[p] = senders[p] /\ (p \in torn => p \in torn')
                       /\ Owing(t, d, p) => Owing(t, d, p)'
  BY ConvMove
<1>1. CASE d = c
  BY <1>1 DEF Due
<1>2. CASE d # c
  BY <1>2, DeregisterRooms
<1> QED
  BY <1>1, <1>2

\* The track of a room changes, and the goroutine t is to tell its peers.
LEMMA ConvTrack ==
  ASSUME IInv, IInv', WorkInv, WorkInv', Stays, ConvInv, NEW t \in Threads, NEW c \in Chats,
         UNCHANGED <<peers, senders, torn>>, \A d \in Chats : d # c => tracks'[d] = tracks[d],
         \A s \in Threads : s # t => thr'[s] = thr[s],
         thr'[t].at = "spread", thr'[t].chat = c,
         thr[t].at \notin {"close", "spread", "each", "apply"}
  PROVE  ConvInv'
<1> SUFFICES ASSUME NEW d \in Chats, NEW p \in PCs, p \in Registered(d)'
             PROVE  \/ Due(t, d, p)'
                    \/ /\ p \in Registered(d) /\ tracks'[d] = tracks[d]
                       /\ senders'[p] = senders[p] /\ (p \in torn => p \in torn')
                       /\ Owing(t, d, p) => Owing(t, d, p)'
  BY ConvMove
<1>1. CASE d = c
  BY <1>1 DEF Due
<1>2. CASE d # c
  BY <1>2, NotOwing DEF Registered
<1> QED
  BY <1>1, <1>2

\* The goroutine t, which owes nothing, moves to where it does not negotiate;
\* the rooms stay.
LEMMA ConvElsewhere ==
  ASSUME IInv, IInv', WorkInv, WorkInv', Stays, ConvInv, NEW t \in Threads,
         UNCHANGED <<rooms, senders, torn>>,
         \A s \in Threads : s # t => thr'[s] = thr[s],
         thr'[t].at # "apply",
         thr[t].at \notin {"close", "spread", "each", "apply"}
  PROVE  ConvInv'
<1> SUFFICES ASSUME NEW d \in Chats, NEW p \in PCs, p \in Registered(d)'
             PROVE  /\ p \in Registered(d) /\ tracks'[d] = tracks[d]
                    /\ senders'[p] = senders[p] /\ (p \in torn => p \in torn')
                    /\ Owing(t, d, p) => Owing(t, d, p)'
  BY ConvMove
<1> QED
  BY NotOwing DEF Registered, rooms

\* Nobody is registered any more.
LEMMA ConvEmpty ==
  ASSUME \A c \in Chats, u \in Users : peers'[c][u] = None
  PROVE  ConvInv'
  BY DEF ConvInv, Registered

LEMMA ConvVisit ==
  ASSUME IInv, IInv', WorkInv, WorkInv', Stays, ConvInv, NEW t \in Threads,
         UNCHANGED rooms, \A s \in Threads : s # t => thr'[s] = thr[s],
         thr[t].at \in {"close", "spread"},
         thr'[t] = Visit(thr[t], Registered(thr[t].chat)),
         \A c \in Chats : \A p \in Registered(c) :
           senders'[p] = senders[p] /\ (p \in torn => p \in torn')
  PROVE  ConvInv'
<1>1. thr[t].chat \in Chats /\ thr[t] \in ThreadState
  BY DEF IInv, TypeOK, Directed
<1> PICK c \in Chats : c = thr[t].chat
  BY <1>1
<1> PICK todo : todo = Registered(c)
  OBVIOUS
<1>2. /\ thr'[t].at # "apply"
      /\ todo # {} => thr'[t].at = "each" /\ thr'[t].todo = todo /\ thr'[t].chat = c
  BY <1>1, VisitShape
<1> SUFFICES ASSUME NEW d \in Chats, NEW p \in PCs, p \in Registered(d)'
             PROVE  \/ Due(t, d, p)'
                    \/ /\ p \in Registered(d) /\ tracks'[d] = tracks[d]
                       /\ senders'[p] = senders[p] /\ (p \in torn => p \in torn')
                       /\ Owing(t, d, p) => Owing(t, d, p)'
  BY <1>2, ConvMove
<1>3. p \in Registered(d) /\ tracks' = tracks
  BY DEF Registered, rooms
<1>4. CASE d = c
  BY <1>2, <1>3, <1>4 DEF Due
<1>5. CASE d # c
  BY <1>3, <1>5 DEF Owing
<1> QED
  BY <1>4, <1>5

LEMMA ConvSnapshot ==
  ASSUME IInv, IInv', WorkInv, WorkInv', Stays, ConvInv, NEW t \in Threads, Snapshot(t)
  PROVE  ConvInv'
<1> PICK q \in thr[t].todo :
      thr' = [thr EXCEPT ![t] = [thr[t] EXCEPT !.at = "apply", !.cur = q, !.todo = @ \ {q},
                                   !.snap = Live(thr[t].chat), !.late = FALSE]]
  BY DEF Snapshot
<1>1. thr \in [Threads -> ThreadState] /\ thr[t].at = "each" /\ thr[t].chat \in Chats
  BY DEF IInv, TypeOK, Directed, Snapshot
<1>2. /\ thr'[t].at = "apply" /\ thr'[t].cur = q /\ thr'[t].todo = thr[t].todo \ {q}
      /\ thr'[t].snap = Live(thr[t].chat) /\ thr'[t].chat = thr[t].chat
      /\ \A s \in Threads : s # t => thr'[s] = thr[s]
  BY <1>1 DEF ThreadState
<1>3. UNCHANGED <<peers, tracks, home, senders, torn>>
  BY DEF Snapshot, rooms, conns, history
<1> SUFFICES ASSUME NEW c \in Chats, NEW p, p \in Registered(c)'
             PROVE  SentOrOwed(c, p)' /\ StaleIsOwed(c, p)'
  BY DEF ConvInv
<1>4. p \in Registered(c) /\ p \in PCs /\ state[p] # "unused"
  <2>1. p \in Registered(c)
    BY <1>3 DEF Registered
  <2> QED
    BY <2>1, RegisteredUsed DEF Used
<1>5. \A s \in Threads : s # t => Late(s)
  BY <1>2 DEF Late
<1>6. \A s \in Threads : HandsOn(s)
  BY <1>2, <1>5, LateHandsOn DEF HandsOn
<1>7. ASSUME NEW s \in Threads, Owing(s, c, p) PROVE Owing(s, c, p)'
  <2>1. CASE s # t
    BY <1>3, <1>4, <1>5, <1>7, <2>1, OwingSame
  <2>2. CASE s = t
    <3>1. thr[t].chat = c /\ p \in thr[t].todo
      BY <1>1, <1>7, <2>2 DEF Owing
    <3>2. CASE p # q
      BY <1>2, <2>2, <3>1, <3>2 DEF Owing
    <3>3. CASE p = q
      <4>1. Live(c)' = Live(c)
        BY <1>3 DEF Live
      <4>2. Wanted(p, thr[t].snap)' = Wanted(p, Live(c))'
        BY <1>2, <3>1, <4>1 DEF Wanted
      <4> QED
        BY <1>2, <2>2, <3>1, <3>3, <4>2 DEF Owing
    <3> QED
      BY <3>2, <3>3
  <2> QED
    BY <2>1, <2>2
<1>8. Undisturbed(c, p)
  BY <1>3, <1>4, <1>7 DEF Undisturbed
<1> QED
  BY <1>6, <1>8, KeepOne

LEMMA ConvApply ==
  ASSUME IInv, IInv', WorkInv, WorkInv', Stays, ConvInv, NEW t \in Threads, Apply(t)
  PROVE  ConvInv'
<1> DEFINE calm == [thr[t] EXCEPT !.cur = None, !.snap = {}, !.late = FALSE]
<1>1. thr \in [Threads -> ThreadState] /\ thr[t].at = "apply" /\ thr[t].cur \in PCs
      /\ thr[t].todo \in SUBSET PCs /\ thr[t].late \in BOOLEAN
  BY DEF IInv, TypeOK, Directed, Apply, ThreadState
<1> PICK q \in PCs : q = thr[t].cur
  BY <1>1
<1> PICK todo \in SUBSET PCs : todo = thr[t].todo
  BY <1>1
<1>2. calm \in ThreadState /\ calm.chat = thr[t].chat
  BY <1>1 DEF ThreadState
<1>3. thr'[t] = Visit(calm, todo)
  BY <1>1 DEF Apply
<1> HIDE DEF calm
<1>4. /\ thr'[t].at # "apply"
      /\ todo # {} => thr'[t].at = "each" /\ thr'[t].todo = todo /\ thr'[t].chat = thr[t].chat
  BY <1>2, <1>3, VisitShape
<1>5. UNCHANGED <<peers, tracks, home>>
  BY DEF Apply, rooms
<1>6. \A s \in Threads : s # t => Late(s)
  BY OthersLate DEF Continue
<1>7. \A s \in Threads : HandsOn(s)
  BY <1>4, <1>6, LateHandsOn DEF HandsOn
<1> SUFFICES ASSUME NEW c \in Chats, NEW p, p \in Registered(c)'
             PROVE  SentOrOwed(c, p)' /\ StaleIsOwed(c, p)'
  BY DEF ConvInv
<1>8. p \in Registered(c) /\ p \in PCs /\ state[p] \notin {"unused", "closed"} /\ Used(p, c)
  <2>1. p \in Registered(c)
    BY <1>5 DEF Registered
  <2> QED
    BY <2>1, RegisteredUsed DEF Used
<1>9. ASSUME NEW s \in Threads, s # t, Owing(s, c, p) PROVE Owing(s, c, p)'
  BY <1>5, <1>6, <1>8, <1>9, OwingSame
<1>10. CASE p # q
  <2>1. ASSUME Owing(t, c, p) PROVE Owing(t, c, p)'
    <3>1. thr[t].chat = c /\ p \in todo
      BY <1>1, <1>10, <2>1 DEF Owing
    <3> QED
      BY <1>4, <3>1 DEF Owing
  <2>2. senders'[p] = senders[p] /\ (p \in torn => p \in torn')
    <3>1. CASE state[q] = "closed"
      BY <3>1 DEF Apply
    <3>2. CASE state[q] # "closed"
      <4>1. /\ senders' = [senders EXCEPT ![q] = Wanted(q, thr[t].snap)]
            /\ torn' \in {torn \union {q}, torn \ {q}}
        BY <3>2 DEF Apply
      <4> QED
        BY <4>1, <1>8, <1>10 DEF IInv, TypeOK
    <3> QED
      BY <3>1, <3>2
  <2>3. Undisturbed(c, p)
    BY <1>5, <1>8, <1>9, <2>1, <2>2 DEF Undisturbed
  <2> QED
    BY <1>7, <2>3, KeepOne
<1>11. CASE p = q
  <2>1. /\ senders' = [senders EXCEPT ![q] = Wanted(q, thr[t].snap)]
        /\ torn' = IF thr[t].late THEN torn \union {q} ELSE torn \ {q}
        /\ \A s \in Threads : s # t /\ thr[s].at = "apply" /\ thr[s].cur = q =>
             thr'[s] = [thr[s] EXCEPT !.late = TRUE]
    BY <1>8, <1>11 DEF Apply
  <2>2. StaleIsOwed(c, p)'
    <3> SUFFICES ASSUME NEW s \in Threads, thr'[s].at = "apply", thr'[s].cur = p
                 PROVE  thr'[s].late
      BY DEF StaleIsOwed
    <3>1. s # t
      BY <1>4
    <3>2. thr[s].at = "apply" /\ thr[s].cur = q
      BY <1>6, <1>11, <3>1, LateFields
    <3>3. thr'[s] = [thr[s] EXCEPT !.late = TRUE]
      BY <2>1, <3>1, <3>2
    <3> QED
      BY <1>1, <3>3 DEF ThreadState
  <2>3. SentOrOwed(c, p)'
    <3>1. CASE thr[t].late
      BY <1>11, <2>1, <3>1 DEF SentOrOwed
    <3>2. CASE ~thr[t].late
      <4>1. \/ Wanted(p, thr[t].snap) = Wanted(p, Live(c))
            \/ \E s \in Threads \ {t} : Owing(s, c, p)
        BY <1>1, <1>8, <1>11, <3>2 DEF ConvInv, StaleIsOwed
      <4>2. CASE Wanted(p, thr[t].snap) = Wanted(p, Live(c))
        <5>1. senders'[p] = Wanted(p, Live(c))
          BY <1>8, <1>11, <2>1, <4>2 DEF IInv, TypeOK
        <5>2. Wanted(p, Live(c))' = Wanted(p, Live(c))
          BY <1>5, <1>8, LiveSame
        <5> QED
          BY <5>1, <5>2 DEF SentOrOwed
      <4>3. CASE \E s \in Threads \ {t} : Owing(s, c, p)
        BY <1>9, <4>3 DEF SentOrOwed
      <4> QED
        BY <4>1, <4>2, <4>3
    <3> QED
      BY <3>1, <3>2
  <2> QED
    BY <2>2, <2>3
<1> QED
  BY <1>10, <1>11

LEMMA ConvRegister ==
  ASSUME IInv, IInv', WorkInv, WorkInv', Stays, ConvInv, Register
  PROVE  ConvInv'
<1> PICK c \in Chats, u \in Users, p \in PCs :
           c = thr[Loop].chat /\ u = thr[Loop].user /\ p = thr[Loop].pc
  BY LoopThread DEF IInv, TypeOK, Directed, Register
<1>1. /\ thr[Loop].at = "register" /\ thr'[Loop].at = "each" /\ thr'[Loop].chat = c
      /\ thr'[Loop].todo = {p} /\ \A t \in Threads : t # Loop => thr'[t] = thr[t]
  BY LoopThread DEF Register, IInv, TypeOK, ThreadState
<1>2. peers' = [peers EXCEPT ![c][u] = p] /\ UNCHANGED <<tracks, senders, torn>>
  BY DEF Register, conns, history
<1> SUFFICES ASSUME NEW d \in Chats, NEW q \in PCs, q \in Registered(d)'
             PROVE  \/ Due(Loop, d, q)'
                    \/ /\ q \in Registered(d) /\ tracks'[d] = tracks[d]
                       /\ senders'[q] = senders[q] /\ (q \in torn => q \in torn')
                       /\ Owing(Loop, d, q) => Owing(Loop, d, q)'
  BY <1>1, LoopThread, ConvMove
<1>3. (d = c /\ q = p) \/ q \in Registered(d)
  BY <1>2 DEF Registered, IInv, TypeOK
<1> QED
  BY <1>1, <1>2, <1>3, NotOwing DEF Due

LEMMA ConvAnswer ==
  ASSUME IInv, IInv', WorkInv, WorkInv', Stays, ConvInv,
         NEW c \in Chats, NEW u \in Users, Answer(c, u)
  PROVE  ConvInv'
<1> PICK p \in PCs : p = peers[c][u]
  BY DEF Answer, IInv, TypeOK
<1>1. UNCHANGED <<rooms, senders, torn>> /\ thr[Loop].at = "idle"
      /\ thr \in [Threads -> ThreadState]
  BY DEF Answer, history, IInv, TypeOK
<1>2. CASE p \in needsOffer
  <2>1. /\ thr'[Loop].at = "each" /\ \A s \in Threads : s # Loop => thr'[s] = thr[s]
    BY <1>1, <1>2, LoopThread DEF Answer, Resting
  <2> QED
    BY <1>1, <2>1, LoopThread, ConvElsewhere
<1>3. CASE p \notin needsOffer
  BY <1>1, <1>3, ConvStill DEF Answer
<1> QED
  BY <1>2, <1>3

LEMMA ConvNext ==
  ASSUME IInv, IInv', WorkInv, WorkInv', Stays, ConvInv, [Next]_vars
  PROVE  ConvInv'
<1>0. thr \in [Threads -> ThreadState] /\ thr[Loop] \in ThreadState
  BY LoopThread DEF IInv, TypeOK
<1>1. ASSUME NEW c \in Chats, NEW u \in Users, NEW next \in {"idle", "admit"}, Signal(c, u, next)
      PROVE  ConvInv'
  <2>1. thr[Loop].at = "idle" /\ UNCHANGED <<senders, torn>>
        /\ \A s \in Threads : s # Loop => thr'[s] = thr[s]
    BY <1>0, <1>1 DEF Signal, conns, history
  <2>2. CASE peers[c][u] = None
    <3> DEFINE r == [Resting EXCEPT !.at = next, !.chat = c, !.user = u]
    <3>1. r.at = next
      BY DEF Resting
    <3>2. thr' = [thr EXCEPT ![Loop] = r] /\ UNCHANGED rooms
      BY <1>1, <2>2 DEF Signal
    <3> HIDE DEF r
    <3>3. thr'[Loop].at # "apply"
      BY <1>0, <3>1, <3>2, LoopThread
    <3> QED
      BY <2>1, <3>2, <3>3, LoopThread, ConvElsewhere
  <2>3. CASE peers[c][u] # None
    <3> DEFINE r == Closing(c, u, peers[c][u], next)
    <3>0. r.at = "close" /\ r.chat = c
      BY DEF Closing, Resting
    <3>1. Deregister(c, u) /\ thr'[Loop].at = "close" /\ thr'[Loop].chat = c
      <4>1. Deregister(c, u) /\ thr' = [thr EXCEPT ![Loop] = r]
        BY <1>1, <2>3 DEF Signal
      <4> HIDE DEF r
      <4> QED
        BY <1>0, <3>0, <4>1, LoopThread
    <3> QED
      BY <2>1, <3>1, LoopThread, NotOwing, ConvRemoval
  <2> QED
    BY <2>2, <2>3
<1>2. ASSUME NEW c \in Chats, NEW u \in Users, Join(c, u) \/ Hangup(c, u) PROVE ConvInv'
  BY <1>1, <1>2 DEF Join, Hangup
<1>3. CASE Refuse
  <2>1. /\ thr'[Loop].at = "idle" /\ thr[Loop].at = "admit" /\ UNCHANGED <<rooms, senders, torn>>
        /\ \A s \in Threads : s # Loop => thr'[s] = thr[s]
    BY <1>0, <1>3, LoopThread DEF Refuse, Resting, conns, history
  <2> QED
    BY <2>1, LoopThread, ConvElsewhere
<1>4. ASSUME NEW p \in PCs, Admit(p) PROVE ConvInv'
  <2>1. /\ thr'[Loop].at = "register" /\ thr[Loop].at = "admit"
        /\ UNCHANGED <<rooms, senders, torn>>
        /\ \A s \in Threads : s # Loop => thr'[s] = thr[s]
    BY <1>0, <1>4, LoopThread DEF Admit, ThreadState, history
  <2> QED
    BY <2>1, LoopThread, ConvElsewhere
<1>5. CASE Shutdown
  BY <1>5, ConvEmpty DEF Shutdown
<1>6. ASSUME NEW p \in PCs, ShutdownClose(p) PROVE ConvInv'
  BY <1>6, LoopThread, ConvEmpty DEF ShutdownClose, rooms, IInv, RoomsGone
<1>7. ASSUME NEW t \in Threads, Close(t) PROVE ConvInv'
  <2> PICK p \in PCs : p = thr[t].pc
    BY <1>7 DEF Close, IInv, TypeOK, Directed
  <2>1. ~IsRegistered(p) /\ ClosePC(p, events)
    BY <1>7 DEF Close, IInv, Closers
  <2>2. /\ thr[t].at = "close" /\ UNCHANGED rooms
        /\ thr'[t] = Visit(thr[t], Registered(thr[t].chat))
        /\ \A s \in Threads : s # t => thr'[s] = thr[s]
    BY <1>0, <1>7 DEF Close
  <2>3. \A c \in Chats : \A q \in Registered(c) :
          senders'[q] = senders[q] /\ (q \in torn => q \in torn')
    BY <2>1, ClosedSent
  <2> QED
    BY <2>2, <2>3, ConvVisit
<1>8. ASSUME NEW t \in Threads, Spread(t) PROVE ConvInv'
  <2>1. /\ thr[t].at = "spread" /\ UNCHANGED <<rooms, senders, torn>>
        /\ thr'[t] = Visit(thr[t], Registered(thr[t].chat))
        /\ \A s \in Threads : s # t => thr'[s] = thr[s]
    BY <1>0, <1>8 DEF Spread, conns, history
  <2> QED
    BY <2>1, ConvVisit
<1>9. ASSUME NEW p \in PCs, RegisterTrack(p) PROVE ConvInv'
  <2> PICK c \in Chats, u \in Users : c = home[p].chat /\ u = home[p].user
    BY <1>9 DEF IInv, Homed, RegisterTrack
  <2>1. /\ Relay(p) \in Threads /\ thr[Relay(p)].at = "idle" /\ UNCHANGED <<peers, senders, torn>>
        /\ \A s \in Threads : s # Relay(p) => thr'[s] = thr[s]
    BY <1>0, <1>9, PCThreads DEF RegisterTrack, conns
  <2>2. CASE Registered(c) = {}
    <3>1. thr'[Relay(p)].at = "done" /\ UNCHANGED rooms
      BY <1>0, <1>9, <2>1, <2>2 DEF RegisterTrack, Ended, Resting, rooms
    <3> QED
      BY <2>1, <3>1, ConvElsewhere
  <2>3. CASE Registered(c) # {}
    <3>1. thr'[Relay(p)].at = "spread" /\ thr'[Relay(p)].chat = c
          /\ tracks' = [tracks EXCEPT ![c][u] = p]
      BY <1>0, <1>9, <2>1, <2>3 DEF RegisterTrack, Resting
    <3>2. \A d \in Chats : d # c => tracks'[d] = tracks[d]
      BY <3>1 DEF IInv, TypeOK
    <3> QED
      BY <2>1, <3>1, <3>2, ConvTrack
  <2> QED
    BY <2>2, <2>3
<1>10. ASSUME NEW p \in PCs, UnregisterTrack(p) PROVE ConvInv'
  <2>1. /\ Relay(p) \in Threads /\ thr[Relay(p)].at = "reading"
        /\ thr'[Relay(p)].at = "spread" /\ thr'[Relay(p)].chat = thr[Relay(p)].chat
        /\ UNCHANGED <<peers, senders, torn>>
        /\ \A s \in Threads : s # Relay(p) => thr'[s] = thr[s]
    BY <1>0, <1>10, PCThreads DEF UnregisterTrack, conns, history, ThreadState
  <2> PICK c \in Chats : c = thr[Relay(p)].chat
    BY <2>1 DEF IInv, TypeOK, Directed
  <2>2. home[p].chat = c
    BY <2>1 DEF WorkInv, Used
  <2>3. \A d \in Chats : d # c => tracks'[d] = tracks[d]
    BY <1>10, <2>2 DEF UnregisterTrack, IInv, TypeOK
  <2> QED
    BY <2>1, <2>3, ConvTrack
<1>11. ASSUME NEW p \in PCs, RemovePeer(p) PROVE ConvInv'
  <2> PICK c \in Chats, u \in Users : c = home[p].chat /\ u = home[p].user
    BY <1>11 DEF IInv, Homed, RemovePeer
  <2>1. CASE peers[c][u] = p
    <3>1. /\ Deregister(c, u) /\ UNCHANGED <<senders, torn>> /\ Remover(p) \in Threads
          /\ thr'[Remover(p)].at = "close" /\ thr'[Remover(p)].chat = c
          /\ \A s \in Threads : s # Remover(p) => thr'[s] = thr[s]
      BY <1>0, <1>11, <2>1, PCThreads DEF RemovePeer, Closing, Resting
    <3>2. \A d \in Chats, q \in PCs : Owing(Remover(p), d, q) => d = c
      BY DEF Owing, WorkInv, Used
    <3> QED
      BY <3>1, <3>2, ConvRemoval
  <2>2. CASE peers[c][u] # p
    <3>1. ~IsRegistered(p)
      <4> SUFFICES ASSUME NEW d \in Chats, NEW v \in Users, peers[d][v] = p PROVE FALSE
        BY DEF IsRegistered
      <4>1. home[p] = [chat |-> d, user |-> v]
        BY NoneFresh DEF IInv, RegisteredIsLive
      <4> QED
        BY <4>1, <2>2
    <3>2. ClosePC(p, events \ {p}) /\ UNCHANGED <<thr, rooms>>
      BY <1>11, <2>2 DEF RemovePeer
    <3> QED
      BY <3>1, <3>2, ClosedSent, ConvStill
  <2> QED
    BY <2>1, <2>2
<1>12. ASSUME NEW c \in Chats, NEW u \in Users, Ice(c, u) PROVE ConvInv'
  BY <1>12, ConvStill DEF Ice, history
<1>13. ASSUME NEW p \in PCs, Fail(p) PROVE ConvInv'
  BY <1>13, ConvStill DEF Fail, history
<1>14. CASE UNCHANGED vars
  BY <1>14, ConvStill DEF vars, conns, history
<1> QED
  BY <1>2, <1>3, <1>4, <1>5, <1>6, <1>7, <1>8, <1>9, <1>10, <1>11, <1>12, <1>13, <1>14,
     ConvRegister, ConvAnswer, ConvSnapshot, ConvApply DEF Next, Signals, Continue

SettleInv == IInv /\ WorkInv /\ ConvInv

LEMMA SettleInit == Init => SettleInv
<1> SUFFICES ASSUME Init PROVE SettleInv
  OBVIOUS
<1>1. \A t \in Threads : thr[t].at = "idle"
  BY DEF Init, Resting
<1>2. WorkInv
  BY <1>1, PCThreads DEF WorkInv, InRoom
<1>3. ConvInv
  BY DEF Init, ConvInv, Registered
<1> QED
  BY <1>2, <1>3, InitInv DEF SettleInv

LEMMA SettleNext == ASSUME SettleInv, [Next]_vars PROVE SettleInv'
<1>1. IInv' /\ Stays
  BY NextInv, StaysNext DEF SettleInv
<1>2. WorkInv'
  BY <1>1, WorkNext DEF SettleInv
<1> QED
  BY <1>1, <1>2, ConvNext DEF SettleInv

\* However the renegotiations of a room overlap with joins, departures and
\* tracks that come and go, once nobody is at work there each peer is sent the
\* audio of the others, or the last clone applied to it was overtaken.
THEOREM RoomsConverge == Spec => []SettledRoomsConverge
<1>1. ConvInv => SettledRoomsConverge
  <2> SUFFICES ASSUME ConvInv, NEW c \in Chats,
                      \A t \in Threads :
                        thr[t].chat = c => thr[t].at \in {"reading", "admit", "register"},
                      NEW p \in Registered(c), p \notin torn
               PROVE  senders[p] = Wanted(p, Live(c))
    BY DEF SettledRoomsConverge
  <2>1. \A t \in Threads : ~Owing(t, c, p)
    BY DEF Owing
  <2> QED
    BY <2>1 DEF ConvInv, SentOrOwed
<1>2. SettleInv => SettledRoomsConverge
  BY <1>1 DEF SettleInv
<1> QED
  BY <1>2, SettleInit, SettleNext, PTL DEF Spec

==============================================================================
