-------------------------- MODULE ChatService_proofs --------------------------
(***************************************************************************)
(* For any number of chats, users and handlers: the types, that the rows   *)
(* of a chat are never half there the wrong way round, and that a wrong    *)
(* cached list of chats or participants always has one of the causes       *)
(* StaleListExplained and WrongParticipantsExplained name.                 *)
(***************************************************************************)
EXTENDS ChatService, TLAPS

-----------------------------------------------------------------------------
(* The inductive invariant.                                                *)

\* TypeOK's part about one handler, where ids are those given out.
Fits(r, ids) ==
  /\ r.at = "fill" => r.key \in Keys
  /\ r.at \in {"unlink", "clear", "lookup", "group", "keep", "invalidate"} => r.chat \in ids
  /\ r.at = "clear" => r.caller \in Users

\* What a handler owes: only one that has written owes a list, only one that
\* goes through invalidateChat owes participants, one that looks for them owes
\* lists of its own chat, and one that owes more than it deletes says so.
Owing(r) ==
  /\ r.due # {} => r.at \in {"unlink", "lookup", "group", "keep", "invalidate"}
  /\ r.drop => r.at \in {"unlink", "invalidate"}
  /\ r.at \in {"lookup", "group", "keep"} =>
       r.due \subseteq KeysOf(r.chat) /\ (r.caller = None => r.due = {})
  /\ r.at \in {"unlink", "invalidate"} /\ ~r.drop /\ ~r.late => r.due \subseteq r.keys

\* A list that GetChats or GetGroups is about to cache is explained like a cached one.
StaleReadExplained ==
  \A q \in Handlers :
    h[q].at = "fill" /\ h[q].read # RowsOf(h[q].key) =>
      h[q].late \/ \E p \in Handlers : OwesList(p, h[q].key)

\* So are participants that GetParticipants is about to cache.
WrongReadExplained ==
  \A q \in Handlers :
    h[q].at = "keep" /\ h[q].ids # MembersOf(h[q].chat) =>
      h[q].late \/ \E p \in Handlers : OwesMembers(p, h[q].chat)

\* No id is used twice: once DeleteChat is past the row it never comes back, and
\* nobody has asked for the participants of a chat that is yet to be made.
RowInv ==
  /\ \A p \in Handlers : h[p].at = "unlink" => h[p].chat \notin stored
  /\ \A c \in Chats : members[c] # NoEntry => c \in spent
  /\ ChatHasConversation

IInv ==
  /\ TypeOK
  /\ \A p \in Handlers : Owing(h[p])
  /\ RowInv
  /\ StaleListExplained /\ StaleReadExplained
  /\ WrongParticipantsExplained /\ WrongReadExplained

-----------------------------------------------------------------------------
(* Types, and what a handler owes.                                         *)

USE KindType, MembersType, NoneFresh

LEMMA KeysOfType == ASSUME NEW c \in Chats PROVE KeysOf(c) \subseteq Keys
  BY DEF KeysOf, Keys

LEMMA BothOfType == ASSUME NEW users PROVE BothOf(users) \subseteq Keys
  BY DEF BothOf

\* The lists of a chat are among both lists of its members.
LEMMA KeysOfMembers == ASSUME NEW c \in Chats PROVE KeysOf(c) \subseteq BothOf(Members[c])
  BY KeysOfType DEF KeysOf, BothOf

LEMMA RowsOfType == ASSUME TypeOK, NEW k \in Keys PROVE RowsOf(k) \subseteq Entries
  BY DEF TypeOK, RowsOf, Entries

LEMMA MembersOfType == ASSUME NEW c \in Chats PROVE MembersOf(c) \subseteq Users
  BY DEF MembersOf

\* The records handlers are given.
LEMMA IdleOK ==
  /\ Idle \in HandlerState /\ Owing(Idle) /\ \A ids : Fits(Idle, ids)
  /\ Idle.at = "idle" /\ Idle.due = {} /\ ~Idle.drop
  BY DEF Idle, HandlerState, Steps, Owing, Fits

\* One that owes no more than it deletes.
Forgetting(c, due, keys) == Invalidating(c, due, keys, FALSE)

LEMMA ForgettingOK ==
  ASSUME NEW c \in Chats, NEW due \in SUBSET Keys, NEW keys \in SUBSET Keys, due \subseteq keys
  PROVE  LET r == Forgetting(c, due, keys) IN
           /\ r \in HandlerState /\ Owing(r) /\ \A s : c \in s => Fits(r, s)
           /\ r.at = "invalidate" /\ r.chat = c /\ r.due = due /\ ~r.drop
<1> DEFINE r == Forgetting(c, due, keys)
<1>1. /\ r \in HandlerState
      /\ r.at = "invalidate" /\ r.chat = c /\ r.due = due /\ r.keys = keys /\ ~r.drop
  BY DEF Forgetting, Invalidating, Idle, HandlerState, Steps
<1> HIDE DEF r
<1>2. Owing(r) /\ \A s : c \in s => Fits(r, s)
  BY <1>1 DEF Owing, Fits
<1> QED
  BY <1>1, <1>2 DEF r

LEMMA InvalidateChatOK ==
  ASSUME NEW c \in Chats, NEW due \in SUBSET Keys, NEW u
  PROVE  LET r == InvalidateChat(c, u, due) IN
           /\ r \in HandlerState /\ Owing(r) /\ \A ids : c \in ids => Fits(r, ids)
           /\ r.at = "invalidate" /\ r.chat = c /\ r.due = due /\ r.drop
<1> DEFINE r == InvalidateChat(c, u, due)
<1>1. BothOf({u}) \subseteq Keys
  BY BothOfType
<1>2. /\ r \in HandlerState
      /\ r.at = "invalidate" /\ r.chat = c /\ r.due = due /\ r.drop
  BY <1>1 DEF InvalidateChat, Invalidating, Idle, HandlerState, Steps
<1> HIDE DEF r
<1>3. Owing(r) /\ \A ids : c \in ids => Fits(r, ids)
  BY <1>2 DEF Owing, Fits
<1> QED
  BY <1>2, <1>3 DEF r

\* A reader that has been overtaken.
LEMMA LateOK ==
  ASSUME NEW t \in HandlerState, Owing(t)
  PROVE  LET r == [t EXCEPT !.late = TRUE] IN
           /\ r \in HandlerState /\ Owing(r) /\ \A ids : Fits(t, ids) => Fits(r, ids)
           /\ r.at = t.at /\ r.chat = t.chat /\ r.key = t.key /\ r.read = t.read
           /\ r.ids = t.ids /\ r.due = t.due /\ r.drop = t.drop /\ r.late
<1> DEFINE r == [t EXCEPT !.late = TRUE]
<1>1. /\ r \in HandlerState
      /\ r.at = t.at /\ r.chat = t.chat /\ r.key = t.key /\ r.read = t.read
      /\ r.ids = t.ids /\ r.caller = t.caller /\ r.due = t.due /\ r.keys = t.keys
      /\ r.drop = t.drop /\ r.late
  BY DEF HandlerState
<1> HIDE DEF r
<1>2. Owing(r)
  BY <1>1 DEF Owing
<1>3. \A ids : Fits(t, ids) => Fits(r, ids)
  BY <1>1 DEF Fits
<1> QED
  BY <1>1, <1>2, <1>3 DEF r

\* One that has asked for participants goes on owing what it owed.
LEMMA KnownOK ==
  ASSUME NEW t \in HandlerState, Owing(t), t.at \in {"lookup", "group", "keep"},
         t.chat \in Chats, NEW ids \in SUBSET Users
  PROVE  LET r == Known(t, ids) IN
           /\ r \in HandlerState /\ Owing(r) /\ \A s : t.chat \in s => Fits(r, s)
           /\ r.at \in {"idle", "invalidate"} /\ r.due = t.due /\ ~r.drop
<1>1. CASE t.caller = None
  BY <1>1, IdleOK DEF Known, Owing
<1>2. CASE t.caller # None
  <2> DEFINE whose == IF ids = {} THEN {t.caller} ELSE ids
             late == ids # Members[t.chat]
             r == Known(t, ids)
  <2>1. BothOf(whose) \subseteq Keys /\ t.due \subseteq Keys /\ late \in BOOLEAN
    BY BothOfType DEF HandlerState
  <2>2. ~late => t.due \subseteq BothOf(whose)
    BY KeysOfMembers DEF Owing, KeysOf
  <2>3. r = [at |-> "invalidate", chat |-> t.chat, key |-> <<>>, read |-> {}, ids |-> {},
             caller |-> None, due |-> t.due, keys |-> BothOf(whose), drop |-> FALSE,
             late |-> late]
    BY <1>2 DEF Known, Invalidating, Idle
  <2> HIDE DEF r, late, whose
  <2> QED
    BY <2>1, <2>2, <2>3 DEF r, HandlerState, Steps, Owing, Fits
<1> QED
  BY <1>1, <1>2

\* What IInv says of the handlers, and how a step keeps it.
HandlersOK ==
  /\ h \in [Handlers -> HandlerState]
  /\ \A p \in Handlers : Fits(h[p], spent) /\ Owing(h[p])

TypeInv == TypeOK /\ \A p \in Handlers : Owing(h[p])

LEMMA TypeHandlers == ASSUME TypeInv PROVE HandlersOK
  BY DEF TypeInv, TypeOK, HandlersOK, Fits

LEMMA BecomeOK ==
  ASSUME HandlersOK, NEW p \in Handlers, NEW next \in HandlerState, spent \subseteq spent',
         Fits(next, spent'), Owing(next), h' = [h EXCEPT ![p] = next]
  PROVE  HandlersOK'
  BY DEF HandlersOK, Fits

LEMMA PassOK ==
  ASSUME HandlersOK, NEW p \in Handlers, Pass(p, Idle), spent' = spent
  PROVE  HandlersOK'
<1>1. ASSUME NEW q \in Handlers
      PROVE  /\ h'[q] \in HandlerState /\ Fits(h'[q], spent') /\ Owing(h'[q])
  <2>1. /\ Idle \in HandlerState /\ Fits(Idle, spent') /\ Owing(Idle)
    BY IdleOK
  <2>2. /\ [h[q] EXCEPT !.late = TRUE] \in HandlerState
        /\ Fits([h[q] EXCEPT !.late = TRUE], spent')
        /\ Owing([h[q] EXCEPT !.late = TRUE])
    BY LateOK DEF HandlersOK
  <2>3. h'[q] = Idle \/ h'[q] = [h[q] EXCEPT !.late = TRUE] \/ h'[q] = h[q]
    BY DEF Pass
  <2> QED
    BY <2>1, <2>2, <2>3 DEF HandlersOK
<1>2. h' = [q \in Handlers |-> h'[q]]
  BY DEF Pass
<1> QED
  BY <1>1, <1>2 DEF HandlersOK

-----------------------------------------------------------------------------
(* Most steps of a handler cache nothing and delete nothing: it goes on as *)
(* next, which owes what it owed and every list and chat the step changed. *)
Quietly(p, next) ==
  /\ h' = [h EXCEPT ![p] = next]
  /\ Fits(next, spent') /\ Owing(next)
  /\ next.at # "fill"
  /\ next.at = "keep" =>
       stored' = stored /\ (next.ids # MembersOf(next.chat) => next.late)
  /\ next.at = "unlink" => next.chat \notin stored'
  /\ h[p].due \subseteq next.due
  /\ h[p].drop => next.drop /\ next.chat = h[p].chat
  /\ \A k \in Keys : RowsOf(k)' = RowsOf(k) \/ k \in next.due
  /\ \A c \in stored \ stored' : next.drop /\ next.chat = c
  /\ UNCHANGED <<lists, members, history>>

\* The tables keep their types, ids are not given out twice, and a chat that is
\* there has its conversation.
TablesOK ==
  /\ stored' \subseteq spent' /\ spent' \subseteq Chats /\ conversations' \subseteq spent'
  /\ last' \in [Chats -> Texts \union {None}]
  /\ spent \subseteq spent' /\ stored' \intersect spent \subseteq stored
  /\ stored' \subseteq conversations'

LEMMA QuietInv ==
  ASSUME IInv, NEW p \in Handlers, NEW next \in HandlerState, Quietly(p, next), TablesOK
  PROVE  IInv'
<1>1. HandlersOK'
  <2>1. HandlersOK
    BY TypeHandlers DEF IInv, TypeInv
  <2> QED
    BY <2>1, BecomeOK DEF Quietly, TablesOK
<1>2. TypeOK' /\ \A q \in Handlers : Owing(h[q])'
  BY <1>1 DEF IInv, TypeOK, HandlersOK, Fits, Quietly, TablesOK, history
<1>3. /\ h'[p] = next
      /\ \A q \in Handlers \ {p} : h'[q] = h[q]
  BY DEF IInv, TypeOK, Quietly
<1>4. \A q \in Handlers, k \in Keys : OwesList(q, k) => OwesList(q, k)'
  BY <1>3 DEF Quietly, OwesList
<1>5. \A q \in Handlers, c \in spent : OwesMembers(q, c) => OwesMembers(q, c)'
  BY <1>3 DEF Quietly, OwesMembers, TablesOK
<1>6. \A c \in spent : MembersOf(c)' = MembersOf(c) \/ OwesMembers(p, c)'
  BY <1>3 DEF Quietly, TablesOK, MembersOf, OwesMembers
<1>7. \A k \in Keys : RowsOf(k)' = RowsOf(k) \/ OwesList(p, k)'
  BY <1>3 DEF Quietly, OwesList
<1>8. RowInv'
  <2>1. \A q \in Handlers : h'[q].at = "unlink" => h'[q].chat \notin stored'
    <3>1. ASSUME NEW q \in Handlers \ {p}, h[q].at = "unlink" PROVE h[q].chat \notin stored'
      BY <3>1 DEF IInv, RowInv, TypeOK, TablesOK
    <3> QED
      BY <1>3, <3>1 DEF Quietly
  <2>2. \A c \in Chats : members'[c] # NoEntry => c \in spent'
    BY DEF IInv, RowInv, Quietly, TablesOK
  <2> QED
    BY <2>1, <2>2 DEF RowInv, ChatHasConversation, TablesOK
<1>9. StaleListExplained'
  BY <1>4, <1>7 DEF IInv, StaleListExplained, Quietly, history
<1>10. StaleReadExplained'
  <2>1. ASSUME NEW q \in Handlers, h'[q].at = "fill", h'[q].read # RowsOf(h[q].key)'
        PROVE  h'[q].late \/ \E r \in Handlers : OwesList(r, h[q].key)'
    <3>1. h'[q] = h[q] /\ h[q].key \in Keys
      BY <1>3, <2>1 DEF Quietly, IInv, TypeOK
    <3>2. CASE RowsOf(h[q].key)' = RowsOf(h[q].key)
      BY <1>4, <2>1, <3>1, <3>2 DEF IInv, StaleReadExplained
    <3>3. CASE OwesList(p, h[q].key)'
      BY <3>1, <3>3
    <3> QED
      BY <1>7, <3>1, <3>2, <3>3
  <2> QED
    BY <2>1 DEF StaleReadExplained
<1>11. WrongParticipantsExplained'
  <2>1. ASSUME NEW c \in Chats, members'[c] # NoEntry, members'[c] # MembersOf(c)'
        PROVE  c \in misread' \/ \E q \in Handlers : OwesMembers(q, c)'
    <3>1. members'[c] = members[c] /\ misread' = misread /\ c \in spent
      BY <2>1 DEF Quietly, history, IInv, RowInv
    <3>2. CASE MembersOf(c)' = MembersOf(c)
      BY <1>5, <2>1, <3>1, <3>2 DEF IInv, WrongParticipantsExplained
    <3> QED
      BY <1>6, <3>1, <3>2
  <2> QED
    BY <2>1 DEF WrongParticipantsExplained
<1>12. WrongReadExplained'
  <2>1. ASSUME NEW q \in Handlers, h'[q].at = "keep", h'[q].ids # MembersOf(h[q].chat)'
        PROVE  h'[q].late \/ \E r \in Handlers : OwesMembers(r, h[q].chat)'
    <3>1. CASE q = p
      BY <1>3, <2>1, <3>1 DEF Quietly, MembersOf
    <3>2. CASE q # p
      <4>1. h'[q] = h[q] /\ h[q].chat \in spent
        BY <1>3, <2>1, <3>2 DEF IInv, TypeOK
      <4>2. CASE MembersOf(h[q].chat)' = MembersOf(h[q].chat)
        BY <1>5, <2>1, <4>1, <4>2 DEF IInv, WrongReadExplained
      <4> QED
        BY <1>6, <4>1, <4>2
    <3> QED
      BY <3>1, <3>2
  <2> QED
    BY <2>1 DEF WrongReadExplained
<1> QED
  BY <1>2, <1>8, <1>9, <1>10, <1>11, <1>12 DEF IInv

\* Which actions these are.
Quiet(p) == TablesOK /\ \E next \in HandlerState : Quietly(p, next)

\* A step that leaves the tables alone.
LEMMA SameTables ==
  ASSUME IInv, UNCHANGED tables
  PROVE  /\ TablesOK
         /\ \A k \in Keys : RowsOf(k)' = RowsOf(k)
         /\ \A c \in Chats : MembersOf(c)' = MembersOf(c)
  BY DEF tables, TablesOK, RowsOf, MembersOf, IInv, TypeOK, RowInv, ChatHasConversation

LEMMA Quieter ==
  ASSUME IInv, NEW p \in Handlers, NEW next \in HandlerState, h' = [h EXCEPT ![p] = next],
         Fits(next, spent), Owing(next), next.at \notin {"fill", "keep", "unlink"},
         h[p].due \subseteq next.due, ~h[p].drop,
         UNCHANGED <<tables, lists, members, history>>
  PROVE  Quiet(p)
<1>1. /\ TablesOK
      /\ \A k \in Keys : RowsOf(k)' = RowsOf(k)
  BY SameTables
<1>2. Quietly(p, next)
  BY <1>1 DEF Quietly, tables
<1> QED
  BY <1>1, <1>2 DEF Quiet

\* The first step of a handler that only looks.
LEMMA LooksQuietly ==
  ASSUME IInv, NEW p \in Handlers,
         \/ \E pair \in Pairs : CreateLook(p, pair)
         \/ \E u \in Users, c \in Chats : ClearCheck(p, u, c)
         \/ \E c \in Chats : GetParticipants(p, c)
  PROVE  Quiet(p)
<1>1. h[p] \in HandlerState /\ Owing(h[p]) /\ h[p].at = "idle"
  BY DEF IInv, TypeOK, CreateLook, ClearCheck, GetParticipants
<1>2. h[p].due = {} /\ ~h[p].drop
  BY <1>1 DEF Owing
<1>3. ASSUME NEW pair \in Pairs, CreateLook(p, pair) PROVE Quiet(p)
  <2> DEFINE next == [Idle EXCEPT !.at = "create", !.ids = pair]
  <2>1. pair \in SUBSET Users
    BY DEF Pairs
  <2>2. next \in HandlerState /\ next.at = "create" /\ next.due = {} /\ ~next.drop
    BY <2>1 DEF Idle, HandlerState, Steps
  <2> HIDE DEF next
  <2>3. Owing(next) /\ Fits(next, spent)
    BY <2>2 DEF Owing, Fits
  <2>4. h' = [h EXCEPT ![p] = next] /\ UNCHANGED <<tables, lists, members, history>>
    BY <1>3 DEF next, CreateLook, Become
  <2> QED
    BY <1>2, <2>2, <2>3, <2>4, Quieter
<1>4. ASSUME NEW u \in Users, NEW c \in Chats, ClearCheck(p, u, c) PROVE Quiet(p)
  <2> DEFINE next == [Idle EXCEPT !.at = "clear", !.chat = c, !.caller = u]
  <2>1. /\ next \in HandlerState /\ next.at = "clear" /\ next.chat = c /\ next.caller = u
        /\ next.due = {} /\ ~next.drop
    BY DEF Idle, HandlerState, Steps
  <2> HIDE DEF next
  <2>2. Owing(next) /\ Fits(next, spent)
    BY <1>4, <2>1 DEF Owing, Fits, IInv, TypeOK, ClearCheck
  <2>3. h' = [h EXCEPT ![p] = next] /\ UNCHANGED <<tables, lists, members, history>>
    BY <1>4 DEF next, ClearCheck, Become
  <2> QED
    BY <1>2, <2>1, <2>2, <2>3, Quieter
<1>5. ASSUME NEW c \in Chats, GetParticipants(p, c) PROVE Quiet(p)
  <2> DEFINE next == [Idle EXCEPT !.at = "lookup", !.chat = c]
  <2>1. /\ next \in HandlerState /\ next.at = "lookup" /\ next.chat = c
        /\ next.due = {} /\ ~next.drop
    BY DEF Idle, HandlerState, Steps
  <2> HIDE DEF next
  <2>2. Owing(next) /\ Fits(next, spent)
    BY <1>5, <2>1 DEF Owing, Fits, GetParticipants
  <2>3. h' = [h EXCEPT ![p] = next] /\ UNCHANGED <<tables, lists, members, history>>
    BY <1>5 DEF next, GetParticipants, Become
  <2> QED
    BY <1>2, <2>1, <2>2, <2>3, Quieter
<1> QED
  BY <1>3, <1>4, <1>5

\* GetParticipants on its way, for a client or for UpdateLastMessage.
LEMMA LookupQuietly ==
  ASSUME IInv, NEW p \in Handlers,
         LookupHit(p) \/ LookupChat(p) \/ LookupGroup(p) \/ LookupFails(p)
  PROVE  Quiet(p)
<1>1. PICK c \in Chats : /\ c = h[p].chat /\ c \in spent
                        /\ h[p] \in HandlerState /\ Owing(h[p])
                        /\ h[p].at \in {"lookup", "group"}
  BY DEF IInv, TypeOK, LookupHit, LookupChat, LookupGroup, LookupFails
<1>2. ~h[p].drop /\ h[p].due \subseteq KeysOf(c) /\ (h[p].caller = None => h[p].due = {})
  BY <1>1 DEF Owing
<1>3. ASSUME NEW ids \in SUBSET Users, h' = [h EXCEPT ![p] = Known(h[p], ids)],
             UNCHANGED <<tables, lists, members, history>>
      PROVE  Quiet(p)
  <2> DEFINE next == Known(h[p], ids)
  <2>1. /\ next \in HandlerState /\ Owing(next) /\ \A s : c \in s => Fits(next, s)
        /\ next.at \in {"idle", "invalidate"} /\ next.due = h[p].due
    BY <1>1, KnownOK
  <2> HIDE DEF next
  <2>2. h' = [h EXCEPT ![p] = next]
    BY <1>3 DEF next
  <2> QED
    BY <1>1, <1>2, <1>3, <2>1, <2>2, Quieter
<1>4. ASSUME NEW ids \in SUBSET Users, NEW late \in BOOLEAN,
             ids # MembersOf(c) => late,
             h' = [h EXCEPT ![p] = [h[p] EXCEPT !.at = "keep", !.ids = ids, !.late = late]],
             UNCHANGED <<tables, lists, members, history>>
      PROVE  Quiet(p)
  <2> DEFINE next == [h[p] EXCEPT !.at = "keep", !.ids = ids, !.late = late]
  <2>1. /\ next \in HandlerState /\ next.at = "keep" /\ next.chat = c /\ next.ids = ids
        /\ next.caller = h[p].caller /\ next.due = h[p].due /\ ~next.drop
        /\ next.late = late
    BY <1>1, <1>2 DEF HandlerState, Steps
  <2>2. h' = [h EXCEPT ![p] = next]
    BY <1>4
  <2> HIDE DEF next
  <2>3. Owing(next) /\ Fits(next, spent)
    BY <1>1, <1>2, <2>1 DEF Owing, Fits
  <2>4. /\ TablesOK /\ stored' = stored /\ spent' = spent
        /\ MembersOf(c)' = MembersOf(c) /\ \A k \in Keys : RowsOf(k)' = RowsOf(k)
    BY <1>4, SameTables DEF tables
  <2>5. MembersOf(next.chat) = MembersOf(c)
    BY <2>1, <2>4 DEF MembersOf
  <2>6. Fits(next, spent')
    BY <2>3, <2>4
  <2>7. Quietly(p, next)
    BY <1>2, <1>4, <2>1, <2>2, <2>3, <2>4, <2>5, <2>6 DEF Quietly
  <2> QED
    BY <2>1, <2>4, <2>7 DEF Quiet
<1>5. CASE LookupHit(p)
  <2>1. members[c] \in SUBSET Users
    BY <1>1, <1>5 DEF LookupHit, IInv, TypeOK
  <2> QED
    BY <1>1, <1>3, <1>5, <2>1 DEF LookupHit, Become
<1>6. CASE LookupChat(p)
  <2>1. CASE /\ c \in stored
             /\ h' = [h EXCEPT ![p] = [h[p] EXCEPT !.at = "keep", !.ids = Members[c]]]
    <3> DEFINE next == [h[p] EXCEPT !.at = "keep", !.ids = Members[c]]
    <3>1. /\ next \in HandlerState /\ next.at = "keep" /\ next.chat = c /\ next.ids = Members[c]
          /\ next.caller = h[p].caller /\ next.due = h[p].due /\ ~next.drop
      BY <1>1, <1>2 DEF HandlerState, Steps
    <3>2. h' = [h EXCEPT ![p] = next]
      BY <2>1
    <3> HIDE DEF next
    <3>3. Owing(next) /\ Fits(next, spent)
      BY <1>1, <1>2, <3>1 DEF Owing, Fits
    <3>4. /\ TablesOK /\ stored' = stored /\ spent' = spent
          /\ MembersOf(c)' = MembersOf(c) /\ \A k \in Keys : RowsOf(k)' = RowsOf(k)
      BY <1>1, <1>6, SameTables DEF tables, LookupChat
    <3>5. MembersOf(c) = Members[c]
      BY <2>1 DEF MembersOf
    <3>6. MembersOf(next.chat) = next.ids
      BY <3>1, <3>4, <3>5 DEF MembersOf
    <3>7. Fits(next, spent')
      BY <3>3, <3>4
    <3>8. Quietly(p, next)
      BY <1>2, <1>6, <3>1, <3>2, <3>3, <3>4, <3>6, <3>7 DEF Quietly, LookupChat
    <3> QED
      BY <3>1, <3>4, <3>8 DEF Quiet
  <2>2. CASE h' = [h EXCEPT ![p].at = "group"]
    <3> DEFINE next == [h[p] EXCEPT !.at = "group"]
    <3>1. /\ next \in HandlerState /\ next.at = "group" /\ next.chat = c
          /\ next.caller = h[p].caller /\ next.due = h[p].due /\ ~next.drop
      BY <1>1, <1>2 DEF HandlerState, Steps
    <3>2. h' = [h EXCEPT ![p] = next]
      BY <2>2
    <3> HIDE DEF next
    <3>3. Owing(next) /\ Fits(next, spent)
      BY <1>1, <1>2, <3>1 DEF Owing, Fits
    <3> QED
      BY <1>2, <1>6, <3>1, <3>2, <3>3, Quieter DEF LookupChat
  <2> QED
    BY <1>1, <1>6, <2>1, <2>2 DEF LookupChat
<1>7. CASE LookupGroup(p)
  <2>1. PICK ids \in SUBSET (IF Kind[c] = "groups" THEN MembersOf(c) ELSE {}) :
           h' = [h EXCEPT ![p] = [h[p] EXCEPT !.at = "keep", !.ids = ids,
                                              !.late = ids # MembersOf(c)]]
    BY <1>1, <1>7 DEF LookupGroup
  <2>2. ids \in SUBSET Users
    BY <1>1, MembersOfType
  <2>3. PICK late \in BOOLEAN : late = (ids # MembersOf(c))
    OBVIOUS
  <2>4. h' = [h EXCEPT ![p] = [h[p] EXCEPT !.at = "keep", !.ids = ids, !.late = late]]
    BY <2>1, <2>3
  <2> QED
    BY <1>4, <1>7, <2>2, <2>3, <2>4 DEF LookupGroup
<1>8. CASE LookupFails(p)
  <2>1. h' = [h EXCEPT ![p] = Known(h[p], {})] /\ UNCHANGED <<tables, lists, members, history>>
    BY <1>8 DEF LookupFails, Become
  <2>2. {} \in SUBSET Users
    OBVIOUS
  <2> QED
    BY <1>3, <2>1, <2>2
<1> QED
  BY <1>5, <1>6, <1>7, <1>8

\* A new chat changes the lists of its members, and nobody has its participants.
LEMMA StoreTables ==
  ASSUME IInv, NEW c \in Chats, Store(c)
  PROVE  /\ TablesOK
         /\ \A k \in Keys : RowsOf(k)' = RowsOf(k) \/ k \in KeysOf(c)
         /\ stored \ stored' = {}
<1>1. TablesOK /\ stored \ stored' = {}
  BY DEF Store, TablesOK, IInv, TypeOK, RowInv, ChatHasConversation
<1>2. ASSUME NEW k \in Keys, k \notin KeysOf(c) PROVE RowsOf(k)' = RowsOf(k)
  <2>1. {d \in stored' : k \in KeysOf(d)} = {d \in stored : k \in KeysOf(d)}
    BY <1>2 DEF Store
  <2> QED
    BY <2>1 DEF Store, RowsOf
<1> QED
  BY <1>1, <1>2

LEMMA CreateQuietly ==
  ASSUME IInv, NEW p \in Handlers, NEW c \in Chats, CreateInsert(p, c) \/ CreateGroup(p, c)
  PROVE  Quiet(p)
<1>1. KeysOf(c) \in SUBSET Keys /\ KeysOf(c) \subseteq KeysOf(c)
  BY KeysOfType
<1> DEFINE r == Forgetting(c, KeysOf(c), KeysOf(c))
<1>2. /\ r \in HandlerState /\ Owing(r) /\ Fits(r, spent')
      /\ r.at = "invalidate" /\ r.due = KeysOf(c)
  <2>1. c \in spent'
    BY DEF CreateInsert, CreateGroup, Store
  <2> QED
    BY <1>1, <2>1, ForgettingOK
<1>3. PICK next \in HandlerState : next = r
  BY <1>2
<1>4. /\ Owing(next) /\ Fits(next, spent')
      /\ next.at = "invalidate" /\ next.due = KeysOf(c)
  BY <1>2, <1>3
<1>5. /\ Store(c) /\ h' = [h EXCEPT ![p] = next] /\ UNCHANGED <<lists, members, history>>
      /\ h[p].at \in {"create", "idle"} /\ h[p] \in HandlerState /\ Owing(h[p])
  BY <1>3 DEF Forgetting, CreateInsert, CreateGroup, Become, IInv, TypeOK
<1>6. h[p].due = {} /\ ~h[p].drop
  BY <1>5 DEF Owing
<1>7. /\ TablesOK /\ c \in spent' /\ stored \ stored' = {}
      /\ \A k \in Keys : RowsOf(k)' = RowsOf(k) \/ k \in KeysOf(c)
  BY <1>5, StoreTables DEF Store
<1>8. Quietly(p, next)
  BY <1>4, <1>5, <1>6, <1>7 DEF Quietly
<1> QED
  BY <1>7, <1>8 DEF Quiet

LEMMA DeleteQuietly ==
  ASSUME IInv, NEW p \in Handlers, NEW u \in Users, NEW c \in Chats, DeleteRow(p, u, c)
  PROVE  Quiet(p)
<1>1. KeysOf(c) \in SUBSET Keys /\ c \in spent
  BY KeysOfType DEF DeleteRow, IInv, TypeOK
<1>2. PICK r \in HandlerState : r = InvalidateChat(c, u, KeysOf(c))
  BY <1>1, InvalidateChatOK
<1>3. r.at = "invalidate" /\ r.chat = c /\ r.due = KeysOf(c) /\ r.drop
  BY <1>1, <1>2, InvalidateChatOK
<1>4. PICK next \in HandlerState :
        next = [r EXCEPT !.at = "unlink"]
  BY DEF HandlerState, Steps
<1>5. next.at = "unlink" /\ next.chat = c /\ next.due = KeysOf(c) /\ next.drop
  BY <1>3, <1>4 DEF HandlerState
<1>6. Owing(next) /\ Fits(next, spent)
  BY <1>1, <1>5 DEF Owing, Fits
<1>7. /\ h' = [h EXCEPT ![p] = next] /\ UNCHANGED <<spent, conversations, lists, members, history>>
      /\ stored' = stored \ {c} /\ last' = [last EXCEPT ![c] = None]
      /\ h[p].at = "idle" /\ h[p] \in HandlerState /\ Owing(h[p])
  BY <1>2, <1>4 DEF DeleteRow, Become, IInv, TypeOK
<1>8. h[p].due = {} /\ ~h[p].drop
  BY <1>7 DEF Owing
<1>9. TablesOK
  BY <1>7 DEF TablesOK, IInv, TypeOK, RowInv, ChatHasConversation
<1>10. ASSUME NEW k \in Keys, k \notin KeysOf(c) PROVE RowsOf(k)' = RowsOf(k)
  <2>1. {d \in stored' : k \in KeysOf(d)} = {d \in stored : k \in KeysOf(d)}
    BY <1>7, <1>10
  <2>2. \A d \in stored : k \in KeysOf(d) => last'[d] = last[d]
    BY <1>7, <1>10 DEF IInv, TypeOK
  <2> QED
    BY <2>1, <2>2 DEF RowsOf
<1>11. Quietly(p, next)
  BY <1>5, <1>6, <1>7, <1>8, <1>10 DEF Quietly
<1> QED
  BY <1>9, <1>11 DEF Quiet

\* The DELETE of the conversation, after that of the row.
LEMMA UnlinkQuietly ==
  ASSUME IInv, NEW p \in Handlers, DeleteConversation(p)
  PROVE  Quiet(p)
<1>1. /\ h[p] \in HandlerState /\ Owing(h[p]) /\ h[p].at = "unlink"
      /\ h[p].chat \in spent /\ h[p].chat \notin stored
  BY DEF DeleteConversation, IInv, TypeOK, RowInv
<1>2. PICK next \in HandlerState : next = [h[p] EXCEPT !.at = "invalidate"]
  BY <1>1 DEF HandlerState, Steps
<1>3. /\ next.at = "invalidate" /\ next.chat = h[p].chat /\ next.due = h[p].due
      /\ next.drop = h[p].drop /\ next.late = h[p].late /\ next.keys = h[p].keys
  BY <1>1, <1>2 DEF HandlerState
<1>4. Owing(next) /\ Fits(next, spent)
  BY <1>1, <1>3 DEF Owing, Fits
<1>5. /\ h' = [h EXCEPT ![p] = next] /\ UNCHANGED <<stored, spent, last, lists, members, history>>
      /\ conversations \ {h[p].chat} \subseteq conversations' /\ conversations' \subseteq conversations
  BY <1>2 DEF DeleteConversation
<1>6. TablesOK
  BY <1>1, <1>5 DEF TablesOK, IInv, TypeOK, RowInv, ChatHasConversation
<1>7. \A k \in Keys : RowsOf(k)' = RowsOf(k)
  BY <1>5 DEF RowsOf
<1>8. Quietly(p, next)
  BY <1>1, <1>3, <1>4, <1>5, <1>7 DEF Quietly
<1> QED
  BY <1>6, <1>8 DEF Quiet

\* The UPDATEs of ClearChat and UpdateLastMessage change the lists they say.
LEMMA UpdatesTables ==
  ASSUME IInv, NEW c \in Chats, NEW text \in Texts \union {None}, NEW due \in SUBSET Keys,
         Updates(c, text, due), UNCHANGED <<stored, spent, conversations>>
  PROVE  /\ TablesOK
         /\ \A k \in Keys : RowsOf(k)' = RowsOf(k) \/ k \in due
         /\ due \subseteq KeysOf(c)
<1>1. CASE last' = last /\ due = {}
  BY <1>1, SameTables DEF tables
<1>2. CASE last' = [last EXCEPT ![c] = text] /\ due = KeysOf(c)
  <2>1. TablesOK
    BY <1>2 DEF TablesOK, IInv, TypeOK, RowInv, ChatHasConversation
  <2>2. ASSUME NEW k \in Keys, k \notin KeysOf(c) PROVE RowsOf(k)' = RowsOf(k)
    <3>1. \A d \in stored : k \in KeysOf(d) => last'[d] = last[d]
      BY <1>2, <2>2 DEF IInv, TypeOK
    <3> QED
      BY <3>1 DEF RowsOf
  <2> QED
    BY <1>2, <2>1, <2>2
<1> QED
  BY <1>1, <1>2 DEF Updates

LEMMA ClearQuietly ==
  ASSUME IInv, NEW p \in Handlers, ClearUpdate(p)
  PROVE  Quiet(p)
<1>1. /\ h[p] \in HandlerState /\ Owing(h[p]) /\ h[p].at = "clear"
      /\ h[p].chat \in spent /\ h[p].chat \in Chats
  BY DEF ClearUpdate, IInv, TypeOK
<1>2. PICK due \in SUBSET Keys :
        Updates(h[p].chat, None, due) /\ Become(p, InvalidateChat(h[p].chat, h[p].caller, due))
  BY DEF ClearUpdate
<1> DEFINE r == InvalidateChat(h[p].chat, h[p].caller, due)
<1>3. /\ r \in HandlerState /\ Owing(r) /\ Fits(r, spent)
      /\ r.at = "invalidate" /\ r.due = due /\ r.drop
  BY <1>1, InvalidateChatOK
<1>4. PICK next \in HandlerState : next = r
  BY <1>3
<1>5. /\ next.at = "invalidate" /\ next.due = due /\ next.drop
      /\ Owing(next) /\ Fits(next, spent)
  BY <1>4, <1>3
<1>6. /\ h' = [h EXCEPT ![p] = next]
      /\ UNCHANGED <<stored, spent, conversations, lists, members, history>>
  BY <1>2, <1>4 DEF ClearUpdate, Become
<1>7. /\ TablesOK
      /\ \A k \in Keys : RowsOf(k)' = RowsOf(k) \/ k \in due
  BY <1>1, <1>2, <1>6, UpdatesTables
<1>8. h[p].due = {} /\ ~h[p].drop
  BY <1>1 DEF Owing
<1>9. Quietly(p, next)
  BY <1>5, <1>6, <1>7, <1>8 DEF Quietly
<1> QED
  BY <1>7, <1>9 DEF Quiet

LEMMA UpdateQuietly ==
  ASSUME IInv, NEW p \in Handlers, NEW c \in Chats, NEW text \in Texts, NEW u \in Users,
         UpdateLastMessage(p, c, text, u)
  PROVE  Quiet(p)
<1>1. h[p] \in HandlerState /\ Owing(h[p]) /\ h[p].at = "idle" /\ c \in spent
  BY DEF UpdateLastMessage, IInv, TypeOK
<1>2. PICK due \in SUBSET Keys :
        /\ Updates(c, text, due)
        /\ Become(p, [Idle EXCEPT !.at = "lookup", !.chat = c, !.caller = u, !.due = due])
  BY DEF UpdateLastMessage
<1>3. UNCHANGED <<stored, spent, conversations, lists, members, history>>
  BY DEF UpdateLastMessage
<1>4. /\ TablesOK
      /\ \A k \in Keys : RowsOf(k)' = RowsOf(k) \/ k \in due
      /\ due \subseteq KeysOf(c)
  BY <1>2, <1>3, UpdatesTables
<1> DEFINE r == [Idle EXCEPT !.at = "lookup", !.chat = c, !.caller = u, !.due = due]
<1>5. /\ r \in HandlerState /\ r.at = "lookup" /\ r.chat = c /\ r.caller = u /\ r.due = due
       /\ ~r.drop
  BY DEF Idle, HandlerState, Steps
<1>6. PICK next \in HandlerState :
        /\ next = r
        /\ next.at = "lookup" /\ next.chat = c /\ next.caller = u /\ next.due = due
        /\ ~next.drop
  BY <1>5
<1>7. Owing(next) /\ Fits(next, spent)
  BY <1>1, <1>4, <1>6 DEF Owing, Fits
<1>8. h' = [h EXCEPT ![p] = next]
  BY <1>2, <1>6 DEF Become
<1>9. h[p].due = {} /\ ~h[p].drop
  BY <1>1 DEF Owing
<1>10. Quietly(p, next)
  BY <1>3, <1>4, <1>6, <1>7, <1>8, <1>9 DEF Quietly
<1> QED
  BY <1>4, <1>10 DEF Quiet

-----------------------------------------------------------------------------
(* The steps that cache something or delete something.  They leave the     *)
(* tables alone.                                                           *)

CachesOK ==
  /\ lists \in [Keys -> (SUBSET Entries) \union {NoEntry}]
  /\ members \in [Chats -> (SUBSET Users) \union {NoEntry}]
  /\ doubt \subseteq Keys /\ misread \subseteq Chats
  /\ \A c \in Chats : members[c] # NoEntry => c \in spent

LEMMA CachesTypeInv ==
  ASSUME IInv, UNCHANGED tables, HandlersOK', CachesOK',
         \A q \in Handlers : h'[q].at = "unlink" => h[q].at = "unlink" /\ h'[q].chat = h[q].chat
  PROVE  TypeOK' /\ (\A q \in Handlers : Owing(h[q])') /\ RowInv'
<1>1. TypeOK' /\ \A q \in Handlers : Owing(h[q])'
  BY DEF IInv, TypeOK, HandlersOK, CachesOK, Fits, tables
<1>2. RowInv'
  BY DEF IInv, RowInv, CachesOK, ChatHasConversation, tables
<1> QED
  BY <1>1, <1>2

\* A handler that goes on as next, when what is cached is what is in the tables,
\* is explained, or was there before.
LEMMA CacheInv ==
  ASSUME IInv, NEW p \in Handlers, NEW next \in HandlerState, UNCHANGED tables, CachesOK',
         h' = [h EXCEPT ![p] = next], Fits(next, spent), Owing(next), ~h[p].drop,
         h[p].due \subseteq next.due, next.at # "unlink", next.at # "keep",
         next.at = "fill" => next.late \/ next.read = RowsOf(next.key),
         \A k \in Keys :
           \/ lists'[k] = lists[k] /\ (k \in doubt => k \in doubt')
           \/ lists'[k] = RowsOf(k) \/ k \in doubt' \/ \E q \in Handlers : OwesList(q, k),
         \A c \in Chats :
           \/ members'[c] = members[c] /\ (c \in misread => c \in misread')
           \/ members'[c] = MembersOf(c) \/ c \in misread' \/ \E q \in Handlers : OwesMembers(q, c)
  PROVE  IInv'
<1>1. h'[p] = next /\ \A q \in Handlers \ {p} : h'[q] = h[q]
  BY DEF IInv, TypeOK
<1>2. HandlersOK'
  <2>1. HandlersOK /\ spent' = spent
    BY TypeHandlers DEF IInv, TypeInv, tables
  <2> QED
    BY <2>1, BecomeOK
<1>3. TypeOK' /\ (\A q \in Handlers : Owing(h[q])') /\ RowInv'
  BY <1>1, <1>2, CachesTypeInv
<1>4. /\ \A k \in Keys : RowsOf(k)' = RowsOf(k)
      /\ \A c \in Chats : MembersOf(c)' = MembersOf(c)
  BY SameTables
<1>5. \A q \in Handlers, k \in Keys : OwesList(q, k) => OwesList(q, k)'
  BY <1>1 DEF OwesList
<1>6. \A q \in Handlers, c \in Chats : OwesMembers(q, c) => OwesMembers(q, c)'
  BY <1>1 DEF OwesMembers, tables
<1>7. StaleListExplained'
  BY <1>4, <1>5 DEF IInv, StaleListExplained
<1>8. WrongParticipantsExplained'
  BY <1>4, <1>6 DEF IInv, WrongParticipantsExplained
<1>9. StaleReadExplained'
  <2>1. ASSUME NEW q \in Handlers, h'[q].at = "fill", h'[q].read # RowsOf(h[q].key)'
        PROVE  h'[q].late \/ \E r \in Handlers : OwesList(r, h[q].key)'
    <3>1. CASE q = p
      BY <1>1, <2>1, <3>1 DEF RowsOf, tables
    <3>2. CASE q # p
      <4>1. h'[q] = h[q] /\ h[q].key \in Keys
        BY <1>1, <2>1, <3>2 DEF IInv, TypeOK
      <4>2. h[q].read # RowsOf(h[q].key)
        BY <2>1, <4>1 DEF RowsOf, tables
      <4>3. h[q].late \/ \E r \in Handlers : OwesList(r, h[q].key)
        BY <2>1, <4>1, <4>2 DEF IInv, StaleReadExplained
      <4>4. \A r \in Handlers : OwesList(r, h[q].key) => OwesList(r, h[q].key)'
        BY <1>1, <4>1 DEF OwesList
      <4> QED
        BY <4>1, <4>3, <4>4
    <3> QED
      BY <3>1, <3>2
  <2> QED
    BY <2>1 DEF StaleReadExplained
<1>10. WrongReadExplained'
  <2>1. ASSUME NEW q \in Handlers, h'[q].at = "keep", h'[q].ids # MembersOf(h[q].chat)'
        PROVE  h'[q].late \/ \E r \in Handlers : OwesMembers(r, h[q].chat)'
    <3>1. q # p /\ h'[q] = h[q]
      BY <1>1, <2>1
    <3>2. h[q].ids # MembersOf(h[q].chat)
      BY <2>1, <3>1 DEF MembersOf, tables
    <3>3. h[q].late \/ \E r \in Handlers : OwesMembers(r, h[q].chat)
      BY <2>1, <3>1, <3>2 DEF IInv, WrongReadExplained
    <3>4. \A r \in Handlers : OwesMembers(r, h[q].chat) => OwesMembers(r, h[q].chat)'
      BY <1>1, <3>1 DEF OwesMembers, tables
    <3> QED
      BY <3>1, <3>3, <3>4
  <2> QED
    BY <2>1 DEF WrongReadExplained
<1> QED
  BY <1>3, <1>7, <1>8, <1>9, <1>10 DEF IInv

LEMMA GetListInv ==
  ASSUME IInv, NEW p \in Handlers, NEW k \in Keys, GetList(p, k)
  PROVE  IInv'
<1>1. PICK read \in SUBSET RowsOf(k) :
        h' = [h EXCEPT ![p] = [Idle EXCEPT !.at = "fill", !.key = k, !.read = read,
                                           !.late = read # RowsOf(k)]]
  BY DEF GetList, Become
<1>2. PICK late \in BOOLEAN : late = (read # RowsOf(k))
  OBVIOUS
<1> DEFINE r == [Idle EXCEPT !.at = "fill", !.key = k, !.read = read, !.late = late]
<1>3. /\ r \in HandlerState /\ r.at = "fill" /\ r.key = k /\ r.read = read /\ r.late = late
      /\ r.due = {} /\ ~r.drop
  <2>1. read \in SUBSET Entries
    BY RowsOfType DEF IInv
  <2> QED
    BY <2>1 DEF Idle, HandlerState, Steps
<1>4. h' = [h EXCEPT ![p] = r]
  BY <1>1, <1>2
<1> HIDE DEF r
<1>5. PICK next \in HandlerState : next = r
  BY <1>3
<1>6. Owing(next) /\ Fits(next, spent)
  BY <1>3, <1>5 DEF Owing, Fits
<1>7. h[p].due = {} /\ ~h[p].drop
  BY DEF IInv, Owing, GetList
<1>8. UNCHANGED <<tables, lists, members, history>>
  BY DEF GetList
<1>9. CachesOK'
  BY <1>8 DEF CachesOK, IInv, TypeOK, RowInv, history, tables
<1> QED
  BY <1>2, <1>3, <1>4, <1>5, <1>6, <1>7, <1>8, <1>9, CacheInv DEF history

LEMMA FillInv ==
  ASSUME IInv, NEW p \in Handlers, Fill(p)
  PROVE  IInv'
<1>1. PICK k \in Keys : k = h[p].key
  BY DEF Fill, IInv, TypeOK
<1>2. PICK ok \in BOOLEAN :
        /\ lists' = IF ok THEN [lists EXCEPT ![k] = h[p].read] ELSE lists
        /\ doubt' = IF ~ok THEN doubt ELSE IF h[p].late THEN doubt \union {k} ELSE doubt \ {k}
  BY <1>1 DEF Fill
<1>3. /\ h[p] \in HandlerState /\ h[p].at = "fill" /\ h[p].due = {} /\ ~h[p].drop
      /\ UNCHANGED <<tables, members, misread>> /\ h' = [h EXCEPT ![p] = Idle]
  BY DEF Fill, IInv, TypeOK, Owing, Become
<1>4. h[p].late \/ h[p].read = RowsOf(k) \/ \E q \in Handlers : OwesList(q, k)
  BY <1>1, <1>3 DEF IInv, StaleReadExplained
<1>5. CachesOK'
  BY <1>2, <1>3 DEF CachesOK, IInv, TypeOK, RowInv, HandlerState, tables
<1>6. ASSUME NEW j \in Keys
      PROVE  \/ lists'[j] = lists[j] /\ (j \in doubt => j \in doubt')
             \/ lists'[j] = RowsOf(j) \/ j \in doubt' \/ \E q \in Handlers : OwesList(q, j)
  <2>1. CASE ok /\ j = k
    <3>1. lists'[j] = h[p].read
      BY <1>2, <2>1 DEF IInv, TypeOK
    <3>2. h[p].late => j \in doubt'
      BY <1>2, <2>1
    <3> QED
      BY <1>4, <2>1, <3>1, <3>2
  <2>2. CASE ~ok \/ j # k
    BY <1>2, <2>2 DEF IInv, TypeOK
  <2> QED
    BY <2>1, <2>2
<1>7. /\ Idle \in HandlerState /\ Fits(Idle, spent) /\ Owing(Idle)
      /\ Idle.at \notin {"fill", "keep", "unlink"}
  BY IdleOK
<1> QED
  BY <1>3, <1>5, <1>6, <1>7, CacheInv

LEMMA KeepInv ==
  ASSUME IInv, NEW p \in Handlers, Keep(p)
  PROVE  IInv'
<1>1. PICK c \in Chats : /\ c = h[p].chat /\ c \in spent
                        /\ h[p] \in HandlerState /\ h[p].at = "keep" /\ Owing(h[p])
  BY DEF Keep, IInv, TypeOK
<1>2. PICK ok \in BOOLEAN :
        /\ members' = IF ok THEN [members EXCEPT ![c] = h[p].ids] ELSE members
        /\ misread' = IF ~ok THEN misread
                      ELSE IF h[p].late THEN misread \union {c} ELSE misread \ {c}
  BY <1>1 DEF Keep
<1> DEFINE r == Known(h[p], h[p].ids)
<1>3. UNCHANGED <<tables, lists, doubt>> /\ h' = [h EXCEPT ![p] = r]
  BY DEF Keep, Become
<1>4. h[p].late \/ h[p].ids = MembersOf(c) \/ \E q \in Handlers : OwesMembers(q, c)
  BY <1>1 DEF IInv, WrongReadExplained
<1>5. CachesOK'
  BY <1>1, <1>2, <1>3 DEF CachesOK, IInv, TypeOK, RowInv, HandlerState, tables
<1>6. ASSUME NEW d \in Chats
      PROVE  \/ members'[d] = members[d] /\ (d \in misread => d \in misread')
             \/ members'[d] = MembersOf(d) \/ d \in misread' \/ \E q \in Handlers : OwesMembers(q, d)
  <2>1. CASE ok /\ d = c
    <3>1. members'[d] = h[p].ids
      BY <1>2, <2>1 DEF IInv, TypeOK
    <3>2. h[p].late => d \in misread'
      BY <1>2, <2>1
    <3> QED
      BY <1>4, <2>1, <3>1, <3>2
  <2>2. CASE ~ok \/ d # c
    BY <1>2, <2>2 DEF IInv, TypeOK
  <2> QED
    BY <2>1, <2>2
<1>7. /\ r \in HandlerState /\ Owing(r) /\ Fits(r, spent)
      /\ r.at \in {"idle", "invalidate"} /\ r.due = h[p].due
  <2>1. h[p].ids \in SUBSET Users
    BY <1>1 DEF HandlerState
  <2> QED
    BY <1>1, <2>1, KnownOK
<1> HIDE DEF r
<1>8. PICK next \in HandlerState : next = r
  BY <1>7
<1>9. ~h[p].drop
  BY <1>1 DEF Owing
<1> QED
  BY <1>3, <1>5, <1>6, <1>7, <1>8, <1>9, CacheInv

\* A handler that has deleted what it owes, or never will.
LEMMA PassInv ==
  ASSUME IInv, NEW p \in Handlers, UNCHANGED tables, CachesOK', Pass(p, Idle),
         \A k \in Keys :
           \/ lists'[k] = NoEntry
           \/ /\ lists'[k] = lists[k] /\ (k \in doubt => k \in doubt')
              /\ OwesList(p, k) => k \in doubt',
         \A c \in Chats :
           \/ members'[c] = NoEntry
           \/ /\ members'[c] = members[c] /\ (c \in misread => c \in misread')
              /\ OwesMembers(p, c) => c \in misread'
  PROVE  IInv'
<1>1. ASSUME NEW q \in Handlers
      PROVE  h'[q] = IF q = p THEN Idle
                     ELSE IF \/ /\ h[q].at = "fill" /\ OwesList(p, h[q].key)
                                /\ h[q].read # RowsOf(h[q].key)
                             \/ /\ h[q].at = "keep" /\ OwesMembers(p, h[q].chat)
                                /\ h[q].ids # {}
                     THEN [h[q] EXCEPT !.late = TRUE]
                     ELSE h[q]
  BY DEF Pass
<1>2. h'[p].at = "idle"
  BY IdleOK DEF Pass
<1>3. ASSUME NEW q \in Handlers, q # p
      PROVE  /\ h'[q].at = h[q].at /\ h'[q].chat = h[q].chat /\ h'[q].key = h[q].key
             /\ h'[q].read = h[q].read /\ h'[q].ids = h[q].ids /\ h'[q].due = h[q].due
             /\ h'[q].drop = h[q].drop /\ (h[q].late => h'[q].late)
             /\ h[q].at = "fill" /\ OwesList(p, h[q].key) /\ h[q].read # RowsOf(h[q].key) =>
                  h'[q].late
             /\ h[q].at = "keep" /\ OwesMembers(p, h[q].chat) /\ h[q].ids # {} => h'[q].late
  <2>1. h[q] \in HandlerState /\ Owing(h[q])
    BY DEF IInv, TypeOK
  <2>2. h'[q] = [h[q] EXCEPT !.late = TRUE] =>
          /\ h'[q].at = h[q].at /\ h'[q].chat = h[q].chat /\ h'[q].key = h[q].key
          /\ h'[q].read = h[q].read /\ h'[q].ids = h[q].ids /\ h'[q].due = h[q].due
          /\ h'[q].drop = h[q].drop /\ h'[q].late
    BY <2>1, LateOK
  <2>3. CASE \/ h[q].at = "fill" /\ OwesList(p, h[q].key) /\ h[q].read # RowsOf(h[q].key)
             \/ h[q].at = "keep" /\ OwesMembers(p, h[q].chat) /\ h[q].ids # {}
    <3>1. h'[q] = [h[q] EXCEPT !.late = TRUE]
      BY <1>1, <1>3, <2>3
    <3> QED
      BY <2>2, <3>1
  <2>4. CASE ~ \/ h[q].at = "fill" /\ OwesList(p, h[q].key) /\ h[q].read # RowsOf(h[q].key)
               \/ h[q].at = "keep" /\ OwesMembers(p, h[q].chat) /\ h[q].ids # {}
    <3>1. h'[q] = h[q]
      BY <1>1, <1>3, <2>4
    <3> QED
      BY <2>4, <3>1
  <2> QED
    BY <2>3, <2>4
<1>4. HandlersOK'
  <2>1. HandlersOK /\ spent' = spent
    BY TypeHandlers DEF IInv, TypeInv, tables
  <2> QED
    BY <2>1, PassOK
<1>5. TypeOK' /\ (\A q \in Handlers : Owing(h[q])') /\ RowInv'
  <2>1. \A q \in Handlers : h'[q].at = "unlink" => h[q].at = "unlink" /\ h'[q].chat = h[q].chat
    BY <1>2, <1>3
  <2> QED
    BY <1>4, <2>1, CachesTypeInv
<1>6. /\ \A k \in Keys : RowsOf(k)' = RowsOf(k)
      /\ \A c \in Chats : MembersOf(c)' = MembersOf(c)
  BY SameTables
<1>7. \A q \in Handlers \ {p}, k \in Keys : OwesList(q, k) => OwesList(q, k)'
  BY <1>3 DEF OwesList
<1>8. \A q \in Handlers \ {p}, c \in Chats : OwesMembers(q, c) => OwesMembers(q, c)'
  BY <1>3 DEF OwesMembers, tables
<1>9. StaleListExplained'
  <2>1. ASSUME NEW k \in Keys, lists'[k] # NoEntry, lists'[k] # RowsOf(k)'
        PROVE  k \in doubt' \/ \E q \in Handlers : OwesList(q, k)'
    <3>1. k \in doubt \/ \E q \in Handlers : OwesList(q, k)
      BY <1>6, <2>1 DEF IInv, StaleListExplained
    <3> QED
      BY <1>7, <2>1, <3>1
  <2> QED
    BY <2>1 DEF StaleListExplained
<1>10. WrongParticipantsExplained'
  <2>1. ASSUME NEW c \in Chats, members'[c] # NoEntry, members'[c] # MembersOf(c)'
        PROVE  c \in misread' \/ \E q \in Handlers : OwesMembers(q, c)'
    <3>1. c \in misread \/ \E q \in Handlers : OwesMembers(q, c)
      BY <1>6, <2>1 DEF IInv, WrongParticipantsExplained
    <3> QED
      BY <1>8, <2>1, <3>1
  <2> QED
    BY <2>1 DEF WrongParticipantsExplained
<1>11. StaleReadExplained'
  <2>1. ASSUME NEW q \in Handlers, h'[q].at = "fill", h'[q].read # RowsOf(h[q].key)'
        PROVE  h'[q].late \/ \E r \in Handlers : OwesList(r, h[q].key)'
    <3>1. /\ q # p /\ h[q].at = "fill" /\ h[q].key \in Keys /\ h'[q].key = h[q].key
          /\ h'[q].read = h[q].read
      BY <1>2, <1>3, <2>1 DEF IInv, TypeOK
    <3>2. h[q].read # RowsOf(h[q].key)
      BY <2>1, <3>1 DEF RowsOf, tables
    <3>3. h[q].late \/ \E r \in Handlers : OwesList(r, h[q].key)
      BY <3>1, <3>2 DEF IInv, StaleReadExplained
    <3>4. CASE h[q].late \/ OwesList(p, h[q].key)
      BY <1>3, <3>1, <3>2, <3>4
    <3>5. ASSUME NEW r \in Handlers \ {p}, OwesList(r, h[q].key)
          PROVE  OwesList(r, h[q].key)'
      BY <1>3, <3>1, <3>5 DEF OwesList
    <3> QED
      BY <3>3, <3>4, <3>5
  <2> QED
    BY <2>1 DEF StaleReadExplained
<1>12. WrongReadExplained'
  <2>1. ASSUME NEW q \in Handlers, h'[q].at = "keep", h'[q].ids # MembersOf(h[q].chat)'
        PROVE  h'[q].late \/ \E r \in Handlers : OwesMembers(r, h[q].chat)'
    <3>1. /\ q # p /\ h[q].at = "keep" /\ h'[q].chat = h[q].chat /\ h'[q].ids = h[q].ids
      BY <1>2, <1>3, <2>1
    <3>2. h[q].ids # MembersOf(h[q].chat)
      BY <2>1, <3>1 DEF MembersOf, tables
    <3>3. h[q].late \/ \E r \in Handlers : OwesMembers(r, h[q].chat)
      BY <3>1, <3>2 DEF IInv, WrongReadExplained
    <3>4. CASE h[q].late
      BY <1>3, <3>1, <3>4
    <3>5. CASE OwesMembers(p, h[q].chat)
      <4>1. h[q].ids # {}
        BY <3>2, <3>5 DEF OwesMembers, MembersOf
      <4> QED
        BY <1>3, <3>1, <3>5, <4>1
    <3>6. ASSUME NEW r \in Handlers \ {p}, OwesMembers(r, h[q].chat)
          PROVE  OwesMembers(r, h[q].chat)'
      BY <1>3, <3>1, <3>6 DEF OwesMembers, tables
    <3> QED
      BY <3>3, <3>4, <3>5, <3>6
  <2> QED
    BY <2>1 DEF WrongReadExplained
<1> QED
  BY <1>5, <1>9, <1>10, <1>11, <1>12 DEF IInv

LEMMA MissInv ==
  ASSUME IInv, NEW p \in Handlers, Miss(p), Pass(p, Idle), UNCHANGED <<tables, lists, members>>
  PROVE  IInv'
<1>1. h[p].due \subseteq Keys
  BY DEF IInv, TypeOK, HandlerState
<1>2. CachesOK'
  BY <1>1 DEF CachesOK, IInv, TypeOK, RowInv, Miss, tables
<1>3. /\ \A k \in Keys : (k \in doubt => k \in doubt') /\ (OwesList(p, k) => k \in doubt')
      /\ \A c \in Chats : /\ c \in misread => c \in misread'
                          /\ OwesMembers(p, c) => c \in misread'
  BY DEF Miss, OwesList
<1> QED
  BY <1>2, <1>3, PassInv

LEMMA InvalidateInv ==
  ASSUME IInv, NEW p \in Handlers, Invalidate(p)
  PROVE  IInv'
<1>1. /\ h[p] \in HandlerState /\ Owing(h[p]) /\ h[p].at = "invalidate"
      /\ h[p].chat \in Chats
      /\ UNCHANGED tables /\ Pass(p, Idle)
  BY DEF Invalidate, IInv, TypeOK
<1>2. CASE Miss(p) /\ UNCHANGED <<lists, members>>
  BY <1>1, <1>2, MissInv
<1>3. CASE /\ lists' = [k \in Keys |-> IF k \in h[p].keys THEN NoEntry ELSE lists[k]]
           /\ doubt' = (doubt \ h[p].keys) \union
                         (IF h[p].drop \/ h[p].late THEN h[p].due \ h[p].keys ELSE {})
           /\ members' = IF h[p].drop THEN [members EXCEPT ![h[p].chat] = NoEntry] ELSE members
           /\ misread' = IF h[p].drop THEN misread \ {h[p].chat} ELSE misread
  <2>1. h[p].due \subseteq h[p].keys \/ h[p].drop \/ h[p].late
    BY <1>1 DEF Owing
  <2>2. CachesOK'
    BY <1>1, <1>3 DEF CachesOK, IInv, TypeOK, RowInv, HandlerState, tables
  <2>3. ASSUME NEW k \in Keys
        PROVE  \/ lists'[k] = NoEntry
               \/ /\ lists'[k] = lists[k] /\ (k \in doubt => k \in doubt')
                  /\ OwesList(p, k) => k \in doubt'
    BY <1>3, <2>1 DEF OwesList
  <2>4. ASSUME NEW c \in Chats
        PROVE  \/ members'[c] = NoEntry
               \/ /\ members'[c] = members[c] /\ (c \in misread => c \in misread')
                  /\ OwesMembers(p, c) => c \in misread'
    <3>1. CASE h[p].drop /\ c = h[p].chat
      BY <1>3, <3>1 DEF IInv, TypeOK
    <3>2. CASE ~(h[p].drop /\ c = h[p].chat)
      BY <1>3, <3>2 DEF IInv, TypeOK, OwesMembers
    <3> QED
      BY <3>1, <3>2
  <2> QED
    BY <1>1, <2>2, <2>3, <2>4, PassInv
<1> QED
  BY <1>2, <1>3 DEF Invalidate

\* An entry is gone, or it and its history are as they were.
Same(cache, k, suspects) ==
  \/ cache'[k] = NoEntry
  \/ cache'[k] = cache[k] /\ (k \in suspects => k \in suspects')

\* Redis forgets a list or a chat's participants.
LEMMA ExpireInv ==
  ASSUME IInv,
         (\E k \in Keys : ExpireList(k)) \/ (\E c \in Chats : ExpireMembers(c)) \/ UNCHANGED vars
  PROVE  IInv'
<1>1. UNCHANGED <<tables, h>>
  BY DEF ExpireList, ExpireMembers, vars
<1>2. CachesOK'
  BY DEF CachesOK, IInv, TypeOK, RowInv, ExpireList, ExpireMembers, vars, history, tables
<1>3. HandlersOK'
  <2>1. HandlersOK
    BY TypeHandlers DEF IInv, TypeInv
  <2> QED
    BY <1>1, <2>1 DEF HandlersOK, tables
<1>4. TypeOK' /\ (\A q \in Handlers : Owing(h[q])') /\ RowInv'
  BY <1>1, <1>2, <1>3, CachesTypeInv
<1>5. /\ \A k \in Keys : RowsOf(k)' = RowsOf(k)
      /\ \A c \in Chats : MembersOf(c)' = MembersOf(c)
  BY <1>1, SameTables
<1>6. /\ \A k \in Keys : Same(lists, k, doubt)
      /\ \A c \in Chats : Same(members, c, misread)
  <2>1. ASSUME NEW j \in Keys, ExpireList(j)
        PROVE  /\ \A k \in Keys : Same(lists, k, doubt)
               /\ \A c \in Chats : Same(members, c, misread)
    <3>1. UNCHANGED <<members, misread>>
      BY <2>1 DEF ExpireList
    <3>2. lists \in [Keys -> (SUBSET Entries) \union {NoEntry}]
      BY DEF IInv, TypeOK
    <3>3. lists' = [lists EXCEPT ![j] = NoEntry] /\ doubt' = doubt \ {j}
      BY <2>1 DEF ExpireList
    <3> QED
      BY <3>1, <3>2, <3>3 DEF Same
  <2>2. ASSUME NEW d \in Chats, ExpireMembers(d)
        PROVE  /\ \A k \in Keys : Same(lists, k, doubt)
               /\ \A c \in Chats : Same(members, c, misread)
    <3>1. UNCHANGED <<lists, doubt>>
      BY <2>2 DEF ExpireMembers
    <3>2. members \in [Chats -> (SUBSET Users) \union {NoEntry}]
      BY DEF IInv, TypeOK
    <3>3. members' = [members EXCEPT ![d] = NoEntry] /\ misread' = misread \ {d}
      BY <2>2 DEF ExpireMembers
    <3> QED
      BY <3>1, <3>2, <3>3 DEF Same
  <2>3. CASE UNCHANGED vars
    BY <2>3 DEF vars, history, Same
  <2> QED
    BY <2>1, <2>2, <2>3
<1>7. StaleListExplained'
  BY <1>1, <1>5, <1>6 DEF Same, IInv, StaleListExplained, OwesList
<1>8. WrongParticipantsExplained'
  BY <1>1, <1>5, <1>6 DEF Same, IInv, WrongParticipantsExplained, OwesMembers, tables
<1>9. StaleReadExplained' /\ WrongReadExplained'
  BY <1>1 DEF IInv, StaleReadExplained, WrongReadExplained, OwesList, OwesMembers,
              RowsOf, MembersOf, tables
<1> QED
  BY <1>4, <1>7, <1>8, <1>9 DEF IInv

-----------------------------------------------------------------------------
LEMMA InitInv == Init => IInv
<1> SUFFICES ASSUME Init PROVE IInv
  OBVIOUS
<1>1. \A p \in Handlers : h[p] = Idle
  BY DEF Init
<1>2. TypeOK
  BY <1>1, IdleOK DEF Init, TypeOK, Fits
<1>3. \A p \in Handlers : Owing(h[p])
  BY <1>1, IdleOK
<1>4. RowInv /\ StaleListExplained /\ WrongParticipantsExplained
  BY <1>1, IdleOK DEF Init, RowInv, ChatHasConversation, StaleListExplained,
                      WrongParticipantsExplained
<1>5. StaleReadExplained /\ WrongReadExplained
  BY <1>1, IdleOK DEF StaleReadExplained, WrongReadExplained
<1> QED
  BY <1>2, <1>3, <1>4, <1>5 DEF IInv

LEMMA NextInv == IInv /\ [Next]_vars => IInv'
<1> SUFFICES ASSUME IInv, [Next]_vars PROVE IInv'
  OBVIOUS
<1>1. ASSUME NEW p \in Handlers, Quiet(p) PROVE IInv'
  BY <1>1, QuietInv DEF Quiet
<1>2. ASSUME NEW p \in Handlers,
             \/ \E pair \in Pairs : CreateLook(p, pair)
             \/ \E c \in Chats : CreateInsert(p, c) \/ CreateGroup(p, c) \/ GetParticipants(p, c)
             \/ \E u \in Users, c \in Chats : DeleteRow(p, u, c) \/ ClearCheck(p, u, c)
             \/ \E u \in Users, c \in Chats, text \in Texts : UpdateLastMessage(p, c, text, u)
             \/ DeleteConversation(p) \/ ClearUpdate(p)
             \/ LookupHit(p) \/ LookupChat(p) \/ LookupGroup(p) \/ LookupFails(p)
      PROVE  IInv'
  <2>1. Quiet(p)
    BY <1>2, LooksQuietly, LookupQuietly, CreateQuietly, DeleteQuietly, UnlinkQuietly,
       ClearQuietly, UpdateQuietly
  <2> QED
    BY <1>1, <2>1
<1>3. ASSUME NEW p \in Handlers,
             (\E k \in Keys : GetList(p, k)) \/ Fill(p) \/ Keep(p) \/ Invalidate(p) \/ Abort(p)
      PROVE  IInv'
  BY <1>3, GetListInv, FillInv, KeepInv, InvalidateInv, MissInv DEF Abort
<1>4. CASE \/ \E k \in Keys : ExpireList(k)
           \/ \E c \in Chats : ExpireMembers(c)
           \/ UNCHANGED vars
  BY <1>4, ExpireInv
<1> QED
  BY <1>2, <1>3, <1>4 DEF Next

\* Every variable of the chat service keeps its type.
THEOREM TypeCorrect == Spec => []TypeOK
<1>1. IInv => TypeOK
  BY DEF IInv
<1> QED
  BY InitInv, NextInv, <1>1, PTL DEF Spec

\* CreateChat and CreateGroup make the rows of a chat in one transaction and
\* DeleteChat removes them in two: whatever runs beside them and wherever a
\* handler stops, no chat is left without its conversation.
THEOREM ConversationsAreThere == Spec => []ChatHasConversation
<1>1. IInv => ChatHasConversation
  BY DEF IInv, RowInv
<1> QED
  BY InitInv, NextInv, <1>1, PTL DEF Spec

\* GetChats and GetGroups have no wrong cached list to return except for the
\* causes StaleListExplained names, whatever calls fail or overtake each other.
THEOREM StaleListsExplained == Spec => []StaleListExplained
<1>1. IInv => StaleListExplained
  BY DEF IInv
<1> QED
  BY InitInv, NextInv, <1>1, PTL DEF Spec

\* Nor has GetParticipants wrong participants, of a chat that is there or of one
\* that is gone, except for those WrongParticipantsExplained names.
THEOREM WrongMembersExplained == Spec => []WrongParticipantsExplained
<1>1. IInv => WrongParticipantsExplained
  BY DEF IInv
<1> QED
  BY InitInv, NextInv, <1>1, PTL DEF Spec

=============================================================================
