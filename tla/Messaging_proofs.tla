--------------------------- MODULE Messaging_proofs ---------------------------
(***************************************************************************)
(* For any number of messages, chats, keys and handlers: the types, that a *)
(* stale cached list always has one of the causes StaleListExplained names,*)
(* that the preview follows the log, and that an uploaded file is missing  *)
(* from a message only for the causes RowHasObject names.                  *)
(***************************************************************************)
EXTENDS Messaging, WellFoundedInduction, TLAPS

\* A handler's record keeps its type when one or two of its fields change.
LEMMA FlagType ==
  ASSUME NEW r \in HandlerState, Targeted(r), NEW b \in BOOLEAN
  PROVE  /\ [r EXCEPT !.raced = b] \in HandlerState /\ Targeted([r EXCEPT !.raced = b])
         /\ [r EXCEPT !.alone = b] \in HandlerState /\ Targeted([r EXCEPT !.alone = b])
  BY DEF HandlerState, Targeted

LEMMA ListType ==
  ASSUME NEW r \in HandlerState, NEW at \in Steps, NEW list \in SUBSET Msgs,
         r.chat \in Chats, r.msg \in Msgs, ChatOf[r.msg] = r.chat
  PROVE  /\ [r EXCEPT !.at = at, !.list = list] \in HandlerState
         /\ Targeted([r EXCEPT !.at = at, !.list = list])
  BY DEF HandlerState, Targeted

\* How the helpers change h, whatever the action they are part of.
LEMMA EnterType ==
  ASSUME TypeOK, NEW p \in Handlers, NEW c \in Chats, NEW at \in Steps,
         NEW m \in Msgs \union {None}, NEW list \in SUBSET Msgs,
         at \in SendSteps \union DeleteSteps => m \in Msgs /\ ChatOf[m] = c,
         Enter(p, c, at, m, list)
  PROVE  h' \in [Handlers -> HandlerState] /\ \A q \in Handlers : Targeted(h'[q])
<1> DEFINE entered == [Idle EXCEPT !.at = at, !.msg = m, !.chat = c, !.list = list,
                                   !.alone = Alone(c)]
<1>1. Alone(c) \in BOOLEAN
  BY DEF Alone
<1>2. entered \in HandlerState /\ Targeted(entered)
  BY <1>1 DEF Idle, HandlerState, Targeted
<1> HIDE DEF entered
<1>3. h' = [q \in Handlers |-> IF q = p THEN entered
                               ELSE IF Writing(q, c) THEN [h[q] EXCEPT !.alone = FALSE]
                               ELSE h[q]]
  BY DEF Enter, entered
<1>4. ASSUME NEW q \in Handlers
      PROVE  h'[q] \in HandlerState /\ Targeted(h'[q])
  BY <1>2, <1>3 DEF TypeOK, HandlerState, Targeted
<1> QED
  BY <1>3, <1>4

LEMMA GotoType ==
  ASSUME TypeOK, NEW p \in Handlers, NEW at \in Steps, h[p].at # "idle",
         at \in SendSteps \union DeleteSteps =>
           h[p].msg \in Msgs /\ ChatOf[h[p].msg] = h[p].chat,
         Goto(p, at)
  PROVE  h' \in [Handlers -> HandlerState] /\ \A q \in Handlers : Targeted(h'[q])
  BY DEF TypeOK, Goto, HandlerState, Targeted

LEMMA PassType ==
  ASSUME TypeOK, NEW p \in Handlers, NEW c \in Chats, NEW next \in HandlerState,
         Targeted(next), PassInvalidation(p, c, next)
  PROVE  h' \in [Handlers -> HandlerState] /\ \A q \in Handlers : Targeted(h'[q])
  BY DEF TypeOK, PassInvalidation, HandlerState, Targeted

LEMMA IdleType == Idle \in HandlerState /\ Targeted(Idle)
  BY DEF Idle, HandlerState, Targeted, Steps, SendSteps, DeleteSteps

LEMMA LatestReadType ==
  ASSUME TypeOK, NEW p \in Handlers
  PROVE  LatestRead(p) \in Msgs \union {None}
  BY DEF TypeOK, LatestRead, HandlerState

LEMMA RowsOfType == ASSUME TypeOK, NEW c \in Chats PROVE RowsOf(c) \in SUBSET Msgs
  BY DEF TypeOK, RowsOf

LEMMA DelType ==
  ASSUME TypeOK, NEW p \in Handlers, NEW c \in Chats, NEW next \in HandlerState,
         Targeted(next), Del(p, c, next)
  PROVE  /\ h' \in [Handlers -> HandlerState] /\ \A q \in Handlers : Targeted(h'[q])
         /\ cache' \in [Chats -> (SUBSET Msgs) \union {NoEntry}]
         /\ doubt' \in [Chats -> BOOLEAN]
<1> PICK ok \in BOOLEAN :
           /\ cache' = IF ok THEN [cache EXCEPT ![c] = NoEntry] ELSE cache
           /\ doubt' = [doubt EXCEPT ![c] = ~ok]
           /\ PassInvalidation(p, c, next)
  BY DEF Del
<1>1. cache' \in [Chats -> (SUBSET Msgs) \union {NoEntry}] /\ doubt' \in [Chats -> BOOLEAN]
  BY DEF TypeOK
<1> QED
  BY <1>1, PassType

LEMMA UpdateType ==
  ASSUME TypeOK, NEW p \in Handlers, NEW c \in Chats, NEW last \in Msgs \union {None},
         UpdateLastMessage(p, c, last)
  PROVE  preview' \in [Chats -> Msgs \union {None}] /\ sound' \in [Chats -> BOOLEAN]
<1> PICK ok \in BOOLEAN :
           /\ preview' = IF ok /\ last # None THEN [preview EXCEPT ![c] = last] ELSE preview
           /\ sound' = [sound EXCEPT ![c] = ok /\ h[p].alone]
  BY DEF UpdateLastMessage
<1>1. (ok /\ h[p].alone) \in BOOLEAN
  OBVIOUS
<1> QED
  BY <1>1 DEF TypeOK

USE ChatOfType, FilesType, KeyOfType DEF history, fileHistory

LEMMA SendType ==
  ASSUME TypeOK, NEW p \in Handlers, Send(p)
  PROVE  TypeOK'
<1>1. ASSUME NEW m \in Msgs, SendBegin(p, m) PROVE TypeOK'
  <2>1. ChatOf[m] \in Chats /\ "insert" \in Steps
    BY DEF Steps, SendSteps
  <2>2. h' \in [Handlers -> HandlerState] /\ \A q \in Handlers : Targeted(h'[q])
    BY <1>1, <2>1, EnterType DEF SendBegin
  <2>3. clock' \in Nat /\ stamp' \in [Msgs -> Nat]
    BY <1>1 DEF TypeOK, SendBegin
  <2> QED
    BY <1>1, <2>2, <2>3 DEF TypeOK, SendBegin
<1>2. CASE SendInsert(p)
  <2>1. "sendInvalidate" \in Steps /\ h[p].msg \in Msgs /\ ChatOf[h[p].msg] = h[p].chat
    BY <1>2 DEF SendInsert, TypeOK, Targeted, Steps, SendSteps
  <2>2. h' \in [Handlers -> HandlerState] /\ \A q \in Handlers : Targeted(h'[q])
    BY <1>2, <2>1, GotoType DEF SendInsert
  <2> QED
    BY <1>2, <2>1, <2>2 DEF TypeOK, SendInsert
<1>3. CASE SendInvalidate(p)
  <2> DEFINE next == [h[p] EXCEPT !.at = "sendPreview"]
  <2>1. h[p].chat \in Chats /\ next \in HandlerState /\ Targeted(next)
    BY <1>3 DEF SendInvalidate, TypeOK, Targeted, HandlerState, Steps, SendSteps
  <2> HIDE DEF next
  <2>2. Del(p, h[p].chat, next)
    BY <1>3 DEF SendInvalidate, next
  <2>3. /\ h' \in [Handlers -> HandlerState] /\ \A q \in Handlers : Targeted(h'[q])
        /\ cache' \in [Chats -> (SUBSET Msgs) \union {NoEntry}]
        /\ doubt' \in [Chats -> BOOLEAN]
    BY <2>1, <2>2, DelType
  <2> QED
    BY <1>3, <2>3 DEF TypeOK, SendInvalidate
<1>4. CASE SendPreview(p)
  <2>1. h[p].chat \in Chats /\ h[p].msg \in Msgs
    BY <1>4 DEF SendPreview, TypeOK, Targeted, SendSteps
  <2>2. h' \in [Handlers -> HandlerState] /\ \A q \in Handlers : Targeted(h'[q])
    BY <1>4, IdleType DEF TypeOK, SendPreview
  <2>3. preview' \in [Chats -> Msgs \union {None}] /\ sound' \in [Chats -> BOOLEAN]
    BY <1>4, <2>1, UpdateType DEF SendPreview
  <2> QED
    BY <1>4, <2>2, <2>3 DEF TypeOK, SendPreview
<1> QED
  BY <1>1, <1>2, <1>3, <1>4 DEF Send

LEMMA DeleteType ==
  ASSUME TypeOK, NEW p \in Handlers, DeleteMessage(p)
  PROVE  TypeOK'
<1>1. CASE DeleteMiss(p)
  BY <1>1 DEF DeleteMiss, TypeOK, service
<1>2. ASSUME NEW m \in Msgs, DeleteText(p, m) PROVE TypeOK'
  <2>1. h' \in [Handlers -> HandlerState] /\ \A q \in Handlers : Targeted(h'[q])
    <3>1. ASSUME NEW q \in Handlers
          PROVE  /\ [h[q] EXCEPT !.raced = TRUE] \in HandlerState
                 /\ [h[q] EXCEPT !.alone = FALSE] \in HandlerState
                 /\ Targeted([h[q] EXCEPT !.raced = TRUE])
                 /\ Targeted([h[q] EXCEPT !.alone = FALSE])
      BY FlagType DEF TypeOK
    <3>2. h' = [q \in Handlers |->
                  IF h[q].at = "fill" /\ h[q].chat = ChatOf[m] THEN [h[q] EXCEPT !.raced = TRUE]
                  ELSE IF Writing(q, ChatOf[m]) THEN [h[q] EXCEPT !.alone = FALSE]
                  ELSE h[q]]
      BY <1>2 DEF DeleteText
    <3>3. ASSUME NEW q \in Handlers PROVE h'[q] \in HandlerState /\ Targeted(h'[q])
      BY <3>1, <3>2 DEF TypeOK
    <3> QED
      BY <3>2, <3>3
  <2> QED
    BY <1>2, <2>1 DEF DeleteText, TypeOK
<1>3. ASSUME NEW m \in Msgs, DeleteFile(p, m) PROVE TypeOK'
  <2>1. ChatOf[m] \in Chats /\ "deleteObject" \in Steps
    BY DEF Steps, DeleteSteps
  <2>2. h' \in [Handlers -> HandlerState] /\ \A q \in Handlers : Targeted(h'[q])
    BY <1>3, <2>1, EnterType DEF DeleteFile
  <2> QED
    BY <1>3, <2>2 DEF TypeOK, DeleteFile
<1>4. CASE DeleteObject(p)
  <2>1. "deleteInvalidate" \in Steps /\ h[p].msg \in Msgs /\ ChatOf[h[p].msg] = h[p].chat
    BY <1>4 DEF DeleteObject, TypeOK, Targeted, Steps, DeleteSteps
  <2>2. h' \in [Handlers -> HandlerState] /\ \A q \in Handlers : Targeted(h'[q])
    BY <1>4, <2>1, GotoType DEF DeleteObject
  <2> QED
    BY <1>4, <2>2 DEF TypeOK, DeleteObject
<1>5. CASE DeleteObjectFails(p)
  <2>1. h[p].chat \in Chats
    BY <1>5 DEF DeleteObjectFails, TypeOK, Targeted
  <2>2. h' \in [Handlers -> HandlerState] /\ \A q \in Handlers : Targeted(h'[q])
    BY <1>5, <2>1, PassType, IdleType DEF DeleteObjectFails
  <2> QED
    BY <1>5, <2>1, <2>2 DEF TypeOK, DeleteObjectFails
<1>6. CASE DeleteInvalidate(p)
  <2> DEFINE next == [h[p] EXCEPT !.at = "selectLatest"]
  <2>1. h[p].chat \in Chats /\ next \in HandlerState /\ Targeted(next)
    BY <1>6 DEF DeleteInvalidate, TypeOK, Targeted, HandlerState, Steps, DeleteSteps
  <2> HIDE DEF next
  <2>2. Del(p, h[p].chat, next)
    BY <1>6 DEF DeleteInvalidate, next
  <2>3. /\ h' \in [Handlers -> HandlerState] /\ \A q \in Handlers : Targeted(h'[q])
        /\ cache' \in [Chats -> (SUBSET Msgs) \union {NoEntry}]
        /\ doubt' \in [Chats -> BOOLEAN]
    BY <2>1, <2>2, DelType
  <2> QED
    BY <1>6, <2>3 DEF TypeOK, DeleteInvalidate
<1>7. CASE SelectLatest(p)
  <2>1. Latest(h[p].chat) \in SUBSET Msgs /\ "deletePreview" \in Steps
    BY DEF Latest, RowsOf, TypeOK, Steps, DeleteSteps
  <2>2. h' \in [Handlers -> HandlerState] /\ \A q \in Handlers : Targeted(h'[q])
    <3> DEFINE next == [h[p] EXCEPT !.at = "deletePreview", !.list = Latest(h[p].chat)]
    <3>1. next \in HandlerState /\ Targeted(next)
      <4>1. /\ h[p] \in HandlerState /\ h[p].chat \in Chats
            /\ h[p].msg \in Msgs /\ ChatOf[h[p].msg] = h[p].chat
        BY <1>7 DEF SelectLatest, TypeOK, Targeted, DeleteSteps
      <4> QED
        BY <2>1, <4>1, ListType
    <3>2. h' = [h EXCEPT ![p] = next]
      BY <1>7 DEF SelectLatest
    <3> QED
      BY <3>1, <3>2 DEF TypeOK
  <2> QED
    BY <1>7, <2>2 DEF TypeOK, SelectLatest, service
<1>8. CASE DeletePreview(p)
  <2>1. h[p].chat \in Chats /\ h[p].msg \in Msgs
    BY <1>8 DEF DeletePreview, TypeOK, Targeted, DeleteSteps
  <2>2. h' \in [Handlers -> HandlerState] /\ \A q \in Handlers : Targeted(h'[q])
    BY <1>8, IdleType DEF TypeOK, DeletePreview
  <2>3. preview' \in [Chats -> Msgs \union {None}] /\ sound' \in [Chats -> BOOLEAN]
    BY <1>8, <2>1, UpdateType, LatestReadType DEF DeletePreview
  <2> QED
    BY <1>8, <2>1, <2>2, <2>3 DEF TypeOK, DeletePreview
<1> QED
  BY <1>1, <1>2, <1>3, <1>4, <1>5, <1>6, <1>7, <1>8 DEF DeleteMessage

LEMMA ClearType ==
  ASSUME TypeOK, NEW p \in Handlers, DeleteChatMessages(p)
  PROVE  TypeOK'
<1>1. ASSUME NEW c \in Chats, ClearFails(p, c) PROVE TypeOK'
  BY <1>1 DEF ClearFails, TypeOK, service
<1>2. ASSUME NEW c \in Chats, ClearList(p, c) PROVE TypeOK'
  <2>1. RowsOf(c) \in SUBSET Msgs /\ "clearObjects" \in Steps \ (SendSteps \union DeleteSteps)
    BY RowsOfType DEF Steps, ClearSteps, SendSteps, DeleteSteps
  <2>2. h' \in [Handlers -> HandlerState] /\ \A q \in Handlers : Targeted(h'[q])
    BY <1>2, <2>1, EnterType DEF ClearList
  <2> QED
    BY <1>2, <2>2 DEF ClearList, TypeOK, service
<1>3. ASSUME NEW m \in Msgs, ClearObject(p, m) PROVE TypeOK'
  <2>1. h' \in [Handlers -> HandlerState] /\ \A q \in Handlers : Targeted(h'[q])
    BY <1>3 DEF ClearObject, TypeOK, HandlerState, Targeted
  <2> QED
    BY <1>3, <2>1 DEF ClearObject, TypeOK
<1>4. CASE ClearRows(p)
  <2>1. "clearInvalidate" \in Steps \ (SendSteps \union DeleteSteps)
    BY DEF Steps, ClearSteps, SendSteps, DeleteSteps
  <2>2. h' \in [Handlers -> HandlerState] /\ \A q \in Handlers : Targeted(h'[q])
    BY <1>4, <2>1, GotoType DEF ClearRows
  <2> QED
    BY <1>4, <2>2 DEF ClearRows, TypeOK
<1>5. CASE ClearInvalidate(p)
  <2>1. h[p].chat \in Chats
    BY <1>5 DEF ClearInvalidate, TypeOK, Targeted
  <2> QED
    BY <1>5, <2>1, DelType, IdleType DEF TypeOK, ClearInvalidate
<1> QED
  BY <1>1, <1>2, <1>3, <1>4, <1>5 DEF DeleteChatMessages

LEMMA GetType ==
  ASSUME TypeOK, NEW p \in Handlers, GetMessages(p)
  PROVE  TypeOK'
<1>1. ASSUME NEW c \in Chats, GetHit(p, c) PROVE TypeOK'
  BY <1>1 DEF GetHit, TypeOK, service
<1>2. ASSUME NEW c \in Chats, GetMiss(p, c) PROVE TypeOK'
  <2>1. RowsOf(c) \in SUBSET Msgs /\ "fill" \in Steps \ (SendSteps \union DeleteSteps)
    BY RowsOfType DEF Steps, GetSteps, SendSteps, DeleteSteps
  <2>2. h' \in [Handlers -> HandlerState] /\ \A q \in Handlers : Targeted(h'[q])
    BY <1>2, <2>1 DEF GetMiss, TypeOK, HandlerState, Targeted, Idle
  <2> QED
    BY <1>2, <2>2 DEF GetMiss, TypeOK, service
<1>3. CASE Fill(p)
  <2>1. h[p].chat \in Chats /\ h[p].list \in SUBSET Msgs /\ h[p].raced \in BOOLEAN
    BY <1>3 DEF Fill, TypeOK, Targeted, HandlerState
  <2>2. h' \in [Handlers -> HandlerState] /\ \A q \in Handlers : Targeted(h'[q])
    BY <1>3, IdleType DEF Fill, TypeOK
  <2>3. cache' \in [Chats -> (SUBSET Msgs) \union {NoEntry}] /\ doubt' \in [Chats -> BOOLEAN]
    BY <1>3, <2>1 DEF Fill, TypeOK
  <2> QED
    BY <1>3, <2>2, <2>3 DEF Fill, TypeOK
<1> QED
  BY <1>1, <1>2, <1>3 DEF GetMessages

LEMMA AbortType ==
  ASSUME TypeOK, NEW p \in Handlers, Abort(p)
  PROVE  TypeOK'
<1>1. h[p].chat \in Chats
  BY DEF Abort, TypeOK, Targeted
<1>2. h' \in [Handlers -> HandlerState] /\ \A q \in Handlers : Targeted(h'[q])
  <2>1. CASE Owes(p, h[p].chat)
    BY <1>1, <2>1, PassType, IdleType DEF Abort
  <2>2. CASE ~Owes(p, h[p].chat)
    BY <2>2, IdleType DEF Abort, TypeOK
  <2> QED
    BY <2>1, <2>2
<1>3. doubt' \in [Chats -> BOOLEAN]
  BY <1>1 DEF Abort, TypeOK
<1>5. sound' \in [Chats -> BOOLEAN]
  BY <1>1 DEF Abort, TypeOK
<1>4. halfCleared' \subseteq Keys
  BY DEF Abort, TypeOK
<1> QED
  BY <1>2, <1>3, <1>4, <1>5 DEF Abort, TypeOK, service

LEMMA InitType == Init => TypeOK
<1> SUFFICES ASSUME Init PROVE TypeOK
  OBVIOUS
<1>1. h \in [Handlers -> HandlerState] /\ \A q \in Handlers : Targeted(h[q])
  BY IdleType DEF Init
<1>2. clock \in Nat /\ stamp \in [Msgs -> Nat]
  BY DEF Init
<1> QED
  BY <1>1, <1>2 DEF Init, TypeOK

\* Every step keeps the types, whichever operation it belongs to.
LEMMA NextType == TypeOK /\ [Next]_vars => TypeOK'
<1> SUFFICES ASSUME TypeOK, [Next]_vars PROVE TypeOK'
  OBVIOUS
<1>1. ASSUME NEW p \in Handlers,
             Send(p) \/ DeleteMessage(p) \/ DeleteChatMessages(p) \/ GetMessages(p) \/ Abort(p)
      PROVE  TypeOK'
  BY <1>1, SendType, DeleteType, ClearType, GetType, AbortType
<1>2. ASSUME NEW c \in Chats, Expire(c) PROVE TypeOK'
  BY <1>2 DEF Expire, TypeOK
<1>3. ASSUME NEW m \in Msgs, NotifyDeleteMessage(m) PROVE TypeOK'
  BY <1>3 DEF NotifyDeleteMessage, TypeOK
<1>4. ASSUME NEW k \in Keys, Put(k) PROVE TypeOK'
  BY <1>4 DEF Put, TypeOK
<1>5. CASE LoseNotices
  BY <1>5 DEF LoseNotices, TypeOK
<1>6. CASE UNCHANGED vars
  BY <1>6 DEF vars, service, TypeOK
<1> QED
  BY <1>1, <1>2, <1>3, <1>4, <1>5, <1>6 DEF Next

\* The types hold in every reachable state, for any messages, chats, handlers.
THEOREM TypeCorrect == Spec => []TypeOK
  BY InitType, NextType, PTL DEF Spec
-----------------------------------------------------------------------------
(* A stale list is explained.  The invariant is inductive together with    *)
(* its counterpart for the lists that readers are about to cache.          *)
CacheInv == TypeOK /\ StaleListExplained /\ StaleReadExplained

\* q, a reader about to cache its list, was one before with the same list.
SameReader(q) ==
  h'[q].at = "fill" =>
    /\ h[q].at = "fill" /\ h'[q].chat = h[q].chat /\ h'[q].list = h[q].list
    /\ h[q].raced => h'[q].raced

\* A step that leaves the rows and the cache alone keeps the invariant when it
\* adds no reader and lets nobody off an invalidation.
LEMMA Quiet ==
  ASSUME CacheInv, UNCHANGED <<rows, cache, doubt>>,
         \A q \in Handlers : SameReader(q),
         \A q \in Handlers, d \in Chats : Owes(q, d) => Owes(q, d)'
  PROVE  (StaleListExplained /\ StaleReadExplained)'
<1>1. \A d \in Chats : RowsOf(d)' = RowsOf(d)
  BY DEF RowsOf
<1>2. StaleListExplained'
  BY <1>1 DEF CacheInv, StaleListExplained
<1>3. ASSUME NEW q \in Handlers, h'[q].at = "fill", h'[q].list # RowsOf(h[q].chat)'
      PROVE  h'[q].raced \/ \E r \in Handlers : Owes(r, h[q].chat)'
  <2>1. h[q].chat \in Chats /\ h'[q].chat = h[q].chat /\ h[q].at = "fill"
    BY <1>3 DEF CacheInv, TypeOK, Targeted, SameReader
  <2>2. h[q].list # RowsOf(h[q].chat)
    BY <1>3, <2>1 DEF SameReader, RowsOf
  <2>3. h[q].raced \/ \E r \in Handlers : Owes(r, h[q].chat)
    BY <2>1, <2>2 DEF CacheInv, StaleReadExplained
  <2>4. \A r \in Handlers : Owes(r, h[q].chat) => Owes(r, h[q].chat)'
    BY <2>1 DEF Owes
  <2> QED
    BY <1>3, <2>1, <2>3, <2>4 DEF SameReader
<1> QED
  BY <1>2, <1>3 DEF StaleReadExplained

\* A step that touches the rows or the cache of chat c only keeps it when it
\* leaves c's entry and c's readers explained.
LEMMA Local ==
  ASSUME CacheInv, NEW c \in Chats,
         \A d \in Chats \ {c} :
            RowsOf(d)' = RowsOf(d) /\ cache'[d] = cache[d] /\ doubt'[d] = doubt[d],
         \A q \in Handlers, d \in Chats \ {c} : Owes(q, d) => Owes(q, d)',
         \A q \in Handlers : SameReader(q),
         \/ cache'[c] = NoEntry \/ doubt'[c] \/ \E q \in Handlers : Owes(q, c)',
         \/ \E q \in Handlers : Owes(q, c)'
         \/ \A q \in Handlers : h'[q].at = "fill" /\ h'[q].chat = c => h'[q].raced
  PROVE  (StaleListExplained /\ StaleReadExplained)'
<1>1. StaleListExplained'
  BY DEF CacheInv, StaleListExplained
<1>2. ASSUME NEW q \in Handlers, h'[q].at = "fill", h'[q].list # RowsOf(h[q].chat)'
      PROVE  h'[q].raced \/ \E r \in Handlers : Owes(r, h[q].chat)'
  <2>1. h[q].chat \in Chats /\ h'[q].chat = h[q].chat /\ h[q].at = "fill"
    BY <1>2 DEF CacheInv, TypeOK, Targeted, SameReader
  <2>2. CASE h[q].chat = c
    BY <1>2, <2>1, <2>2 DEF Owes
  <2>3. CASE h[q].chat # c
    <3>1. RowsOf(h[q].chat)' = RowsOf(h[q].chat)
      BY <2>1, <2>3 DEF RowsOf
    <3>2. h[q].raced \/ \E r \in Handlers : Owes(r, h[q].chat)
      BY <1>2, <2>1, <3>1 DEF CacheInv, StaleReadExplained, SameReader
    <3>3. \A r \in Handlers : Owes(r, h[q].chat) => Owes(r, h[q].chat)'
      BY <2>1, <2>3 DEF Owes
    <3> QED
      BY <1>2, <2>1, <3>2, <3>3 DEF SameReader
  <2> QED
    BY <2>2, <2>3
<1> QED
  BY <1>1, <1>2 DEF StaleReadExplained

\* What the helpers do to the readers and to what the other handlers owe.
LEMMA EnterReaders ==
  ASSUME TypeOK, NEW p \in Handlers, NEW c, NEW at, NEW m, NEW list,
         h[p].at = "idle", at # "fill", Enter(p, c, at, m, list)
  PROVE  /\ \A q \in Handlers : SameReader(q)
         /\ \A q \in Handlers, d \in Chats : Owes(q, d) => Owes(q, d)'
         /\ h'[p].at = at /\ h'[p].chat = c
<1>1. h'[p].at = at /\ h'[p].chat = c
  BY DEF Enter, Idle
<1>2. ASSUME NEW q \in Handlers, q # p
      PROVE  /\ h'[q].at = h[q].at /\ h'[q].chat = h[q].chat
             /\ h'[q].list = h[q].list /\ h'[q].raced = h[q].raced
  BY <1>2 DEF Enter, TypeOK, HandlerState
<1> QED
  BY <1>1, <1>2 DEF SameReader, Owes

LEMMA GotoReaders ==
  ASSUME TypeOK, NEW p \in Handlers, NEW at, at # "fill", Goto(p, at)
  PROVE  /\ \A q \in Handlers : SameReader(q)
         /\ \A q \in Handlers \ {p}, d \in Chats : Owes(q, d) => Owes(q, d)'
         /\ h'[p].at = at /\ h'[p].chat = h[p].chat
  BY DEF Goto, TypeOK, HandlerState, SameReader, Owes

LEMMA IdleReaders ==
  ASSUME TypeOK, NEW p \in Handlers, h' = [h EXCEPT ![p] = Idle]
  PROVE  /\ \A q \in Handlers : SameReader(q)
         /\ \A q \in Handlers \ {p}, d \in Chats : Owes(q, d) => Owes(q, d)'
  BY DEF Idle, TypeOK, SameReader, Owes

LEMMA PassReaders ==
  ASSUME TypeOK, NEW p \in Handlers, NEW c, NEW next, next.at # "fill",
         PassInvalidation(p, c, next)
  PROVE  /\ \A q \in Handlers : SameReader(q)
         /\ \A q \in Handlers \ {p}, d \in Chats : Owes(q, d) => Owes(q, d)'
         /\ \A q \in Handlers : h'[q].at = "fill" /\ h'[q].chat = c => h'[q].raced
<1>1. h'[p] = next
  BY DEF PassInvalidation
<1>2. ASSUME NEW q \in Handlers, q # p
      PROVE  /\ h'[q].at = h[q].at /\ h'[q].chat = h[q].chat /\ h'[q].list = h[q].list
             /\ h[q].raced => h'[q].raced
             /\ h[q].at = "fill" /\ h[q].chat = c => h'[q].raced
  BY <1>2 DEF PassInvalidation, TypeOK, HandlerState
<1> QED
  BY <1>1, <1>2 DEF SameReader, Owes

\* cache.Del, answered or not, settles what its caller owes.
LEMMA DelInv ==
  ASSUME CacheInv, NEW p \in Handlers, NEW next, next.at # "fill", h[p].chat \in Chats,
         Del(p, h[p].chat, next), UNCHANGED rows
  PROVE  (StaleListExplained /\ StaleReadExplained)'
<1> DEFINE c == h[p].chat
<1>1. PICK ok \in BOOLEAN :
           /\ cache' = IF ok THEN [cache EXCEPT ![c] = NoEntry] ELSE cache
           /\ doubt' = [doubt EXCEPT ![c] = ~ok]
           /\ PassInvalidation(p, c, next)
  BY DEF Del
<1>2. \A d \in Chats \ {c} :
         RowsOf(d)' = RowsOf(d) /\ cache'[d] = cache[d] /\ doubt'[d] = doubt[d]
  BY <1>1 DEF CacheInv, TypeOK, RowsOf
<1>3. cache'[c] = NoEntry \/ doubt'[c]
  BY <1>1 DEF CacheInv, TypeOK
<1>4. /\ \A q \in Handlers : SameReader(q)
      /\ \A q \in Handlers \ {p}, d \in Chats : Owes(q, d) => Owes(q, d)'
      /\ \A q \in Handlers : h'[q].at = "fill" /\ h'[q].chat = c => h'[q].raced
  BY <1>1, PassReaders DEF CacheInv
<1>5. \A q \in Handlers, d \in Chats \ {c} : Owes(q, d) => Owes(q, d)'
  BY <1>4 DEF Owes
<1>6. c \in Chats
  OBVIOUS
<1> HIDE DEF c
<1> QED
  BY <1>2, <1>3, <1>4, <1>5, <1>6, Local

LEMMA SendInv ==
  ASSUME CacheInv, NEW p \in Handlers, Send(p)
  PROVE  (StaleListExplained /\ StaleReadExplained)'
<1> USE DEF CacheInv
<1>1. ASSUME NEW m \in Msgs, SendBegin(p, m)
      PROVE  (StaleListExplained /\ StaleReadExplained)'
  <2>1. /\ \A q \in Handlers : SameReader(q)
        /\ \A q \in Handlers, d \in Chats : Owes(q, d) => Owes(q, d)'
    BY <1>1, EnterReaders DEF SendBegin
  <2> QED
    BY <1>1, <2>1, Quiet DEF SendBegin
<1>2. CASE SendInsert(p)
  <2>1. PICK c \in Chats : c = h[p].chat
    BY <1>2 DEF SendInsert, TypeOK, Targeted
  <2>2. h[p].msg \in Msgs /\ ChatOf[h[p].msg] = c /\ ~ \E d \in Chats : Owes(p, d)
    BY <1>2, <2>1 DEF SendInsert, TypeOK, Targeted, SendSteps, Owes
  <2>3. /\ \A q \in Handlers : SameReader(q)
        /\ \A q \in Handlers, d \in Chats : Owes(q, d) => Owes(q, d)'
        /\ \E q \in Handlers : Owes(q, c)'
    BY <1>2, <2>1, <2>2, GotoReaders DEF SendInsert, Owes
  <2>4. \A d \in Chats \ {c} : RowsOf(d)' = RowsOf(d)
    BY <1>2, <2>2 DEF SendInsert, RowsOf
  <2>5. UNCHANGED <<cache, doubt>>
    BY <1>2 DEF SendInsert
  <2> QED
    BY <2>3, <2>4, <2>5, Local
<1>3. CASE SendInvalidate(p)
  <2>1. h[p].chat \in Chats /\ [h[p] EXCEPT !.at = "sendPreview"].at # "fill"
    BY <1>3 DEF SendInvalidate, TypeOK, Targeted, HandlerState
  <2> QED
    BY <1>3, <2>1, DelInv DEF SendInvalidate
<1>4. CASE SendPreview(p)
  <2>1. /\ \A q \in Handlers : SameReader(q)
        /\ \A q \in Handlers, d \in Chats : Owes(q, d) => Owes(q, d)'
    BY <1>4, IdleReaders DEF SendPreview, Owes
  <2> QED
    BY <1>4, <2>1, Quiet DEF SendPreview
<1> QED
  BY <1>1, <1>2, <1>3, <1>4 DEF Send

LEMMA DeleteInv ==
  ASSUME CacheInv, NEW p \in Handlers, DeleteMessage(p)
  PROVE  (StaleListExplained /\ StaleReadExplained)'
<1> USE DEF CacheInv
<1>1. CASE DeleteMiss(p)
  BY <1>1, Quiet DEF DeleteMiss, service, SameReader, Owes
<1>2. ASSUME NEW m \in Msgs, DeleteText(p, m)
      PROVE  (StaleListExplained /\ StaleReadExplained)'
  <2> DEFINE c == ChatOf[m]
  <2>1. c \in Chats
    OBVIOUS
  <2>2. \A d \in Chats \ {c} :
           RowsOf(d)' = RowsOf(d) /\ cache'[d] = cache[d] /\ doubt'[d] = doubt[d]
    BY <1>2 DEF DeleteText, RowsOf, TypeOK
  <2>3. ASSUME NEW q \in Handlers
        PROVE  /\ h'[q].at = h[q].at /\ h'[q].chat = h[q].chat /\ h'[q].list = h[q].list
               /\ h[q].raced => h'[q].raced
               /\ h[q].at = "fill" /\ h[q].chat = c => h'[q].raced
    BY <1>2 DEF DeleteText, TypeOK, HandlerState
  <2>4. /\ \A q \in Handlers : SameReader(q)
        /\ \A q \in Handlers, d \in Chats \ {c} : Owes(q, d) => Owes(q, d)'
        /\ \A q \in Handlers : h'[q].at = "fill" /\ h'[q].chat = c => h'[q].raced
    BY <2>3 DEF SameReader, Owes
  <2>5. doubt'[c]
    BY <1>2, <2>1 DEF DeleteText, TypeOK
  <2> HIDE DEF c
  <2> QED
    BY <2>1, <2>2, <2>4, <2>5, Local
<1>3. ASSUME NEW m \in Msgs, DeleteFile(p, m)
      PROVE  (StaleListExplained /\ StaleReadExplained)'
  <2> DEFINE c == ChatOf[m]
  <2>1. c \in Chats
    OBVIOUS
  <2>2. /\ \A q \in Handlers : SameReader(q)
        /\ \A q \in Handlers, d \in Chats : Owes(q, d) => Owes(q, d)'
        /\ Owes(p, c)'
    BY <1>3, EnterReaders DEF DeleteFile, Owes
  <2>3. \A d \in Chats \ {c} :
           RowsOf(d)' = RowsOf(d) /\ cache'[d] = cache[d] /\ doubt'[d] = doubt[d]
    BY <1>3 DEF DeleteFile, RowsOf
  <2>4. \E q \in Handlers : Owes(q, c)'
    BY <2>2
  <2> HIDE DEF c
  <2> QED
    BY <2>1, <2>2, <2>3, <2>4, Local
<1>4. CASE DeleteObject(p)
  <2>1. /\ \A q \in Handlers : SameReader(q)
        /\ \A q \in Handlers, d \in Chats : Owes(q, d) => Owes(q, d)'
    BY <1>4, GotoReaders DEF DeleteObject, Owes
  <2> QED
    BY <1>4, <2>1, Quiet DEF DeleteObject
<1>5. CASE DeleteObjectFails(p)
  <2> DEFINE c == h[p].chat
  <2>1. c \in Chats
    BY <1>5 DEF DeleteObjectFails, TypeOK, Targeted
  <2>2. /\ \A q \in Handlers : SameReader(q)
        /\ \A q \in Handlers \ {p}, d \in Chats : Owes(q, d) => Owes(q, d)'
        /\ \A q \in Handlers : h'[q].at = "fill" /\ h'[q].chat = c => h'[q].raced
    BY <1>5, PassReaders DEF DeleteObjectFails, Idle
  <2>3. \A q \in Handlers, d \in Chats \ {c} : Owes(q, d) => Owes(q, d)'
    BY <2>2 DEF Owes
  <2>4. \A d \in Chats \ {c} :
           RowsOf(d)' = RowsOf(d) /\ cache'[d] = cache[d] /\ doubt'[d] = doubt[d]
    BY <1>5 DEF DeleteObjectFails, RowsOf, TypeOK
  <2>5. doubt'[c]
    BY <1>5, <2>1 DEF DeleteObjectFails, TypeOK
  <2> HIDE DEF c
  <2> QED
    BY <2>1, <2>2, <2>3, <2>4, <2>5, Local
<1>6. CASE DeleteInvalidate(p)
  <2>1. h[p].chat \in Chats /\ [h[p] EXCEPT !.at = "selectLatest"].at # "fill"
    BY <1>6 DEF DeleteInvalidate, TypeOK, Targeted, HandlerState
  <2> QED
    BY <1>6, <2>1, DelInv DEF DeleteInvalidate
<1>7. CASE SelectLatest(p)
  <2>1. /\ \A q \in Handlers : SameReader(q)
        /\ \A q \in Handlers, d \in Chats : Owes(q, d) => Owes(q, d)'
    BY <1>7 DEF SelectLatest, TypeOK, HandlerState, SameReader, Owes
  <2> QED
    BY <1>7, <2>1, Quiet DEF SelectLatest, service
<1>8. CASE DeletePreview(p)
  <2>1. /\ \A q \in Handlers : SameReader(q)
        /\ \A q \in Handlers, d \in Chats : Owes(q, d) => Owes(q, d)'
    BY <1>8, IdleReaders DEF DeletePreview, Owes
  <2> QED
    BY <1>8, <2>1, Quiet DEF DeletePreview
<1> QED
  BY <1>1, <1>2, <1>3, <1>4, <1>5, <1>6, <1>7, <1>8 DEF DeleteMessage

LEMMA ClearInv ==
  ASSUME CacheInv, NEW p \in Handlers, DeleteChatMessages(p)
  PROVE  (StaleListExplained /\ StaleReadExplained)'
<1> USE DEF CacheInv
<1>1. ASSUME NEW c \in Chats, ClearFails(p, c)
      PROVE  (StaleListExplained /\ StaleReadExplained)'
  BY <1>1, Quiet DEF ClearFails, service, SameReader, Owes
<1>2. ASSUME NEW c \in Chats, ClearList(p, c)
      PROVE  (StaleListExplained /\ StaleReadExplained)'
  <2>1. /\ \A q \in Handlers : SameReader(q)
        /\ \A q \in Handlers, d \in Chats : Owes(q, d) => Owes(q, d)'
    BY <1>2, EnterReaders DEF ClearList
  <2> QED
    BY <1>2, <2>1, Quiet DEF ClearList, service
<1>3. ASSUME NEW m \in Msgs, ClearObject(p, m)
      PROVE  (StaleListExplained /\ StaleReadExplained)'
  <2>1. /\ \A q \in Handlers : SameReader(q)
        /\ \A q \in Handlers, d \in Chats : Owes(q, d) => Owes(q, d)'
    BY <1>3 DEF ClearObject, TypeOK, HandlerState, SameReader, Owes
  <2> QED
    BY <1>3, <2>1, Quiet DEF ClearObject
<1>4. CASE ClearRows(p)
  <2>1. PICK c \in Chats : c = h[p].chat
    BY <1>4 DEF ClearRows, TypeOK, Targeted
  <2>2. /\ \A q \in Handlers : SameReader(q)
        /\ \A q \in Handlers, d \in Chats : Owes(q, d) => Owes(q, d)'
        /\ \E q \in Handlers : Owes(q, c)'
    BY <1>4, <2>1, GotoReaders DEF ClearRows, Owes
  <2>3. \A d \in Chats \ {c} : RowsOf(d)' = RowsOf(d)
    BY <1>4, <2>1 DEF ClearRows, RowsOf
  <2>4. UNCHANGED <<cache, doubt>>
    BY <1>4 DEF ClearRows
  <2> QED
    BY <2>2, <2>3, <2>4, Local
<1>5. CASE ClearInvalidate(p)
  <2>1. h[p].chat \in Chats /\ Idle.at # "fill"
    BY <1>5 DEF ClearInvalidate, TypeOK, Targeted, Idle
  <2> QED
    BY <1>5, <2>1, DelInv DEF ClearInvalidate
<1> QED
  BY <1>1, <1>2, <1>3, <1>4, <1>5 DEF DeleteChatMessages

LEMMA GetInv ==
  ASSUME CacheInv, NEW p \in Handlers, GetMessages(p)
  PROVE  (StaleListExplained /\ StaleReadExplained)'
<1> USE DEF CacheInv
<1>1. ASSUME NEW c \in Chats, GetHit(p, c)
      PROVE  (StaleListExplained /\ StaleReadExplained)'
  BY <1>1, Quiet DEF GetHit, service, SameReader, Owes
<1>2. ASSUME NEW c \in Chats, GetMiss(p, c)
      PROVE  (StaleListExplained /\ StaleReadExplained)'
  <2>1. \A q \in Handlers \ {p} : h'[q] = h[q]
    BY <1>2 DEF GetMiss, TypeOK
  <2>2. h'[p].at = "fill" /\ h'[p].chat = c /\ h'[p].list = RowsOf(c)
    BY <1>2 DEF GetMiss, TypeOK, Idle
  <2>3. \A d \in Chats : RowsOf(d)' = RowsOf(d)
    BY <1>2 DEF GetMiss, service, RowsOf
  <2>4. \A q \in Handlers, d \in Chats : Owes(q, d) => Owes(q, d)'
    BY <1>2, <2>1 DEF GetMiss, Owes
  <2>5. StaleListExplained'
    BY <1>2, <2>3, <2>4 DEF GetMiss, service, StaleListExplained
  <2>6. ASSUME NEW q \in Handlers, h'[q].at = "fill", h'[q].list # RowsOf(h[q].chat)'
        PROVE  h'[q].raced \/ \E r \in Handlers : Owes(r, h[q].chat)'
    <3>1. q # p
      BY <1>2, <2>2, <2>6 DEF RowsOf, GetMiss, service
    <3>2. h[q].list # RowsOf(h[q].chat) /\ h'[q] = h[q] /\ h[q].chat \in Chats
      BY <1>2, <2>1, <2>6, <3>1 DEF RowsOf, GetMiss, service, TypeOK, Targeted
    <3>3. h[q].raced \/ \E r \in Handlers : Owes(r, h[q].chat)
      BY <2>6, <3>2 DEF StaleReadExplained
    <3>4. \A r \in Handlers : Owes(r, h[q].chat) => Owes(r, h[q].chat)'
      BY <1>2, <2>1, <3>2 DEF GetMiss, Owes
    <3> QED
      BY <3>2, <3>3, <3>4
  <2> QED
    BY <2>5, <2>6 DEF StaleReadExplained
<1>3. CASE Fill(p)
  <2> DEFINE c == h[p].chat
  <2>1. c \in Chats /\ ~ \E d \in Chats : Owes(p, d)
    BY <1>3 DEF Fill, TypeOK, Targeted, Owes
  <2>2. /\ \A q \in Handlers : SameReader(q)
        /\ \A q \in Handlers, d \in Chats : Owes(q, d) => Owes(q, d)'
    BY <1>3, <2>1, IdleReaders DEF Fill
  <2>3. \A d \in Chats :
           RowsOf(d)' = RowsOf(d)
    BY <1>3 DEF Fill, RowsOf
  <2>4. PICK ok \in BOOLEAN :
           /\ cache' = IF ok THEN [cache EXCEPT ![c] = h[p].list] ELSE cache
           /\ doubt' = IF ok THEN [doubt EXCEPT ![c] = h[p].raced] ELSE doubt
    BY <1>3 DEF Fill
  <2>5. ASSUME NEW d \in Chats, cache'[d] # NoEntry, cache'[d] # RowsOf(d)'
        PROVE  doubt'[d] \/ \E q \in Handlers : Owes(q, d)'
    <3>1. CASE ok /\ d = c
      <4>1. cache'[d] = h[p].list /\ doubt'[d] = h[p].raced
        BY <2>1, <2>4, <3>1 DEF TypeOK
      <4>2. h[p].raced \/ \E q \in Handlers : Owes(q, d)
        BY <1>3, <2>3, <2>5, <3>1, <4>1 DEF StaleReadExplained, Fill
      <4> QED
        BY <2>2, <4>1, <4>2
    <3>2. CASE ~ok \/ d # c
      <4>1. cache'[d] = cache[d] /\ doubt'[d] = doubt[d]
        BY <2>1, <2>4, <3>2 DEF TypeOK
      <4> QED
        BY <2>2, <2>3, <2>5, <4>1 DEF StaleListExplained
    <3> QED
      BY <3>1, <3>2
  <2>6. StaleListExplained'
    BY <2>5 DEF StaleListExplained
  <2>7. ASSUME NEW q \in Handlers, h'[q].at = "fill", h'[q].list # RowsOf(h[q].chat)'
        PROVE  h'[q].raced \/ \E r \in Handlers : Owes(r, h[q].chat)'
    <3>1. q # p /\ h'[q] = h[q] /\ h[q].chat \in Chats
      BY <1>3, <2>7 DEF Fill, Idle, TypeOK, Targeted
    <3>2. h[q].raced \/ \E r \in Handlers : Owes(r, h[q].chat)
      BY <1>3, <2>7, <3>1 DEF StaleReadExplained, Fill, RowsOf
    <3>3. \A r \in Handlers : Owes(r, h[q].chat) => Owes(r, h[q].chat)'
      BY <1>3, <3>1 DEF Fill, Owes, TypeOK
    <3> QED
      BY <3>1, <3>2, <3>3
  <2> QED
    BY <2>6, <2>7 DEF StaleReadExplained
<1> QED
  BY <1>1, <1>2, <1>3 DEF GetMessages

LEMMA AbortInv ==
  ASSUME CacheInv, NEW p \in Handlers, Abort(p)
  PROVE  (StaleListExplained /\ StaleReadExplained)'
<1> USE DEF CacheInv
<1> DEFINE c == h[p].chat
<1>1. c \in Chats
  BY DEF Abort, TypeOK, Targeted
<1>2. CASE Owes(p, c)
  <2>1. PassInvalidation(p, c, Idle) /\ doubt' = [doubt EXCEPT ![c] = TRUE]
    BY <1>2 DEF Abort
  <2>2. /\ \A q \in Handlers : SameReader(q)
        /\ \A q \in Handlers \ {p}, d \in Chats : Owes(q, d) => Owes(q, d)'
        /\ \A q \in Handlers : h'[q].at = "fill" /\ h'[q].chat = c => h'[q].raced
    BY <2>1, PassReaders DEF Idle
  <2>3. \A q \in Handlers, d \in Chats \ {c} : Owes(q, d) => Owes(q, d)'
    BY <2>2 DEF Owes
  <2>4. \A d \in Chats \ {c} :
           RowsOf(d)' = RowsOf(d) /\ cache'[d] = cache[d] /\ doubt'[d] = doubt[d]
    BY <2>1 DEF Abort, service, RowsOf, TypeOK
  <2>5. doubt'[c]
    BY <1>1, <2>1 DEF TypeOK
  <2> HIDE DEF c
  <2> QED
    BY <1>1, <2>2, <2>3, <2>4, <2>5, Local
<1>3. CASE ~Owes(p, c)
  <2>1. h' = [h EXCEPT ![p] = Idle] /\ doubt' = doubt
    BY <1>3 DEF Abort
  <2>2. /\ \A q \in Handlers : SameReader(q)
        /\ \A q \in Handlers, d \in Chats : Owes(q, d) => Owes(q, d)'
    BY <1>3, <2>1, IdleReaders DEF Owes
  <2> QED
    BY <2>1, <2>2, Quiet DEF Abort, service
<1> QED
  BY <1>2, <1>3

LEMMA NextCacheInv == CacheInv /\ [Next]_vars => CacheInv'
<1> SUFFICES ASSUME CacheInv, [Next]_vars PROVE (StaleListExplained /\ StaleReadExplained)'
  BY NextType DEF CacheInv
<1>1. ASSUME NEW p \in Handlers,
             Send(p) \/ DeleteMessage(p) \/ DeleteChatMessages(p) \/ GetMessages(p) \/ Abort(p)
      PROVE  (StaleListExplained /\ StaleReadExplained)'
  BY <1>1, SendInv, DeleteInv, ClearInv, GetInv, AbortInv
<1>2. ASSUME NEW c \in Chats, Expire(c)
      PROVE  (StaleListExplained /\ StaleReadExplained)'
  <2>1. \A d \in Chats \ {c} :
           RowsOf(d)' = RowsOf(d) /\ cache'[d] = cache[d] /\ doubt'[d] = doubt[d]
    BY <1>2 DEF Expire, RowsOf, CacheInv, TypeOK
  <2>2. cache'[c] = NoEntry /\ rows' = rows /\ h' = h
    BY <1>2 DEF Expire, CacheInv, TypeOK
  <2>3. StaleListExplained'
    BY <2>1, <2>2 DEF CacheInv, StaleListExplained, Owes
  <2>4. StaleReadExplained'
    BY <2>2 DEF CacheInv, StaleReadExplained, Owes, RowsOf
  <2> QED
    BY <2>3, <2>4
<1>3. ASSUME NEW m \in Msgs, NotifyDeleteMessage(m)
      PROVE  (StaleListExplained /\ StaleReadExplained)'
  BY <1>3, Quiet DEF NotifyDeleteMessage, SameReader, Owes
<1>4. ASSUME NEW k \in Keys, Put(k)
      PROVE  (StaleListExplained /\ StaleReadExplained)'
  BY <1>4, Quiet DEF Put, SameReader, Owes
<1>5. CASE LoseNotices
  BY <1>5, Quiet DEF LoseNotices, SameReader, Owes
<1>6. CASE UNCHANGED vars
  BY <1>6, Quiet DEF vars, service, SameReader, Owes
<1> QED
  BY <1>1, <1>2, <1>3, <1>4, <1>5, <1>6 DEF Next

LEMMA InitCacheInv == Init => CacheInv
  BY InitType DEF CacheInv, Init, StaleListExplained, StaleReadExplained, Idle

\* In every reachable state a cached list that differs from the table is the
\* work of a writer on its way to its Del, of a Del that was lost, or of a
\* reader overtaken by one: GetMessages, SendMessage, DeleteMessage and
\* DeleteChatMessages leave no other way for a list to be stale.
THEOREM StaleListsExplained == Spec => []StaleListExplained
<1>1. CacheInv => StaleListExplained
  BY DEF CacheInv
<1> QED
  BY InitCacheInv, NextCacheInv, <1>1, PTL DEF Spec

\* The same of the lists that readers are about to cache.
THEOREM StaleReadsExplained == Spec => []StaleReadExplained
<1>1. CacheInv => StaleReadExplained
  BY DEF CacheInv
<1> QED
  BY InitCacheInv, NextCacheInv, <1>1, PTL DEF Spec

-----------------------------------------------------------------------------
(* The preview.                                                            *)

\* m has been sent and its INSERT is over, whatever became of the row.
Born(m) ==
  stamp[m] # 0 /\ \A q \in Handlers : ~ (h[q].at = "insert" /\ h[q].msg = m)

\* What is in the table is born, and each message has one sender.
Sent ==
  /\ \A m \in rows : Born(m)
  /\ \A p \in Handlers : h[p].at = "insert" =>
       /\ stamp[h[p].msg] # 0
       /\ \A q \in Handlers : h[q].at = "insert" /\ h[q].msg = h[p].msg => q = p

Dated == \A m \in Msgs : stamp[m] <= clock

\* A writer who has been alone is alone.
OnlyOne ==
  \A p, q \in Handlers, c \in Chats :
    Writing(p, c) /\ h[p].alone /\ Writing(q, c) => q = p

\* What it knows of the log still holds.
Knows(p) ==
  /\ h[p].at = "insert" => \A n \in RowsOf(h[p].chat) : stamp[n] <= stamp[h[p].msg]
  /\ h[p].at \in {"sendInvalidate", "sendPreview"} => h[p].msg \in Latest(h[p].chat)
  /\ h[p].at = "deletePreview" => h[p].list = Latest(h[p].chat)

LoneWriterKnows == \A p \in Handlers : h[p].alone => Knows(p)

\* p has changed the rows of c and will have its say about the preview.
WillSay(p, c) ==
  h[p].chat = c /\ h[p].at \in {"sendInvalidate", "sendPreview"} \union DeleteSteps

PreviewOwed ==
  \A c \in Chats : sound[c] /\ RowsOf(c) # {} =>
    preview[c] \in Latest(c) \/ \E p \in Handlers : WillSay(p, c)

LogInv ==
  TypeOK /\ Sent /\ Dated /\ OnlyOne /\ LoneWriterKnows /\ PreviewOwed

-----------------------------------------------------------------------------
LEMMA SmallestNumber ==
  ASSUME NEW T, T \subseteq Nat, T # {}
  PROVE  \E x \in T : \A y \in T : x <= y
<1> DEFINE R == OpToRel(<, Nat)
<1>1. IsWellFoundedOn(R, Nat)
  BY NatLessThanWellFounded
<1>2. \A x, y \in Nat : x < y => <<x, y>> \in R
  BY DEF OpToRel
<1> HIDE DEF R
<1>3. PICK x \in T : \A y \in T : ~ (<<y, x>> \in R)
  BY <1>1, WFMin
<1>4. ASSUME NEW y \in T PROVE x <= y
  <2>1. ~ (y < x)
    BY <1>2, <1>3
  <2> QED
    BY <2>1
<1> QED
  BY <1>4

\* A chat that has messages has a newest one.
LEMMA LatestExists ==
  ASSUME TypeOK, Dated, NEW c \in Chats, RowsOf(c) # {}
  PROVE  Latest(c) # {}
<1> DEFINE T == {clock - stamp[m] : m \in RowsOf(c)}
<1>1. ASSUME NEW m \in RowsOf(c)
      PROVE  m \in Msgs /\ stamp[m] \in Nat /\ clock - stamp[m] \in Nat
  <2>1. m \in Msgs /\ stamp[m] \in Nat /\ clock \in Nat /\ stamp[m] <= clock
    BY DEF RowsOf, TypeOK, Dated
  <2> QED
    BY <2>1
<1>2. T \subseteq Nat /\ T # {}
  BY <1>1
<1>3. PICK x \in T : \A y \in T : x <= y
  <2> HIDE DEF T
  <2> QED
    BY <1>2, SmallestNumber
<1>4. PICK m \in RowsOf(c) : x = clock - stamp[m]
  OBVIOUS
<1>5. ASSUME NEW n \in RowsOf(c) PROVE stamp[n] <= stamp[m]
  <2>1. clock - stamp[m] <= clock - stamp[n]
    BY <1>3, <1>4
  <2>2. clock \in Nat /\ stamp[n] \in Nat /\ stamp[m] \in Nat
    BY <1>1 DEF TypeOK
  <2> QED
    BY <2>1, <2>2
<1> QED
  BY <1>4, <1>5 DEF Latest

\* q goes on where it was.
Keeps(q) ==
  /\ h'[q].at = h[q].at /\ h'[q].msg = h[q].msg
  /\ h'[q].chat = h[q].chat /\ h'[q].list = h[q].list
  /\ h'[q].alone => h[q].alone

LEMMA EnterKeeps ==
  ASSUME TypeOK, NEW p \in Handlers, NEW c \in Chats, NEW at, NEW m, NEW list,
         Enter(p, c, at, m, list)
  PROVE  /\ \A q \in Handlers \ {p} : Keeps(q)
         /\ \A q \in Handlers \ {p} : Writing(q, c) => ~ h'[q].alone
         /\ h'[p].at = at /\ h'[p].msg = m /\ h'[p].chat = c /\ h'[p].list = list
         /\ h'[p].alone => Alone(c)
<1>1. /\ h'[p].at = at /\ h'[p].msg = m /\ h'[p].chat = c /\ h'[p].list = list
      /\ h'[p].alone <=> Alone(c)
  BY DEF Enter, Idle, Alone
<1>2. ASSUME NEW q \in Handlers \ {p} PROVE Keeps(q) /\ (Writing(q, c) => ~ h'[q].alone)
  <2>1. h'[q] = IF Writing(q, c) THEN [h[q] EXCEPT !.alone = FALSE] ELSE h[q]
    BY DEF Enter
  <2>2. h[q] \in HandlerState
    BY DEF TypeOK
  <2> QED
    BY <2>1, <2>2 DEF Keeps, HandlerState
<1> QED
  BY <1>1, <1>2

LEMMA GotoKeeps ==
  ASSUME TypeOK, NEW p \in Handlers, NEW at, Goto(p, at)
  PROVE  /\ \A q \in Handlers \ {p} : Keeps(q)
         /\ h'[p].at = at /\ h'[p].msg = h[p].msg /\ h'[p].chat = h[p].chat
         /\ h'[p].list = h[p].list /\ (h'[p].alone => h[p].alone)
  BY DEF Goto, TypeOK, HandlerState, Keeps

LEMMA IdleKeeps ==
  ASSUME TypeOK, NEW p \in Handlers, h' = [h EXCEPT ![p] = Idle]
  PROVE  /\ \A q \in Handlers \ {p} : Keeps(q)
         /\ h'[p].at = "idle"
  BY DEF Idle, TypeOK, Keeps

LEMMA PassKeeps ==
  ASSUME TypeOK, NEW p \in Handlers, NEW c, NEW next, PassInvalidation(p, c, next)
  PROVE  /\ \A q \in Handlers \ {p} : Keeps(q)
         /\ h'[p] = next
<1>1. h'[p] = next
  BY DEF PassInvalidation
<1>2. ASSUME NEW q \in Handlers \ {p} PROVE Keeps(q)
  <2>1. h'[q] = IF h[q].at = "fill" /\ h[q].chat = c THEN [h[q] EXCEPT !.raced = TRUE] ELSE h[q]
    BY DEF PassInvalidation
  <2>2. h[q] \in HandlerState
    BY DEF TypeOK
  <2> QED
    BY <2>1, <2>2 DEF Keeps, HandlerState
<1> QED
  BY <1>1, <1>2

\* q begins no INSERT.
Ends(q) ==
  \/ h'[q].at # "insert"
  \/ h'[q].at = h[q].at /\ h'[q].msg = h[q].msg

LEMMA SentStays ==
  ASSUME TypeOK, Sent, Dated, UNCHANGED <<stamp, clock>>, rows' \subseteq rows,
         \A q \in Handlers : Ends(q)
  PROVE  Sent' /\ Dated'
<1>1. \A m \in Msgs : Born(m) => Born(m)'
  BY DEF Born, Ends
<1>2. Sent'
  BY <1>1 DEF Sent, Ends, TypeOK
<1>3. Dated'
  BY DEF Dated
<1> QED
  BY <1>2, <1>3

\* Whoever writes has written before, and is not alone unless it was.
StillWrites(q) ==
  \A c \in Chats : Writing(q, c)' => Writing(q, c) /\ (h'[q].alone => h[q].alone)

LEMMA OnlyOneStays ==
  ASSUME OnlyOne, \A q \in Handlers : StillWrites(q)
  PROVE  OnlyOne'
  BY DEF OnlyOne, StillWrites

LEMMA OnlyOneEnters ==
  ASSUME TypeOK, OnlyOne, NEW p \in Handlers, NEW c \in Chats, NEW at, NEW m, NEW list,
         Enter(p, c, at, m, list)
  PROVE  OnlyOne'
<1>1. /\ \A q \in Handlers \ {p} : Keeps(q)
      /\ \A q \in Handlers \ {p} : Writing(q, c) => ~ h'[q].alone
      /\ h'[p].chat = c
      /\ h'[p].alone => Alone(c)
  BY EnterKeeps
<1>2. ASSUME NEW q \in Handlers, NEW r \in Handlers, NEW d \in Chats,
             Writing(q, d)', h'[q].alone, Writing(r, d)'
      PROVE  r = q
  <2>1. CASE q = p
    BY <1>1, <1>2, <2>1 DEF Writing, Keeps, Alone
  <2>2. CASE q # p /\ r = p
    BY <1>1, <1>2, <2>2 DEF Writing, Keeps
  <2>3. CASE q # p /\ r # p
    BY <1>1, <1>2, <2>3 DEF Writing, Keeps, OnlyOne
  <2> QED
    BY <2>1, <2>2, <2>3
<1> QED
  BY <1>2 DEF OnlyOne

LEMMA LogStays ==
  ASSUME UNCHANGED <<rows, stamp>>
  PROVE  \A c \in Chats : RowsOf(c)' = RowsOf(c) /\ Latest(c)' = Latest(c)
  BY DEF RowsOf, Latest

\* A step that leaves the log alone.
LEMMA LoneStays ==
  ASSUME TypeOK, LoneWriterKnows, UNCHANGED <<rows, stamp>>, NEW p \in Handlers,
         \A q \in Handlers \ {p} : Keeps(q), h'[p].alone => Knows(p)'
  PROVE  LoneWriterKnows'
<1>1. ASSUME NEW q \in Handlers \ {p}, h'[q].alone PROVE Knows(q)'
  <2>1. PICK c : c = h[q].chat
    OBVIOUS
  <2>2. h'[q].chat = c /\ Keeps(q) /\ Knows(q)
    BY <1>1, <2>1 DEF LoneWriterKnows, Keeps
  <2>3. RowsOf(c)' = RowsOf(c) /\ Latest(c)' = Latest(c)
    BY DEF RowsOf, Latest
  <2> QED
    BY <2>1, <2>2, <2>3 DEF Knows, Keeps
<1> QED
  BY <1>1 DEF LoneWriterKnows

LEMMA PreviewStays ==
  ASSUME PreviewOwed, NEW c \in Chats,
         \A d \in Chats \ {c} : /\ RowsOf(d)' = RowsOf(d) /\ Latest(d)' = Latest(d)
                                /\ sound'[d] = sound[d] /\ preview'[d] = preview[d],
         \A q \in Handlers, d \in Chats \ {c} : WillSay(q, d) => WillSay(q, d)',
         sound'[c] /\ RowsOf(c)' # {} =>
           preview'[c] \in Latest(c)' \/ \E q \in Handlers : WillSay(q, c)'
  PROVE  PreviewOwed'
  BY DEF PreviewOwed

LEMMA PreviewRests ==
  ASSUME PreviewOwed, UNCHANGED <<rows, stamp, sound, preview>>,
         \A q \in Handlers, d \in Chats : WillSay(q, d) => WillSay(q, d)'
  PROVE  PreviewOwed'
  BY LogStays DEF PreviewOwed

-----------------------------------------------------------------------------
\* One lemma per operation: a step of it keeps what is known of the log.
LEMMA SendBeginLog ==
  ASSUME LogInv, NEW p \in Handlers, NEW m \in Msgs, SendBegin(p, m)
  PROVE  LogInv'
<1> USE DEF LogInv
<1>1. /\ \A q \in Handlers \ {p} : Keeps(q)
      /\ h'[p].at = "insert" /\ h'[p].msg = m /\ h'[p].chat = ChatOf[m]
      /\ h'[p].alone => Alone(ChatOf[m])
      /\ \A q \in Handlers \ {p} : Writing(q, ChatOf[m]) => ~ h'[q].alone
  BY EnterKeeps DEF SendBegin
<1>2. /\ h[p].at = "idle" /\ stamp[m] = 0 /\ clock \in Nat
      /\ stamp'[m] = clock + 1 /\ \A n \in Msgs \ {m} : stamp'[n] = stamp[n]
      /\ clock' = clock + 1 /\ rows' = rows
      /\ UNCHANGED <<sound, preview>>
  BY DEF SendBegin, TypeOK
<1>3. m \notin rows /\ \A q \in Handlers : ~ (h[q].at = "insert" /\ h[q].msg = m)
  BY <1>2 DEF Sent, Born
<1>4. \A n \in Msgs : Born(n) => n # m /\ Born(n)'
  BY <1>1, <1>2 DEF Born, Keeps
<1>5. TypeOK'
  BY SendType DEF Send
<1>6. Sent'
  <2>1. \A n \in rows' : Born(n)'
    BY <1>2, <1>4 DEF Sent, TypeOK
  <2>2. ASSUME NEW q \in Handlers, h'[q].at = "insert"
        PROVE  /\ stamp'[h'[q].msg] # 0
               /\ \A r \in Handlers : h'[r].at = "insert" /\ h'[r].msg = h'[q].msg => r = q
    <3>1. CASE q = p
      BY <1>1, <1>2, <1>3, <3>1 DEF Keeps
    <3>2. CASE q # p
      <4>1. h[q].at = "insert" /\ h'[q].msg = h[q].msg /\ h[q].msg \in Msgs /\ h[q].msg # m
        BY <1>1, <1>3, <2>2, <3>2 DEF Keeps, TypeOK, Targeted, SendSteps
      <4>2. /\ stamp[h[q].msg] # 0
            /\ \A r \in Handlers : h[r].at = "insert" /\ h[r].msg = h[q].msg => r = q
        BY <4>1 DEF Sent
      <4> QED
        BY <1>1, <1>2, <4>1, <4>2 DEF Keeps
    <3> QED
      BY <3>1, <3>2
  <2> QED
    BY <2>1, <2>2 DEF Sent
<1>8. Dated'
  <2> SUFFICES ASSUME NEW n \in Msgs PROVE stamp'[n] <= clock'
    BY DEF Dated
  <2>1. stamp[n] \in Nat /\ stamp[n] <= clock
    BY DEF Dated, TypeOK
  <2> QED
    BY <1>2, <2>1
<1>9. OnlyOne'
  BY OnlyOneEnters DEF SendBegin
<1>10. \A c \in Chats : RowsOf(c)' = RowsOf(c) /\ Latest(c)' = Latest(c)
  BY <1>2, <1>3 DEF RowsOf, Latest, TypeOK
<1>11. LoneWriterKnows'
  <2>1. Knows(p)'
    <3>1. \A n \in RowsOf(ChatOf[m])' : n \in Msgs \ {m}
      BY <1>3, <1>10 DEF RowsOf, TypeOK
    <3>2. \A n \in Msgs \ {m} : stamp'[n] <= stamp'[m]
      BY <1>2 DEF Dated, TypeOK
    <3> QED
      BY <1>1, <3>1, <3>2 DEF Knows
  <2>2. ASSUME NEW q \in Handlers \ {p}, h'[q].alone PROVE Knows(q)'
    <3>1. PICK c : c = h[q].chat
      OBVIOUS
    <3>2. h'[q].chat = c /\ Keeps(q) /\ Knows(q)
      BY <1>1, <2>2, <3>1 DEF LoneWriterKnows, Keeps
    <3>3. CASE h[q].at \in {"insert", "sendInvalidate", "sendPreview", "deletePreview"}
      <4>1. c \in Chats /\ h[q].msg \in Msgs
        BY <3>1, <3>3 DEF TypeOK, Targeted, SendSteps, DeleteSteps
      <4>2. h[q].at = "insert" => h[q].msg # m
        BY <1>3
      <4> QED
        BY <1>2, <1>3, <1>10, <3>1, <3>2, <4>1, <4>2 DEF Knows, Keeps, RowsOf, TypeOK
    <3>4. CASE h[q].at \notin {"insert", "sendInvalidate", "sendPreview", "deletePreview"}
      BY <3>2, <3>4 DEF Knows, Keeps
    <3> QED
      BY <3>3, <3>4
  <2> QED
    BY <2>1, <2>2 DEF LoneWriterKnows
<1>12. \A q \in Handlers, d \in Chats : WillSay(q, d) => WillSay(q, d)'
  BY <1>1, <1>2 DEF WillSay, Keeps, DeleteSteps
<1>13. PreviewOwed'
  BY <1>2, <1>10, <1>12 DEF PreviewOwed
<1> QED
  BY <1>5, <1>6, <1>8, <1>9, <1>11, <1>13

LEMMA SendInsertLog ==
  ASSUME LogInv, NEW p \in Handlers, SendInsert(p)
  PROVE  LogInv'
<1> USE DEF LogInv
<1>1. PICK m \in Msgs, c \in Chats : m = h[p].msg /\ c = h[p].chat /\ ChatOf[m] = c
  BY DEF SendInsert, TypeOK, Targeted, SendSteps
<1>2. /\ \A q \in Handlers \ {p} : Keeps(q)
      /\ h'[p].at = "sendInvalidate" /\ h'[p].msg = m /\ h'[p].chat = c
      /\ h'[p].list = h[p].list /\ (h'[p].alone => h[p].alone)
  BY <1>1, GotoKeeps DEF SendInsert
<1>3. /\ h[p].at = "insert" /\ rows' = rows \union {m}
      /\ UNCHANGED <<stamp, clock, sound, preview>>
  BY <1>1 DEF SendInsert
<1>4. stamp[m] # 0 /\ \A q \in Handlers : h[q].at = "insert" /\ h[q].msg = m => q = p
  BY <1>1, <1>3 DEF Sent
<1>5. \A n \in Msgs : Born(n) => n # m /\ Born(n)'
  BY <1>1, <1>2, <1>3 DEF Born, Keeps
<1>6. Born(m)'
  BY <1>2, <1>3, <1>4 DEF Born, Keeps
<1>7. TypeOK'
  BY SendType DEF Send
<1>8. Sent'
  <2>1. \A n \in rows' : Born(n)'
    BY <1>3, <1>5, <1>6 DEF Sent, TypeOK
  <2>2. ASSUME NEW q \in Handlers, h'[q].at = "insert"
        PROVE  /\ stamp'[h'[q].msg] # 0
               /\ \A r \in Handlers : h'[r].at = "insert" /\ h'[r].msg = h'[q].msg => r = q
    BY <1>2, <1>3, <2>2 DEF Keeps, Sent
  <2> QED
    BY <2>1, <2>2 DEF Sent
<1>9. Dated'
  BY <1>2, <1>3 DEF Dated
<1>10. OnlyOne'
  <2>1. \A q \in Handlers : StillWrites(q)
    BY <1>1, <1>2, <1>3 DEF StillWrites, Writing, Keeps, SendSteps
  <2> QED
    BY <2>1, OnlyOneStays
<1>11. \A d \in Chats \ {c} : RowsOf(d)' = RowsOf(d) /\ Latest(d)' = Latest(d)
  BY <1>1, <1>3 DEF RowsOf, Latest
<1>12. RowsOf(c)' = RowsOf(c) \union {m}
  BY <1>1, <1>3 DEF RowsOf
<1>13. LoneWriterKnows'
  <2>1. ASSUME h'[p].alone PROVE Knows(p)'
    <3>1. \A n \in RowsOf(c) : stamp[n] <= stamp[m]
      BY <1>1, <1>2, <1>3, <2>1 DEF LoneWriterKnows, Knows
    <3>2. stamp[m] \in Nat
      BY DEF TypeOK
    <3>3. m \in Latest(c)'
      BY <1>3, <1>12, <3>1, <3>2 DEF Latest
    <3> QED
      BY <1>2, <3>3 DEF Knows
  <2>2. ASSUME NEW q \in Handlers \ {p}, h'[q].alone PROVE Knows(q)'
    <3>1. PICK d : d = h[q].chat
      OBVIOUS
    <3>2. h'[q].chat = d /\ Keeps(q) /\ Knows(q) /\ h[q].alone
      BY <1>2, <2>2, <3>1 DEF LoneWriterKnows, Keeps
    <3>3. CASE h[q].at \in {"insert", "sendInvalidate", "sendPreview", "deletePreview"}
      <4>1. d \in Chats /\ Writing(q, d) /\ Writing(p, c)
        BY <1>1, <1>3, <3>1, <3>3 DEF TypeOK, Targeted, Writing, SendSteps, DeleteSteps
      <4>2. d # c
        BY <3>2, <4>1 DEF OnlyOne
      <4> QED
        BY <1>3, <1>11, <3>1, <3>2, <4>1, <4>2 DEF Knows, Keeps
    <3>4. CASE h[q].at \notin {"insert", "sendInvalidate", "sendPreview", "deletePreview"}
      BY <3>2, <3>4 DEF Knows, Keeps
    <3> QED
      BY <3>3, <3>4
  <2> QED
    BY <2>1, <2>2 DEF LoneWriterKnows
<1>14. PreviewOwed'
  <2>1. \A q \in Handlers, d \in Chats \ {c} : WillSay(q, d) => WillSay(q, d)'
    BY <1>1, <1>2, <1>3 DEF WillSay, Keeps
  <2>2. WillSay(p, c)'
    BY <1>2 DEF WillSay
  <2> QED
    BY <1>3, <1>11, <2>1, <2>2, PreviewStays
<1> QED
  BY <1>7, <1>8, <1>9, <1>10, <1>13, <1>14

\* p goes on, or ends, and leaves the log alone.
LEMMA MovesOn ==
  ASSUME LogInv, UNCHANGED <<rows, stamp, clock>>, NEW p \in Handlers,
         \A q \in Handlers \ {p} : Keeps(q),
         Ends(p), StillWrites(p), h'[p].alone => Knows(p)'
  PROVE  Sent' /\ Dated' /\ OnlyOne' /\ LoneWriterKnows'
<1>1. \A q \in Handlers : Ends(q) /\ StillWrites(q)
  BY DEF Keeps, Ends, StillWrites, Writing
<1> QED
  BY <1>1, SentStays, OnlyOneStays, LoneStays DEF LogInv

LEMMA SendInvalidateLog ==
  ASSUME LogInv, NEW p \in Handlers, SendInvalidate(p)
  PROVE  LogInv'
<1> USE DEF LogInv
<1> DEFINE next == [h[p] EXCEPT !.at = "sendPreview"]
<1>1. /\ next.at = "sendPreview" /\ next.msg = h[p].msg /\ next.chat = h[p].chat
      /\ next.list = h[p].list /\ next.alone = h[p].alone
  BY DEF TypeOK, HandlerState
<1>2. PassInvalidation(p, h[p].chat, next)
  BY DEF SendInvalidate, Del
<1> HIDE DEF next
<1>3. \A q \in Handlers \ {p} : Keeps(q) /\ h'[p] = next
  BY <1>2, PassKeeps
<1>4. h'[p] = next
  BY <1>2, PassKeeps
<1>5. /\ h[p].at = "sendInvalidate"
      /\ UNCHANGED <<rows, stamp, clock, sound, preview>>
  BY DEF SendInvalidate
<1>6. TypeOK'
  BY SendType DEF Send
<1>7. Ends(p) /\ StillWrites(p)
  BY <1>1, <1>4, <1>5 DEF Ends, StillWrites, Writing, SendSteps
<1>8. ASSUME h'[p].alone PROVE Knows(p)'
  <2>1. h[p].msg \in Latest(h[p].chat) /\ h'[p].msg = h[p].msg /\ h'[p].chat = h[p].chat
    BY <1>1, <1>4, <1>5, <1>8 DEF LoneWriterKnows, Knows
  <2> QED
    BY <1>1, <1>4, <1>5, <2>1 DEF Knows, Latest, RowsOf
<1>9. Sent' /\ Dated' /\ OnlyOne' /\ LoneWriterKnows'
  BY <1>3, <1>5, <1>7, <1>8, MovesOn
<1>10. PreviewOwed'
  <2>1. \A q \in Handlers, d \in Chats : WillSay(q, d) => WillSay(q, d)'
    BY <1>1, <1>3, <1>4, <1>5 DEF WillSay, Keeps
  <2> QED
    BY <1>5, <2>1, PreviewRests
<1> QED
  BY <1>6, <1>9, <1>10

\* UpdateLastMessage by a writer that knows the newest message, if it is alone.
LEMMA SaysLatest ==
  ASSUME LogInv, NEW p \in Handlers, NEW c \in Chats, NEW last \in Msgs \union {None},
         UpdateLastMessage(p, c, last), UNCHANGED <<rows, stamp>>, h[p].chat = c,
         h[p].alone /\ RowsOf(c) # {} => last \in Latest(c),
         h' = [h EXCEPT ![p] = Idle]
  PROVE  PreviewOwed'
<1> USE DEF LogInv
<1>1. PICK ok \in BOOLEAN :
         /\ preview' = IF ok /\ last # None THEN [preview EXCEPT ![c] = last] ELSE preview
         /\ sound' = [sound EXCEPT ![c] = ok /\ h[p].alone]
  BY DEF UpdateLastMessage
<1>2. \A d \in Chats : RowsOf(d)' = RowsOf(d) /\ Latest(d)' = Latest(d)
  BY LogStays
<1>3. \A d \in Chats \ {c} : sound'[d] = sound[d] /\ preview'[d] = preview[d]
  BY <1>1 DEF TypeOK
<1>4. \A q \in Handlers, d \in Chats \ {c} : WillSay(q, d) => WillSay(q, d)'
  BY IdleKeeps DEF WillSay, Keeps
<1>5. ASSUME sound'[c], RowsOf(c)' # {} PROVE preview'[c] \in Latest(c)'
  <2>1. sound'[c] = (ok /\ h[p].alone)
    BY <1>1 DEF TypeOK
  <2>2. last \in Latest(c) /\ last # None /\ ok
    BY <1>2, <1>5, <2>1, NoneFresh DEF Latest, RowsOf, TypeOK
  <2> QED
    BY <1>1, <1>2, <2>2 DEF TypeOK
<1> QED
  BY <1>2, <1>3, <1>4, <1>5, PreviewStays

LEMMA SendPreviewLog ==
  ASSUME LogInv, NEW p \in Handlers, SendPreview(p)
  PROVE  LogInv'
<1> USE DEF LogInv
<1>1. PICK m \in Msgs, c \in Chats : m = h[p].msg /\ c = h[p].chat
  BY DEF SendPreview, TypeOK, Targeted, SendSteps
<1>2. /\ h[p].at = "sendPreview" /\ h' = [h EXCEPT ![p] = Idle]
      /\ UpdateLastMessage(p, c, m)
      /\ UNCHANGED <<rows, stamp, clock>>
  BY <1>1 DEF SendPreview
<1>3. (\A q \in Handlers \ {p} : Keeps(q)) /\ h'[p].at = "idle"
  BY <1>2, IdleKeeps
<1>4. TypeOK'
  BY SendType DEF Send
<1>5. Ends(p) /\ StillWrites(p) /\ Knows(p)'
  BY <1>3 DEF Ends, StillWrites, Writing, Knows, SendSteps, DeleteSteps, ClearSteps
<1>6. Sent' /\ Dated' /\ OnlyOne' /\ LoneWriterKnows'
  BY <1>2, <1>3, <1>5, MovesOn
<1>7. h[p].alone => m \in Latest(c)
  BY <1>1, <1>2 DEF LoneWriterKnows, Knows
<1>8. PreviewOwed'
  BY <1>1, <1>2, <1>7, SaysLatest
<1> QED
  BY <1>4, <1>6, <1>8

LEMMA DeleteTextLog ==
  ASSUME LogInv, NEW p \in Handlers, NEW m \in Msgs, DeleteText(p, m)
  PROVE  LogInv'
<1> USE DEF LogInv
<1>1. PICK c \in Chats : c = ChatOf[m]
  OBVIOUS
<1>2. /\ m \in rows \ Files /\ rows' = rows \ {m} /\ sound' = [sound EXCEPT ![c] = FALSE]
      /\ UNCHANGED <<stamp, clock, preview>>
  BY <1>1 DEF DeleteText
<1>3. ASSUME NEW q \in Handlers PROVE Keeps(q) /\ (Writing(q, c) => ~ h'[q].alone)
  <2>1. h'[q] = IF h[q].at = "fill" /\ h[q].chat = c THEN [h[q] EXCEPT !.raced = TRUE]
                ELSE IF Writing(q, c) THEN [h[q] EXCEPT !.alone = FALSE]
                ELSE h[q]
    BY <1>1 DEF DeleteText
  <2>2. h[q] \in HandlerState
    BY DEF TypeOK
  <2> QED
    BY <2>1, <2>2 DEF Keeps, HandlerState, Writing, SendSteps, DeleteSteps, ClearSteps
<1>4. TypeOK'
  BY DeleteType DEF DeleteMessage
<1>5. Sent' /\ Dated'
  BY <1>2, <1>3, SentStays DEF Ends, Keeps
<1>6. OnlyOne'
  BY <1>3, OnlyOneStays DEF StillWrites, Writing, Keeps
<1>7. \A d \in Chats \ {c} : RowsOf(d)' = RowsOf(d) /\ Latest(d)' = Latest(d)
  BY <1>1, <1>2 DEF RowsOf, Latest
<1>8. ASSUME NEW q \in Handlers, h'[q].alone PROVE Knows(q)'
  <2>1. PICK d : d = h[q].chat
    OBVIOUS
  <2>2. h'[q].chat = d /\ Keeps(q) /\ Knows(q) /\ ~ Writing(q, c)
    BY <1>3, <1>8, <2>1 DEF LoneWriterKnows, Keeps
  <2>3. CASE h[q].at \in {"insert", "sendInvalidate", "sendPreview", "deletePreview"}
    <3>1. d \in Chats \ {c}
      BY <2>1, <2>2, <2>3 DEF TypeOK, Targeted, Writing, SendSteps, DeleteSteps
    <3> QED
      BY <1>2, <1>7, <2>1, <2>2, <3>1 DEF Knows, Keeps
  <2>4. CASE h[q].at \notin {"insert", "sendInvalidate", "sendPreview", "deletePreview"}
    BY <2>2, <2>4 DEF Knows, Keeps
  <2> QED
    BY <2>3, <2>4
<1>9. PreviewOwed'
  <2>1. (\A d \in Chats \ {c} : sound'[d] = sound[d]) /\ ~ sound'[c]
    BY <1>2 DEF TypeOK
  <2>2. \A q \in Handlers, d \in Chats \ {c} : WillSay(q, d) => WillSay(q, d)'
    BY <1>3 DEF WillSay, Keeps
  <2> QED
    BY <1>2, <1>7, <2>1, <2>2, PreviewStays
<1> QED
  BY <1>4, <1>5, <1>6, <1>8, <1>9 DEF LoneWriterKnows

LEMMA DeleteFileLog ==
  ASSUME LogInv, NEW p \in Handlers, NEW m \in Msgs, DeleteFile(p, m)
  PROVE  LogInv'
<1> USE DEF LogInv
<1>1. PICK c \in Chats : c = ChatOf[m]
  OBVIOUS
<1>2. /\ h[p].at = "idle" /\ m \in rows /\ rows' = rows \ {m}
      /\ Enter(p, c, "deleteObject", m, {})
      /\ UNCHANGED <<stamp, clock, sound, preview>>
  BY <1>1 DEF DeleteFile
<1>3. /\ \A q \in Handlers \ {p} : Keeps(q)
      /\ \A q \in Handlers \ {p} : Writing(q, c) => ~ h'[q].alone
      /\ h'[p].at = "deleteObject" /\ h'[p].msg = m /\ h'[p].chat = c
  BY <1>2, EnterKeeps
<1>4. TypeOK'
  BY DeleteType DEF DeleteMessage
<1>5. \A n \in Msgs : Born(n) => Born(n)'
  BY <1>2, <1>3 DEF Born, Keeps
<1>6. Sent'
  <2>1. \A n \in rows' : Born(n)'
    BY <1>2, <1>5 DEF Sent, TypeOK
  <2>2. ASSUME NEW q \in Handlers, h'[q].at = "insert"
        PROVE  /\ stamp'[h'[q].msg] # 0
               /\ \A r \in Handlers : h'[r].at = "insert" /\ h'[r].msg = h'[q].msg => r = q
    BY <1>2, <1>3, <2>2 DEF Keeps, Sent
  <2> QED
    BY <2>1, <2>2 DEF Sent
<1>7. Dated'
  BY <1>2, <1>3 DEF Dated
<1>8. OnlyOne'
  BY <1>2, OnlyOneEnters
<1>9. \A d \in Chats \ {c} : RowsOf(d)' = RowsOf(d) /\ Latest(d)' = Latest(d)
  BY <1>1, <1>2 DEF RowsOf, Latest
<1>10. ASSUME NEW q \in Handlers, h'[q].alone PROVE Knows(q)'
  <2>1. CASE q = p
    BY <1>3, <2>1 DEF Knows
  <2>2. CASE q # p
    <3>1. PICK d : d = h[q].chat
      OBVIOUS
    <3>2. h'[q].chat = d /\ Keeps(q) /\ Knows(q) /\ ~ Writing(q, c)
      BY <1>3, <1>10, <2>2, <3>1 DEF LoneWriterKnows, Keeps
    <3>3. CASE h[q].at \in {"insert", "sendInvalidate", "sendPreview", "deletePreview"}
      <4>1. d \in Chats \ {c}
        BY <3>1, <3>2, <3>3 DEF TypeOK, Targeted, Writing, SendSteps, DeleteSteps
      <4> QED
        BY <1>2, <1>9, <3>1, <3>2, <4>1 DEF Knows, Keeps
    <3>4. CASE h[q].at \notin {"insert", "sendInvalidate", "sendPreview", "deletePreview"}
      BY <3>2, <3>4 DEF Knows, Keeps
    <3> QED
      BY <3>3, <3>4
  <2> QED
    BY <2>1, <2>2
<1>11. PreviewOwed'
  <2>1. \A q \in Handlers, d \in Chats \ {c} : WillSay(q, d) => WillSay(q, d)'
    BY <1>2, <1>3 DEF WillSay, Keeps, DeleteSteps
  <2>2. WillSay(p, c)'
    BY <1>3 DEF WillSay, DeleteSteps
  <2> QED
    BY <1>2, <1>9, <2>1, <2>2, PreviewStays
<1> QED
  BY <1>4, <1>6, <1>7, <1>8, <1>10, <1>11 DEF LoneWriterKnows

LEMMA DeleteObjectLog ==
  ASSUME LogInv, NEW p \in Handlers, DeleteObject(p) \/ DeleteObjectFails(p)
  PROVE  LogInv'
<1> USE DEF LogInv
<1>1. PICK m \in Msgs, c \in Chats : m = h[p].msg /\ c = h[p].chat
  BY DEF DeleteObject, DeleteObjectFails, TypeOK, Targeted, DeleteSteps
<1>2. /\ h[p].at = "deleteObject"
      /\ UNCHANGED <<rows, stamp, clock, preview>>
  BY <1>1 DEF DeleteObject, DeleteObjectFails
<1>4. TypeOK'
  BY DeleteType DEF DeleteMessage
<1>5. /\ \A q \in Handlers \ {p} : Keeps(q)
      /\ h'[p].at \in {"deleteInvalidate", "idle"}
      /\ h'[p].at = "deleteInvalidate" => h'[p].chat = c /\ (h'[p].alone => h[p].alone)
  <2>1. CASE DeleteObject(p)
    BY <1>1, <2>1, GotoKeeps DEF DeleteObject
  <2>2. CASE DeleteObjectFails(p)
    BY <1>1, <2>2, PassKeeps DEF DeleteObjectFails, Idle
  <2> QED
    BY <2>1, <2>2
<1>6. Ends(p) /\ StillWrites(p) /\ Knows(p)'
  BY <1>1, <1>2, <1>5
     DEF Ends, StillWrites, Writing, Knows, SendSteps, DeleteSteps, ClearSteps
<1>7. Sent' /\ Dated' /\ OnlyOne' /\ LoneWriterKnows'
  BY <1>2, <1>5, <1>6, MovesOn
<1>8. PreviewOwed'
  <2>1. CASE DeleteObject(p)
    <3>1. h'[p].at = "deleteInvalidate" /\ h'[p].chat = h[p].chat /\ sound' = sound
      BY <2>1, GotoKeeps DEF DeleteObject
    <3>2. \A q \in Handlers, d \in Chats : WillSay(q, d) => WillSay(q, d)'
      BY <1>5, <3>1 DEF WillSay, Keeps, DeleteSteps
    <3> QED
      BY <1>2, <3>1, <3>2, PreviewRests
  <2>2. CASE DeleteObjectFails(p)
    <3>1. (\A d \in Chats \ {c} : sound'[d] = sound[d]) /\ ~ sound'[c]
      BY <1>1, <2>2 DEF DeleteObjectFails, TypeOK
    <3>2. \A q \in Handlers, d \in Chats \ {c} : WillSay(q, d) => WillSay(q, d)'
      BY <1>1, <1>5 DEF WillSay, Keeps
    <3> QED
      BY <1>2, <3>1, <3>2, LogStays, PreviewStays
  <2> QED
    BY <2>1, <2>2
<1> QED
  BY <1>4, <1>7, <1>8

LEMMA DeleteInvalidateLog ==
  ASSUME LogInv, NEW p \in Handlers, DeleteInvalidate(p)
  PROVE  LogInv'
<1> USE DEF LogInv
<1> DEFINE next == [h[p] EXCEPT !.at = "selectLatest"]
<1>1. /\ next.at = "selectLatest" /\ next.chat = h[p].chat /\ next.alone = h[p].alone
  BY DEF TypeOK, HandlerState
<1>2. PassInvalidation(p, h[p].chat, next)
  BY DEF DeleteInvalidate, Del
<1> HIDE DEF next
<1>3. (\A q \in Handlers \ {p} : Keeps(q)) /\ h'[p] = next
  BY <1>2, PassKeeps
<1>4. /\ h[p].at = "deleteInvalidate"
      /\ UNCHANGED <<rows, stamp, clock, sound, preview>>
  BY DEF DeleteInvalidate
<1>5. TypeOK'
  BY DeleteType DEF DeleteMessage
<1>6. Ends(p) /\ StillWrites(p) /\ Knows(p)'
  BY <1>1, <1>3, <1>4 DEF Ends, StillWrites, Writing, Knows, DeleteSteps
<1>7. Sent' /\ Dated' /\ OnlyOne' /\ LoneWriterKnows'
  BY <1>3, <1>4, <1>6, MovesOn
<1>8. PreviewOwed'
  <2>1. \A q \in Handlers, d \in Chats : WillSay(q, d) => WillSay(q, d)'
    BY <1>1, <1>3, <1>4 DEF WillSay, Keeps, DeleteSteps
  <2> QED
    BY <1>4, <2>1, PreviewRests
<1> QED
  BY <1>5, <1>7, <1>8

LEMMA SelectLatestLog ==
  ASSUME LogInv, NEW p \in Handlers, SelectLatest(p)
  PROVE  LogInv'
<1> USE DEF LogInv
<1>1. PICK c \in Chats : c = h[p].chat
  BY DEF SelectLatest, TypeOK, Targeted
<1>2. /\ h[p].at = "selectLatest"
      /\ UNCHANGED <<rows, stamp, clock, sound, preview>>
  BY DEF SelectLatest, service
<1>3. /\ \A q \in Handlers \ {p} : Keeps(q)
      /\ h'[p].at = "deletePreview" /\ h'[p].chat = c /\ h'[p].list = Latest(c)
      /\ h'[p].alone => h[p].alone
  <2>1. h' = [h EXCEPT ![p] = [h[p] EXCEPT !.at = "deletePreview", !.list = Latest(c)]]
    BY <1>1 DEF SelectLatest
  <2> QED
    BY <1>1, <2>1 DEF TypeOK, HandlerState, Keeps
<1>4. TypeOK'
  BY DeleteType DEF DeleteMessage
<1>5. Ends(p) /\ StillWrites(p)
  BY <1>1, <1>2, <1>3 DEF Ends, StillWrites, Writing, DeleteSteps
<1>6. Knows(p)'
  BY <1>2, <1>3, LogStays DEF Knows
<1>7. Sent' /\ Dated' /\ OnlyOne' /\ LoneWriterKnows'
  BY <1>2, <1>3, <1>5, <1>6, MovesOn
<1>8. PreviewOwed'
  <2>1. \A q \in Handlers, d \in Chats : WillSay(q, d) => WillSay(q, d)'
    BY <1>1, <1>2, <1>3 DEF WillSay, Keeps, DeleteSteps
  <2> QED
    BY <1>2, <2>1, PreviewRests
<1> QED
  BY <1>4, <1>7, <1>8

LEMMA DeletePreviewLog ==
  ASSUME LogInv, NEW p \in Handlers, DeletePreview(p)
  PROVE  LogInv'
<1> USE DEF LogInv
<1>1. PICK c \in Chats : c = h[p].chat
  BY DEF DeletePreview, TypeOK, Targeted
<1>2. /\ h[p].at = "deletePreview" /\ h' = [h EXCEPT ![p] = Idle]
      /\ UpdateLastMessage(p, c, LatestRead(p))
      /\ UNCHANGED <<rows, stamp, clock>>
  BY <1>1 DEF DeletePreview
<1>3. (\A q \in Handlers \ {p} : Keeps(q)) /\ h'[p].at = "idle"
  BY <1>2, IdleKeeps
<1>4. TypeOK'
  BY DeleteType DEF DeleteMessage
<1>5. Ends(p) /\ StillWrites(p) /\ Knows(p)'
  BY <1>3 DEF Ends, StillWrites, Writing, Knows, SendSteps, DeleteSteps, ClearSteps
<1>6. Sent' /\ Dated' /\ OnlyOne' /\ LoneWriterKnows'
  BY <1>2, <1>3, <1>5, MovesOn
<1>7. h[p].alone /\ RowsOf(c) # {} => LatestRead(p) \in Latest(c)
  <2> SUFFICES ASSUME h[p].alone, RowsOf(c) # {} PROVE LatestRead(p) \in Latest(c)
    OBVIOUS
  <2>1. h[p].list = Latest(c)
    BY <1>1, <1>2 DEF LoneWriterKnows, Knows
  <2>2. Latest(c) # {}
    BY LatestExists
  <2> QED
    BY <2>1, <2>2 DEF LatestRead
<1>8. LatestRead(p) \in Msgs \union {None}
  BY LatestReadType
<1>9. PreviewOwed'
  BY <1>1, <1>2, <1>7, <1>8, SaysLatest
<1> QED
  BY <1>4, <1>6, <1>9

LEMMA ClearListLog ==
  ASSUME LogInv, NEW p \in Handlers, NEW c \in Chats, ClearList(p, c)
  PROVE  LogInv'
<1> USE DEF LogInv
<1>1. /\ h[p].at = "idle" /\ Enter(p, c, "clearObjects", None, RowsOf(c))
      /\ UNCHANGED <<rows, stamp, clock, sound, preview>>
  BY DEF ClearList, service
<1>2. /\ \A q \in Handlers \ {p} : Keeps(q)
      /\ h'[p].at = "clearObjects" /\ h'[p].chat = c /\ h'[p].list = RowsOf(c)
  BY <1>1, EnterKeeps
<1>3. TypeOK'
  BY ClearType DEF DeleteChatMessages
<1>4. \A n \in Msgs : Born(n) => Born(n)'
  BY <1>1, <1>2 DEF Born, Keeps
<1>5. Sent'
  <2>1. \A n \in rows' : Born(n)'
    BY <1>1, <1>4 DEF Sent, TypeOK
  <2>2. ASSUME NEW q \in Handlers, h'[q].at = "insert"
        PROVE  /\ stamp'[h'[q].msg] # 0
               /\ \A r \in Handlers : h'[r].at = "insert" /\ h'[r].msg = h'[q].msg => r = q
    BY <1>1, <1>2, <2>2 DEF Keeps, Sent
  <2> QED
    BY <2>1, <2>2 DEF Sent
<1>6. Dated'
  BY <1>1, <1>2 DEF Dated
<1>7. OnlyOne'
  BY <1>1, OnlyOneEnters
<1>8. LoneWriterKnows'
  BY <1>1, <1>2, LoneStays DEF Knows
<1>9. PreviewOwed'
  <2>1. \A q \in Handlers, d \in Chats : WillSay(q, d) => WillSay(q, d)'
    BY <1>1, <1>2 DEF WillSay, Keeps, DeleteSteps
  <2> QED
    BY <1>1, <2>1, PreviewRests
<1> QED
  BY <1>3, <1>5, <1>6, <1>7, <1>8, <1>9

LEMMA ClearObjectLog ==
  ASSUME LogInv, NEW p \in Handlers, NEW m \in Msgs, ClearObject(p, m)
  PROVE  LogInv'
<1> USE DEF LogInv
<1>1. /\ h[p].at = "clearObjects" /\ m \in h[p].list
      /\ UNCHANGED <<rows, stamp, clock, sound, preview>>
  BY DEF ClearObject
<1>2. /\ \A q \in Handlers \ {p} : Keeps(q)
      /\ h'[p].at = h[p].at /\ h'[p].msg = h[p].msg /\ h'[p].chat = h[p].chat
      /\ h'[p].list \subseteq h[p].list /\ (h'[p].alone => h[p].alone)
  BY DEF ClearObject, TypeOK, HandlerState, Keeps
<1>4. TypeOK'
  BY ClearType DEF DeleteChatMessages
<1>5. Ends(p) /\ StillWrites(p) /\ Knows(p)'
  BY <1>1, <1>2 DEF Ends, StillWrites, Writing, Knows
<1>6. Sent' /\ Dated' /\ OnlyOne' /\ LoneWriterKnows'
  BY <1>1, <1>2, <1>5, MovesOn
<1>7. PreviewOwed'
  <2>1. \A q \in Handlers, d \in Chats : WillSay(q, d) => WillSay(q, d)'
    BY <1>1, <1>2 DEF WillSay, Keeps, DeleteSteps
  <2> QED
    BY <1>1, <2>1, PreviewRests
<1> QED
  BY <1>4, <1>6, <1>7

LEMMA ClearRowsLog ==
  ASSUME LogInv, NEW p \in Handlers, ClearRows(p)
  PROVE  LogInv'
<1> USE DEF LogInv
<1>1. PICK c \in Chats : c = h[p].chat
  BY DEF ClearRows, TypeOK, Targeted
<1>2. /\ h[p].at = "clearObjects" /\ rows' = rows \ RowsOf(c)
      /\ UNCHANGED <<stamp, clock, sound, preview>>
  BY <1>1 DEF ClearRows
<1>3. /\ \A q \in Handlers \ {p} : Keeps(q)
      /\ h'[p].at = "clearInvalidate" /\ h'[p].chat = c /\ (h'[p].alone => h[p].alone)
  BY <1>1, GotoKeeps DEF ClearRows
<1>4. TypeOK'
  BY ClearType DEF DeleteChatMessages
<1>5. Ends(p) /\ StillWrites(p)
  BY <1>1, <1>2, <1>3 DEF Ends, StillWrites, Writing, ClearSteps
<1>6. Sent' /\ Dated'
  BY <1>2, <1>3, <1>5, SentStays DEF Ends, Keeps
<1>7. OnlyOne'
  BY <1>3, <1>5, OnlyOneStays DEF StillWrites, Writing, Keeps
<1>8. \A d \in Chats \ {c} : RowsOf(d)' = RowsOf(d) /\ Latest(d)' = Latest(d)
  BY <1>2 DEF RowsOf, Latest
<1>9. RowsOf(c)' = {}
  BY <1>2 DEF RowsOf
<1>10. ASSUME NEW q \in Handlers, h'[q].alone PROVE Knows(q)'
  <2>1. CASE q = p
    BY <1>3, <2>1 DEF Knows
  <2>2. CASE q # p
    <3>1. PICK d : d = h[q].chat
      OBVIOUS
    <3>2. h'[q].chat = d /\ Keeps(q) /\ Knows(q) /\ h[q].alone
      BY <1>3, <1>10, <2>2, <3>1 DEF LoneWriterKnows, Keeps
    <3>3. CASE h[q].at \in {"insert", "sendInvalidate", "sendPreview", "deletePreview"}
      <4>1. d \in Chats /\ Writing(q, d) /\ Writing(p, c)
        BY <1>1, <1>2, <3>1, <3>3
           DEF TypeOK, Targeted, Writing, SendSteps, DeleteSteps, ClearSteps
      <4>2. d # c
        BY <2>2, <3>2, <4>1 DEF OnlyOne
      <4> QED
        BY <1>2, <1>8, <3>1, <3>2, <4>1, <4>2 DEF Knows, Keeps
    <3>4. CASE h[q].at \notin {"insert", "sendInvalidate", "sendPreview", "deletePreview"}
      BY <3>2, <3>4 DEF Knows, Keeps
    <3> QED
      BY <3>3, <3>4
  <2> QED
    BY <2>1, <2>2
<1>11. PreviewOwed'
  <2>1. \A q \in Handlers, d \in Chats \ {c} : WillSay(q, d) => WillSay(q, d)'
    BY <1>1, <1>3 DEF WillSay, Keeps
  <2> QED
    BY <1>2, <1>8, <1>9, <2>1, PreviewStays
<1> QED
  BY <1>4, <1>6, <1>7, <1>10, <1>11 DEF LoneWriterKnows

\* A handler that writes no preview and owes none leaves for idle or a list.
LEMMA LeavesQuietly ==
  ASSUME LogInv, NEW p \in Handlers, TypeOK', UNCHANGED <<rows, stamp, clock>>,
         \A q \in Handlers \ {p} : Keeps(q), h'[p].at \in {"idle", "fill"},
         UNCHANGED <<sound, preview>>, \A d \in Chats : ~ WillSay(p, d)
  PROVE  LogInv'
<1> USE DEF LogInv
<1>1. Ends(p) /\ StillWrites(p) /\ Knows(p)'
  BY DEF Ends, StillWrites, Writing, Knows, SendSteps, DeleteSteps, ClearSteps
<1>2. Sent' /\ Dated' /\ OnlyOne' /\ LoneWriterKnows'
  BY <1>1, MovesOn
<1>3. PreviewOwed'
  <2>1. \A q \in Handlers, d \in Chats : WillSay(q, d) => WillSay(q, d)'
    BY DEF WillSay, Keeps
  <2> QED
    BY <2>1, PreviewRests
<1> QED
  BY <1>2, <1>3

LEMMA QuietLog ==
  ASSUME LogInv, NEW p \in Handlers,
         \/ ClearInvalidate(p) \/ Fill(p) \/ \E c \in Chats : GetMiss(p, c)
  PROVE  LogInv'
<1>1. TypeOK'
  BY ClearType, GetType DEF LogInv, DeleteChatMessages, GetMessages
<1>2. /\ UNCHANGED <<rows, stamp, clock, sound, preview>>
      /\ h[p].at \in {"clearInvalidate", "fill", "idle"}
  BY DEF ClearInvalidate, Fill, GetMiss, service
<1>3. (\A q \in Handlers \ {p} : Keeps(q)) /\ h'[p].at \in {"idle", "fill"}
  <2>1. CASE ClearInvalidate(p)
    BY <2>1, PassKeeps DEF LogInv, ClearInvalidate, Del, Idle
  <2>2. CASE Fill(p)
    BY <2>2, IdleKeeps DEF LogInv, Fill
  <2>3. ASSUME NEW c \in Chats, GetMiss(p, c)
        PROVE  (\A q \in Handlers \ {p} : Keeps(q)) /\ h'[p].at \in {"idle", "fill"}
    BY <2>3 DEF LogInv, GetMiss, TypeOK, Keeps, Idle
  <2> QED
    BY <2>1, <2>2, <2>3
<1> QED
  BY <1>1, <1>2, <1>3, LeavesQuietly DEF WillSay, DeleteSteps

LEMMA AbortLog ==
  ASSUME LogInv, NEW p \in Handlers, Abort(p)
  PROVE  LogInv'
<1> USE DEF LogInv
<1>1. PICK c \in Chats : c = h[p].chat
  BY DEF Abort, TypeOK, Targeted
<1>2. UNCHANGED <<rows, stamp, clock, preview>>
  BY DEF Abort, service
<1>3. (\A q \in Handlers \ {p} : Keeps(q)) /\ h'[p].at = "idle"
  BY PassKeeps, IdleKeeps DEF Abort, Idle
<1>4. TypeOK'
  BY AbortType
<1>5. Ends(p) /\ StillWrites(p) /\ Knows(p)'
  BY <1>3 DEF Ends, StillWrites, Writing, Knows, SendSteps, DeleteSteps, ClearSteps
<1>6. Sent' /\ Dated' /\ OnlyOne' /\ LoneWriterKnows'
  BY <1>2, <1>3, <1>5, MovesOn
<1>7. PreviewOwed'
  <2>1. CASE h[p].at \in {"sendInvalidate", "sendPreview"} \union DeleteSteps
    <3>1. (\A d \in Chats \ {c} : sound'[d] = sound[d]) /\ ~ sound'[c]
      BY <1>1, <2>1 DEF Abort, TypeOK
    <3>2. \A q \in Handlers, d \in Chats \ {c} : WillSay(q, d) => WillSay(q, d)'
      BY <1>1, <1>3 DEF WillSay, Keeps
    <3> QED
      BY <1>2, <3>1, <3>2, LogStays, PreviewStays
  <2>2. CASE h[p].at \notin {"sendInvalidate", "sendPreview"} \union DeleteSteps
    <3>1. sound' = sound
      BY <2>2 DEF Abort
    <3>2. \A q \in Handlers, d \in Chats : WillSay(q, d) => WillSay(q, d)'
      BY <1>3, <2>2 DEF WillSay, Keeps
    <3> QED
      BY <1>2, <3>1, <3>2, PreviewRests
  <2> QED
    BY <2>1, <2>2
<1> QED
  BY <1>4, <1>6, <1>7

LEMMA LogUntouched ==
  ASSUME LogInv, TypeOK', UNCHANGED <<rows, stamp, clock, h, sound, preview>>
  PROVE  LogInv'
<1> USE DEF LogInv
<1>1. \A q \in Handlers : Keeps(q) /\ Ends(q) /\ StillWrites(q)
  BY DEF Keeps, Ends, StillWrites, Writing
<1>2. Sent' /\ Dated' /\ OnlyOne'
  BY <1>1, SentStays, OnlyOneStays
<1>3. LoneWriterKnows'
  BY DEF LoneWriterKnows, Knows, Latest, RowsOf
<1>4. PreviewOwed'
  BY PreviewRests DEF WillSay
<1> QED
  BY <1>2, <1>3, <1>4

LEMMA NextLogInv == LogInv /\ [Next]_vars => LogInv'
<1> SUFFICES ASSUME LogInv, [Next]_vars PROVE LogInv'
  OBVIOUS
<1>0. TypeOK'
  BY NextType DEF LogInv
<1>1. ASSUME NEW p \in Handlers, Send(p) PROVE LogInv'
  BY <1>1, SendBeginLog, SendInsertLog, SendInvalidateLog, SendPreviewLog DEF Send
<1>2. ASSUME NEW p \in Handlers, DeleteMessage(p) PROVE LogInv'
  <2>1. CASE DeleteMiss(p)
    BY <1>0, <2>1, LogUntouched DEF DeleteMiss, service
  <2> QED
    BY <1>2, <2>1, DeleteTextLog, DeleteFileLog, DeleteObjectLog, DeleteInvalidateLog,
       SelectLatestLog, DeletePreviewLog DEF DeleteMessage
<1>3. ASSUME NEW p \in Handlers, DeleteChatMessages(p) PROVE LogInv'
  <2>1. ASSUME NEW c \in Chats, ClearFails(p, c) PROVE LogInv'
    BY <1>0, <2>1, LogUntouched DEF ClearFails, service
  <2> QED
    BY <1>3, <2>1, ClearListLog, ClearObjectLog, ClearRowsLog, QuietLog DEF DeleteChatMessages
<1>4. ASSUME NEW p \in Handlers, GetMessages(p) PROVE LogInv'
  <2>1. ASSUME NEW c \in Chats, GetHit(p, c) PROVE LogInv'
    BY <1>0, <2>1, LogUntouched DEF GetHit, service
  <2> QED
    BY <1>4, <2>1, QuietLog DEF GetMessages
<1>5. ASSUME NEW p \in Handlers, Abort(p) PROVE LogInv'
  BY <1>5, AbortLog
<1>6. ASSUME NEW c \in Chats, Expire(c) PROVE LogInv'
  BY <1>0, <1>6, LogUntouched DEF Expire
<1>7. ASSUME NEW m \in Msgs, NotifyDeleteMessage(m) PROVE LogInv'
  BY <1>0, <1>7, LogUntouched DEF NotifyDeleteMessage
<1>8. ASSUME NEW k \in Keys, Put(k) PROVE LogInv'
  BY <1>0, <1>8, LogUntouched DEF Put
<1>9. CASE LoseNotices
  BY <1>0, <1>9, LogUntouched DEF LoseNotices
<1>10. CASE UNCHANGED vars
  BY <1>0, <1>10, LogUntouched DEF vars, service
<1> QED
  BY <1>1, <1>2, <1>3, <1>4, <1>5, <1>6, <1>7, <1>8, <1>9, <1>10 DEF Next

LEMMA InitLogInv == Init => LogInv
<1> SUFFICES ASSUME Init PROVE LogInv
  OBVIOUS
<1>1. rows = {} /\ clock = 0 /\ stamp = [m \in Msgs |-> 0] /\ \A p \in Handlers : h[p].at = "idle"
  BY DEF Init, Idle
<1> QED
  BY <1>1, InitType DEF LogInv, Sent, Dated, OnlyOne, LoneWriterKnows, Knows,
     PreviewOwed, RowsOf, Writing, SendSteps, DeleteSteps, ClearSteps

\* Whenever no writer of a chat is at work, the last one ran alone and its calls
\* got through, UpdateLastMessage has left the newest message in the preview.
THEOREM PreviewsFollowTheLog == Spec => []PreviewFollowsLog
<1>1. LogInv => PreviewFollowsLog
  BY DEF LogInv, PreviewOwed, PreviewFollowsLog, Alone, Writing, WillSay, SendSteps
<1> QED
  BY InitLogInv, NextLogInv, <1>1, PTL DEF Spec

-----------------------------------------------------------------------------
(* The objects.                                                            *)

\* Whoever deletes objects has deleted a row that named them, or is about to.
Deletes(p) ==
  /\ h[p].at = "deleteObject" => h[p].msg \in deleted
  /\ h[p].at = "clearObjects" =>
       \A m \in h[p].list : m \in Files /\ ChatOf[m] = h[p].chat /\ m \in rows \union deleted

FileInv ==
  /\ TypeOK
  /\ \A p \in Handlers : Deletes(p)
  /\ \A k \in stored \ objects : Reached(k)

\* A DeleteChatMessages at work stays so, or has dealt with every row it saw.
Clears(p) ==
  h[p].at = "clearObjects" =>
    \/ h'[p].at = "clearObjects" /\ h'[p].chat = h[p].chat
    \/ \A n \in RowsOf(h[p].chat) \intersect Files :
         n \in deleted' \/ KeyOf[n] \in halfCleared' \union objects'

\* What a step of p has to show: rows with a file go to deleted, and an
\* object that is missing anew is accounted for.
LEMMA FilesStep ==
  ASSUME FileInv, TypeOK', NEW p \in Handlers, \A q \in Handlers \ {p} : Keeps(q),
         rows \intersect Files \subseteq rows' \union deleted', deleted \subseteq deleted',
         halfCleared \subseteq halfCleared', Clears(p), Deletes(p)',
         \A k \in stored' \ objects' : k \in stored \ objects \/ Reached(k)'
  PROVE  FileInv'
<1>1. ASSUME NEW q \in Handlers \ {p} PROVE Deletes(q)'
  <2>1. Keeps(q) /\ Deletes(q)
    BY DEF FileInv
  <2>2. CASE h'[q].at = "deleteObject"
    BY <2>1, <2>2 DEF Keeps, Deletes
  <2>3. CASE h'[q].at = "clearObjects"
    BY <2>1, <2>3 DEF Keeps, Deletes
  <2> QED
    BY <2>2, <2>3 DEF Deletes
<1>2. ASSUME NEW k \in stored' \ objects', k \in stored \ objects PROVE Reached(k)'
  <2>1. CASE k \in halfCleared
    BY <2>1 DEF Reached
  <2>2. CASE k \notin halfCleared
    <3>1. PICK n \in Files :
            /\ KeyOf[n] = k
            /\ \/ n \in deleted
               \/ n \in rows /\ \E q \in Handlers :
                                  h[q].at = "clearObjects" /\ h[q].chat = ChatOf[n]
      BY <1>2, <2>2 DEF FileInv, Reached
    <3>2. CASE n \in deleted'
      BY <3>1, <3>2 DEF Reached
    <3>3. CASE n \notin deleted'
      <4>1. n \in rows /\ n \in rows'
        BY <3>1, <3>3
      <4>2. PICK q \in Handlers : h[q].at = "clearObjects" /\ h[q].chat = ChatOf[n]
        BY <3>1, <3>3
      <4>3. n \in RowsOf(h[q].chat) \intersect Files
        BY <4>1, <4>2 DEF RowsOf
      <4>4. \/ k \in halfCleared'
            \/ h'[q].at = "clearObjects" /\ h'[q].chat = ChatOf[n]
        BY <1>2, <3>1, <3>3, <4>2, <4>3 DEF Keeps, Clears
      <4> QED
        BY <3>1, <4>1, <4>4 DEF Reached
    <3> QED
      BY <3>2, <3>3
  <2> QED
    BY <2>1, <2>2
<1>3. \A k \in stored' \ objects' : Reached(k)'
  BY <1>2
<1> QED
  BY <1>1, <1>3 DEF FileInv

\* The same when no handler moves.
LEMMA FilesRest ==
  ASSUME FileInv, TypeOK', UNCHANGED <<rows, h, deleted, halfCleared>>,
         stored' \ objects' \subseteq stored \ objects
  PROVE  FileInv'
<1>1. \A q \in Handlers : Deletes(q)'
  BY DEF FileInv, Deletes
<1>2. \A k \in stored' \ objects' : Reached(k)'
  BY DEF FileInv, Reached
<1> QED
  BY <1>1, <1>2 DEF FileInv

\* A handler that is not deleting objects and does not begin to.
LEMMA FilesAside ==
  ASSUME FileInv, TypeOK', NEW p \in Handlers, \A q \in Handlers \ {p} : Keeps(q),
         rows \intersect Files \subseteq rows', UNCHANGED <<objects, stored, deleted>>,
         halfCleared \subseteq halfCleared', Clears(p),
         h'[p].at \notin {"deleteObject", "clearObjects"}
  PROVE  FileInv'
  BY FilesStep DEF Deletes

LEMMA SendFiles ==
  ASSUME FileInv, TypeOK', NEW p \in Handlers, Send(p)
  PROVE  FileInv'
<1> USE DEF FileInv
<1>1. /\ rows \subseteq rows'
      /\ UNCHANGED <<objects, stored, deleted, halfCleared>>
      /\ h[p].at \in SendSteps \union {"idle"}
  BY DEF Send, SendBegin, SendInsert, SendInvalidate, SendPreview, SendSteps
<1>2. (\A q \in Handlers \ {p} : Keeps(q)) /\ h'[p].at \in SendSteps \union {"idle"}
  <2>1. ASSUME NEW m \in Msgs, SendBegin(p, m)
        PROVE  (\A q \in Handlers \ {p} : Keeps(q)) /\ h'[p].at = "insert"
    BY <2>1, EnterKeeps DEF SendBegin
  <2>2. CASE SendInsert(p)
    BY <2>2, GotoKeeps DEF SendInsert, SendSteps
  <2>3. CASE SendInvalidate(p)
    <3>1. [h[p] EXCEPT !.at = "sendPreview"].at = "sendPreview"
      BY DEF TypeOK, HandlerState
    <3> QED
      BY <2>3, <3>1, PassKeeps DEF SendInvalidate, Del, SendSteps
  <2>4. CASE SendPreview(p)
    BY <2>4, IdleKeeps DEF SendPreview
  <2> QED
    BY <2>1, <2>2, <2>3, <2>4 DEF Send, SendSteps
<1> QED
  BY <1>1, <1>2, FilesAside DEF Clears, SendSteps

\* DeleteMessage from its invalidation on.
LEMMA DeleteEndFiles ==
  ASSUME FileInv, TypeOK', NEW p \in Handlers,
         DeleteInvalidate(p) \/ SelectLatest(p) \/ DeletePreview(p)
  PROVE  FileInv'
<1> USE DEF FileInv
<1>1. /\ UNCHANGED <<rows, objects, stored, deleted, halfCleared>>
      /\ h[p].at \in {"deleteInvalidate", "selectLatest", "deletePreview"}
  BY DEF DeleteInvalidate, SelectLatest, DeletePreview, service
<1>2. /\ \A q \in Handlers \ {p} : Keeps(q)
      /\ h'[p].at \in {"selectLatest", "deletePreview", "idle"}
  <2>1. CASE DeleteInvalidate(p)
    <3>1. [h[p] EXCEPT !.at = "selectLatest"].at = "selectLatest"
      BY DEF TypeOK, HandlerState
    <3> QED
      BY <2>1, <3>1, PassKeeps DEF DeleteInvalidate, Del
  <2>2. CASE SelectLatest(p)
    BY <2>2 DEF SelectLatest, TypeOK, HandlerState, Keeps
  <2>3. CASE DeletePreview(p)
    BY <2>3, IdleKeeps DEF DeletePreview
  <2> QED
    BY <2>1, <2>2, <2>3
<1> QED
  BY <1>1, <1>2, FilesAside DEF Clears

LEMMA DeleteFiles ==
  ASSUME FileInv, TypeOK', NEW p \in Handlers, DeleteMessage(p)
  PROVE  FileInv'
<1> USE DEF FileInv
<1>1. CASE DeleteMiss(p)
  BY <1>1, FilesRest DEF DeleteMiss, service
<1>2. ASSUME NEW m \in Msgs, DeleteText(p, m) PROVE FileInv'
  <2>1. /\ rows \intersect Files \subseteq rows' /\ h[p].at = "idle"
        /\ UNCHANGED <<objects, stored, deleted, halfCleared>>
    BY <1>2 DEF DeleteText
  <2>2. ASSUME NEW q \in Handlers PROVE Keeps(q)
    BY <1>2 DEF DeleteText, TypeOK, HandlerState, Keeps
  <2>3. h'[p].at = "idle"
    BY <2>1, <2>2 DEF Keeps
  <2> QED
    BY <2>1, <2>2, <2>3, FilesAside DEF Clears
<1>3. ASSUME NEW m \in Msgs, DeleteFile(p, m) PROVE FileInv'
  <2>1. /\ h[p].at = "idle" /\ rows' = rows \ {m} /\ deleted' = deleted \union {m}
        /\ UNCHANGED <<objects, stored, halfCleared>>
    BY <1>3 DEF DeleteFile
  <2>2. /\ \A q \in Handlers \ {p} : Keeps(q)
        /\ h'[p].at = "deleteObject" /\ h'[p].msg = m
    BY <1>3, EnterKeeps DEF DeleteFile
  <2>3. Deletes(p)'
    BY <2>1, <2>2 DEF Deletes
  <2> QED
    BY <2>1, <2>2, <2>3, FilesStep DEF Clears
<1>4. CASE DeleteObject(p) \/ DeleteObjectFails(p)
  <2>1. PICK k \in Keys : k = KeyOf[h[p].msg] /\ h[p].msg \in deleted
    BY <1>4 DEF DeleteObject, DeleteObjectFails, Deletes, TypeOK
  <2>2. /\ h[p].at = "deleteObject" /\ objects \ objects' \subseteq {k}
        /\ UNCHANGED <<rows, stored, deleted, halfCleared>>
    BY <1>4, <2>1 DEF DeleteObject, DeleteObjectFails
  <2>3. (\A q \in Handlers \ {p} : Keeps(q)) /\ h'[p].at \in {"deleteInvalidate", "idle"}
    BY <1>4, GotoKeeps, PassKeeps DEF DeleteObject, DeleteObjectFails, Idle
  <2>4. Reached(k)'
    BY <2>1, <2>2 DEF Reached, TypeOK
  <2>5. Deletes(p)' /\ Clears(p)
    BY <2>2, <2>3 DEF Deletes, Clears
  <2> QED
    BY <2>2, <2>3, <2>4, <2>5, FilesStep
<1> QED
  BY <1>1, <1>2, <1>3, <1>4, DeleteEndFiles DEF DeleteMessage

LEMMA ClearFiles ==
  ASSUME FileInv, TypeOK', NEW p \in Handlers, DeleteChatMessages(p)
  PROVE  FileInv'
<1> USE DEF FileInv
<1>1. ASSUME NEW c \in Chats, ClearFails(p, c) PROVE FileInv'
  BY <1>1, FilesRest DEF ClearFails, service
<1>2. ASSUME NEW c \in Chats, ClearList(p, c) PROVE FileInv'
  <2>1. /\ h[p].at = "idle" /\ RowsOf(c) \subseteq Files
        /\ UNCHANGED <<rows, objects, stored, deleted, halfCleared>>
    BY <1>2 DEF ClearList, service
  <2>2. /\ \A q \in Handlers \ {p} : Keeps(q)
        /\ h'[p].at = "clearObjects" /\ h'[p].chat = c /\ h'[p].list = RowsOf(c)
    BY <1>2, EnterKeeps DEF ClearList
  <2>3. Deletes(p)'
    BY <2>1, <2>2 DEF Deletes, RowsOf
  <2> QED
    BY <2>1, <2>2, <2>3, FilesStep DEF Clears
<1>3. ASSUME NEW m \in Msgs, ClearObject(p, m) PROVE FileInv'
  <2>1. /\ h[p].at = "clearObjects" /\ m \in Files /\ ChatOf[m] = h[p].chat
        /\ m \in rows \union deleted /\ objects \ objects' \subseteq {KeyOf[m]}
        /\ UNCHANGED <<rows, stored, deleted, halfCleared>>
    BY <1>3 DEF ClearObject, Deletes
  <2>2. /\ \A q \in Handlers \ {p} : Keeps(q)
        /\ h'[p].at = "clearObjects" /\ h'[p].chat = h[p].chat
        /\ h'[p].list \subseteq h[p].list
    BY <1>3 DEF ClearObject, TypeOK, HandlerState, Keeps
  <2>3. PICK k \in Keys : k = KeyOf[m]
    BY <2>1
  <2>4. Reached(k)'
    BY <2>1, <2>2, <2>3 DEF Reached
  <2>5. Deletes(p)' /\ Clears(p)
    BY <2>1, <2>2 DEF Deletes, Clears
  <2> QED
    BY <2>1, <2>2, <2>3, <2>4, <2>5, FilesStep
<1>4. CASE ClearRows(p)
  <2>1. PICK c \in Chats : c = h[p].chat
    BY <1>4 DEF ClearRows, TypeOK, Targeted
  <2>2. /\ rows' = rows \ RowsOf(c) /\ deleted' = deleted \union (RowsOf(c) \intersect Files)
        /\ UNCHANGED <<objects, stored, halfCleared>>
    BY <1>4, <2>1 DEF ClearRows
  <2>3. (\A q \in Handlers \ {p} : Keeps(q)) /\ h'[p].at = "clearInvalidate"
    BY <1>4, GotoKeeps DEF ClearRows
  <2>4. Deletes(p)' /\ Clears(p)
    BY <2>1, <2>2, <2>3 DEF Deletes, Clears
  <2> QED
    BY <2>2, <2>3, <2>4, FilesStep
<1>5. CASE ClearInvalidate(p)
  <2>1. /\ h[p].at = "clearInvalidate"
        /\ UNCHANGED <<rows, objects, stored, deleted, halfCleared>>
    BY <1>5 DEF ClearInvalidate
  <2>2. (\A q \in Handlers \ {p} : Keeps(q)) /\ h'[p].at = "idle"
    BY <1>5, PassKeeps DEF ClearInvalidate, Del, Idle
  <2> QED
    BY <2>1, <2>2, FilesAside DEF Clears
<1> QED
  BY <1>1, <1>2, <1>3, <1>4, <1>5 DEF DeleteChatMessages

LEMMA GetFiles ==
  ASSUME FileInv, TypeOK', NEW p \in Handlers, GetMessages(p)
  PROVE  FileInv'
<1> USE DEF FileInv
<1>1. ASSUME NEW c \in Chats, GetHit(p, c) PROVE FileInv'
  BY <1>1, FilesRest DEF GetHit, service
<1>2. CASE (\E c \in Chats : GetMiss(p, c)) \/ Fill(p)
  <2>1. /\ UNCHANGED <<rows, objects, stored, deleted, halfCleared>>
        /\ h[p].at \in {"fill", "idle"}
    BY <1>2 DEF GetMiss, Fill, service
  <2>2. (\A q \in Handlers \ {p} : Keeps(q)) /\ h'[p].at \in {"idle", "fill"}
    <3>1. CASE Fill(p)
      BY <3>1, IdleKeeps DEF Fill
    <3>2. ASSUME NEW c \in Chats, GetMiss(p, c)
          PROVE  (\A q \in Handlers \ {p} : Keeps(q)) /\ h'[p].at \in {"idle", "fill"}
      BY <3>2 DEF GetMiss, TypeOK, Keeps, Idle
    <3> QED
      BY <1>2, <3>1, <3>2
  <2> QED
    BY <2>1, <2>2, FilesAside DEF Clears
<1> QED
  BY <1>1, <1>2 DEF GetMessages

LEMMA AbortFiles ==
  ASSUME FileInv, TypeOK', NEW p \in Handlers, Abort(p)
  PROVE  FileInv'
<1> USE DEF FileInv
<1>1. UNCHANGED <<rows, objects, stored, deleted>> /\ halfCleared \subseteq halfCleared'
  BY DEF Abort, service
<1>2. (\A q \in Handlers \ {p} : Keeps(q)) /\ h'[p].at = "idle"
  BY PassKeeps, IdleKeeps DEF Abort, Idle
<1>3. Clears(p)
  BY <1>1 DEF Abort, Clears
<1> QED
  BY <1>1, <1>2, <1>3, FilesAside

LEMMA NextFileInv == FileInv /\ [Next]_vars => FileInv'
<1> SUFFICES ASSUME FileInv, [Next]_vars PROVE FileInv'
  OBVIOUS
<1>0. TypeOK'
  BY NextType DEF FileInv
<1>1. ASSUME NEW p \in Handlers,
             Send(p) \/ DeleteMessage(p) \/ DeleteChatMessages(p) \/ GetMessages(p) \/ Abort(p)
      PROVE  FileInv'
  BY <1>0, <1>1, SendFiles, DeleteFiles, ClearFiles, GetFiles, AbortFiles
<1>2. CASE (\E c \in Chats : Expire(c)) \/ LoseNotices \/ UNCHANGED vars
  BY <1>0, <1>2, FilesRest DEF Expire, LoseNotices, vars, service
<1>3. ASSUME NEW m \in Msgs, NotifyDeleteMessage(m) PROVE FileInv'
  BY <1>0, <1>3, FilesRest DEF NotifyDeleteMessage
<1>4. ASSUME NEW k \in Keys, Put(k) PROVE FileInv'
  BY <1>0, <1>4, FilesRest DEF Put
<1> QED
  BY <1>1, <1>2, <1>3, <1>4 DEF Next

LEMMA InitFileInv == Init => FileInv
  BY InitType DEF Init, FileInv, Deletes, Idle

\* The file of a stored message, once uploaded, is missing only where a
\* deletion has reached a row with its key.
THEOREM RowsHaveObjects == Spec => []RowHasObject
<1>1. FileInv => RowHasObject
  BY DEF FileInv, RowHasObject, TypeOK
<1> QED
  BY InitFileInv, NextFileInv, <1>1, PTL DEF Spec

=============================================================================
