------------------------------ MODULE Messaging ------------------------------
(***************************************************************************)
(* The messaging service: concurrent gRPC handlers over four stores that   *)
(* share no transaction: the messages table (rows), the Redis entry        *)
(* msg:messages:<chat> (cache), the file objects behind the S3 service     *)
(* (objects) and the last-message preview that the chat service keeps      *)
(* (preview).  A handler is a sequence of steps, one per call it makes;    *)
(* the steps of different handlers interleave, every call may fail, and    *)
(* a handler may be cut off between two steps.                             *)
(***************************************************************************)
EXTENDS Naturals

CONSTANTS
  Msgs,       \* the messages that may ever be sent (the uuids the INSERT returns)
  Chats,
  Handlers,   \* gRPC requests in flight at once
  ChatOf,     \* the chat a message is sent to
  Files,      \* the messages that carry a file (type # text); the others are text
  Keys,       \* keys of the object store
  KeyOf,      \* the key a message names; nothing keeps two from naming the same
  None        \* no message: a NULL or empty preview

ASSUME ChatOfType == ChatOf \in [Msgs -> Chats]
ASSUME FilesType == Files \subseteq Msgs
ASSUME KeyOfType == KeyOf \in [Files -> Keys]
ASSUME NoneFresh == None \notin Msgs

VARIABLES
  rows,       \* messages table: the ids stored
  stamp,      \* created_at of every message whose INSERT has begun (0: not yet)
  clock,
  cache,      \* chat -> the cached list, or NoEntry
  preview,    \* chat -> the message its last_message column shows, or None
  objects,    \* what the object store holds
  h,          \* handler -> what it is doing
  notFound,   \* this step replied NotFound (no other reply is told apart)
  notices,    \* notifyDeleteMessage goroutines that have not published yet
  \* History, read by no guard:
  doubt,      \* chat -> the entry outlived an invalidation that was lost or raced it
  sound,      \* chat -> the last preview writer ran alone and got through
  stored,     \* keys that ever had an object
  deleted,    \* messages with a file whose row has been deleted
  halfCleared \* keys without an object that rows still named when a
              \* DeleteChatMessages stopped before its DELETE

service == <<rows, stamp, clock, cache, preview, objects, notices>>
fileHistory == <<stored, deleted, halfCleared>>
history == <<doubt, sound, fileHistory>>
vars == <<service, h, notFound, history>>

-----------------------------------------------------------------------------
SendSteps   == {"insert", "sendInvalidate", "sendPreview"}
DeleteSteps == {"deleteObject", "deleteInvalidate", "selectLatest", "deletePreview"}
ClearSteps  == {"clearObjects", "clearInvalidate"}
GetSteps    == {"fill"}
Steps == SendSteps \union DeleteSteps \union ClearSteps \union GetSteps \union {"idle"}

\* raced: an invalidation was due between this reader's query and its Set.
\* alone: no other writer of the chat has been in flight together with this one.
HandlerState == [at: Steps, msg: Msgs \union {None}, chat: Chats \union {None},
                 list: SUBSET Msgs, raced: BOOLEAN, alone: BOOLEAN]

Idle == [at |-> "idle", msg |-> None, chat |-> None, list |-> {},
         raced |-> FALSE, alone |-> FALSE]

\* No Redis entry: not a list of messages.
NoEntry == {None}

RowsOf(c) == {m \in rows : ChatOf[m] = c}

\* ORDER BY created_at DESC LIMIT 1: one row, or none in an empty chat.
Latest(c) == {m \in RowsOf(c) : \A n \in RowsOf(c) : stamp[n] <= stamp[m]}

\* A handler that has committed a change of the chat's rows and not yet come
\* to its invalidation.
Owes(p, c) ==
  h[p].chat = c /\ h[p].at \in {"sendInvalidate", "deleteObject", "deleteInvalidate",
                                "clearInvalidate"}

Writing(p, c) == h[p].chat = c /\ h[p].at \in SendSteps \union DeleteSteps \union ClearSteps

Alone(c) == \A p \in Handlers : ~Writing(p, c)

\* The handler p enters its first step as a writer of chat c.
Enter(p, c, at, m, list) ==
  h' = [q \in Handlers |->
          IF q = p THEN [Idle EXCEPT !.at = at, !.msg = m, !.chat = c, !.list = list,
                                     !.alone = Alone(c)]
          ELSE IF Writing(q, c) THEN [h[q] EXCEPT !.alone = FALSE]
          ELSE h[q]]

Goto(p, at) == h' = [h EXCEPT ![p].at = at]

\* The invalidation due in chat c is made or missed, and p goes on as next:
\* a reader between its query and its Set has been overtaken either way.
PassInvalidation(p, c, next) ==
  h' = [q \in Handlers |->
          IF q = p THEN next
          ELSE IF h[q].at = "fill" /\ h[q].chat = c THEN [h[q] EXCEPT !.raced = TRUE]
          ELSE h[q]]

-----------------------------------------------------------------------------
Init ==
  /\ rows = {} /\ objects = {} /\ notices = {}
  /\ stored = {} /\ deleted = {} /\ halfCleared = {}
  /\ stamp = [m \in Msgs |-> 0]
  /\ clock = 0
  /\ cache = [c \in Chats |-> NoEntry]
  /\ preview = [c \in Chats |-> None]
  /\ h = [p \in Handlers |-> Idle]
  /\ notFound = FALSE
  /\ doubt = [c \in Chats |-> FALSE]
  /\ sound = [c \in Chats |-> TRUE]

(* A client stores an object with the upload link it has for the key:      *)
(* before, after or without sending a message that names it, or again.     *)
Put(k) ==
  /\ objects' = objects \union {k} /\ stored' = stored \union {k}
  /\ notFound' = FALSE
  /\ UNCHANGED <<rows, stamp, clock, cache, preview, notices, h, doubt, sound,
                 deleted, halfCleared>>

(* SendMessage.  created_at is now(), the start of the INSERT's own        *)
(* transaction, so two overlapping INSERTs may commit in the other order.  *)
(* A file's key has to be in the sender's folder and is not looked up.     *)
SendBegin(p, m) ==
  /\ h[p].at = "idle"
  /\ stamp[m] = 0
  /\ clock' = clock + 1
  /\ stamp' = [stamp EXCEPT ![m] = clock + 1]
  /\ Enter(p, ChatOf[m], "insert", m, {})
  /\ notFound' = FALSE
  /\ UNCHANGED <<rows, cache, preview, objects, notices, history>>

\* Mutation of SendInsert: the list is not invalidated.
SendInsertOnly(p) ==
  /\ h[p].at = "insert"
  /\ rows' = rows \union {h[p].msg}
  /\ Goto(p, "sendPreview")
  /\ notFound' = FALSE
  /\ UNCHANGED <<stamp, clock, cache, preview, objects, notices, history>>

SendInsert(p) ==
  /\ h[p].at = "insert"
  /\ rows' = rows \union {h[p].msg}
  /\ Goto(p, "sendInvalidate")
  /\ notFound' = FALSE
  /\ UNCHANGED <<stamp, clock, cache, preview, objects, notices, history>>

\* cache.Del, whose error nobody looks at: ok tells whether Redis did it.
Del(p, c, next) ==
  \E ok \in BOOLEAN :
    /\ cache' = IF ok THEN [cache EXCEPT ![c] = NoEntry] ELSE cache
    /\ doubt' = [doubt EXCEPT ![c] = ~ok]
    /\ PassInvalidation(p, c, next)

SendInvalidate(p) ==
  /\ h[p].at = "sendInvalidate"
  /\ Del(p, h[p].chat, [h[p] EXCEPT !.at = "sendPreview"])
  /\ notFound' = FALSE
  /\ UNCHANGED <<rows, stamp, clock, preview, objects, notices, sound, fileHistory>>

\* The chat service's UpdateLastMessage.  Nobody looks at its error, and it
\* answers Ok when its UPDATEs fail, as they do on the empty sender of an
\* emptied chat, which is no uuid.
UpdateLastMessage(p, c, last) ==
  \E ok \in BOOLEAN :
    /\ preview' = IF ok /\ last # None THEN [preview EXCEPT ![c] = last] ELSE preview
    /\ sound' = [sound EXCEPT ![c] = ok /\ h[p].alone]

SendPreview(p) ==
  /\ h[p].at = "sendPreview"
  /\ UpdateLastMessage(p, h[p].chat, h[p].msg)
  /\ h' = [h EXCEPT ![p] = Idle]
  /\ notFound' = FALSE
  /\ UNCHANGED <<rows, stamp, clock, cache, objects, notices, doubt, fileHistory>>

-----------------------------------------------------------------------------
(* DeleteMessage.  DELETE ... RETURNING file_url into a string: the row of *)
(* a text message, whose file_url is NULL, is gone when Scan fails.        *)
DeleteMiss(p) ==
  /\ h[p].at = "idle"
  /\ notFound' = TRUE
  /\ UNCHANGED <<service, h, history>>

DeleteText(p, m) ==
  LET c == ChatOf[m] IN
  /\ h[p].at = "idle"
  /\ m \in rows \ Files
  /\ rows' = rows \ {m}
  /\ notFound' = TRUE
  /\ h' = [q \in Handlers |->
             IF h[q].at = "fill" /\ h[q].chat = c THEN [h[q] EXCEPT !.raced = TRUE]
             ELSE IF Writing(q, c) THEN [h[q] EXCEPT !.alone = FALSE]
             ELSE h[q]]
  /\ doubt' = [doubt EXCEPT ![c] = TRUE]
  /\ sound' = [sound EXCEPT ![c] = FALSE]
  /\ UNCHANGED <<stamp, clock, cache, preview, objects, notices, fileHistory>>

\* Mutation of DeleteFile: the object goes first, the row stays.
DeleteFileLater(p, m) ==
  /\ h[p].at = "idle"
  /\ m \in rows \intersect Files
  /\ Enter(p, ChatOf[m], "deleteObject", m, {})
  /\ notFound' = FALSE
  /\ UNCHANGED <<service, history>>

DeleteFile(p, m) ==
  /\ h[p].at = "idle"
  /\ m \in rows \intersect Files
  /\ rows' = rows \ {m} /\ deleted' = deleted \union {m}
  /\ Enter(p, ChatOf[m], "deleteObject", m, {})
  /\ notFound' = FALSE
  /\ UNCHANGED <<stamp, clock, cache, preview, objects, notices, doubt, sound,
                 stored, halfCleared>>

\* Mutation of DeleteObject: the list is not invalidated.
DeleteObjectOnly(p) ==
  /\ h[p].at = "deleteObject"
  /\ objects' = objects \ {KeyOf[h[p].msg]}
  /\ Goto(p, "selectLatest")
  /\ notFound' = FALSE
  /\ UNCHANGED <<rows, stamp, clock, cache, preview, notices, history>>

DeleteObject(p) ==
  /\ h[p].at = "deleteObject"
  /\ objects' = objects \ {KeyOf[h[p].msg]}
  /\ Goto(p, "deleteInvalidate")
  /\ notFound' = FALSE
  /\ UNCHANGED <<rows, stamp, clock, cache, preview, notices, history>>

\* The file service answers with an error, having deleted the object or not:
\* DeleteMessage returns it and does nothing of what is left.
DeleteObjectFails(p) ==
  LET c == h[p].chat IN
  /\ h[p].at = "deleteObject"
  /\ objects' \in {objects, objects \ {KeyOf[h[p].msg]}}
  /\ PassInvalidation(p, c, Idle)
  /\ notFound' = FALSE
  /\ doubt' = [doubt EXCEPT ![c] = TRUE]
  /\ sound' = [sound EXCEPT ![c] = FALSE]
  /\ UNCHANGED <<rows, stamp, clock, cache, preview, notices, fileHistory>>

DeleteInvalidate(p) ==
  /\ h[p].at = "deleteInvalidate"
  /\ Del(p, h[p].chat, [h[p] EXCEPT !.at = "selectLatest"])
  /\ notFound' = FALSE
  /\ UNCHANGED <<rows, stamp, clock, preview, objects, notices, sound, fileHistory>>

\* Mutation of SelectLatest: the oldest row instead.
SelectOldest(p) ==
  /\ h[p].at = "selectLatest"
  /\ h' = [h EXCEPT ![p].at = "deletePreview",
                    ![p].list = {m \in RowsOf(h[p].chat) :
                                   \A n \in RowsOf(h[p].chat) : stamp[m] <= stamp[n]}]
  /\ notFound' = FALSE
  /\ UNCHANGED <<service, history>>

\* list carries what the SELECT returned.
SelectLatest(p) ==
  /\ h[p].at = "selectLatest"
  /\ h' = [h EXCEPT ![p] = [@ EXCEPT !.at = "deletePreview", !.list = Latest(h[p].chat)]]
  /\ notFound' = FALSE
  /\ UNCHANGED <<service, history>>

LatestRead(p) == IF h[p].list = {} THEN None ELSE CHOOSE m \in h[p].list : TRUE

DeletePreview(p) ==
  /\ h[p].at = "deletePreview"
  /\ UpdateLastMessage(p, h[p].chat, LatestRead(p))
  /\ notices' = notices \union {h[p].msg}
  /\ h' = [h EXCEPT ![p] = Idle]
  /\ notFound' = FALSE
  /\ UNCHANGED <<rows, stamp, clock, cache, objects, doubt, fileHistory>>

\* notifyDeleteMessage, a goroutine of its own: it gives up when the
\* participants cannot be had, and publishes DELETE_MESSAGE to them otherwise.
NotifyDeleteMessage(m) ==
  /\ m \in notices
  /\ notices' = notices \ {m}
  /\ notFound' = FALSE
  /\ UNCHANGED <<rows, stamp, clock, cache, preview, objects, h, history>>

-----------------------------------------------------------------------------
(* DeleteChatMessages: the files of the chat are listed, their objects     *)
(* deleted one by one (errors ignored), then the rows.  A text row's NULL  *)
(* file_url fails the listing.                                             *)
ClearFails(p, c) ==
  /\ h[p].at = "idle"
  /\ RowsOf(c) \ Files # {}
  /\ notFound' = FALSE
  /\ UNCHANGED <<service, h, history>>

ClearList(p, c) ==
  /\ h[p].at = "idle"
  /\ RowsOf(c) \subseteq Files
  /\ Enter(p, c, "clearObjects", None, RowsOf(c))
  /\ notFound' = FALSE
  /\ UNCHANGED <<service, history>>

ClearObject(p, m) ==
  /\ h[p].at = "clearObjects"
  /\ m \in h[p].list
  /\ objects' \in {objects, objects \ {KeyOf[m]}}
  /\ h' = [h EXCEPT ![p].list = @ \ {m}]
  /\ notFound' = FALSE
  /\ UNCHANGED <<rows, stamp, clock, cache, preview, notices, history>>

\* Mutation of ClearRows: it goes on like DeleteMessage.
ClearRowsAndPreview(p) ==
  /\ h[p].at = "clearObjects"
  /\ h[p].list = {}
  /\ rows' = rows \ RowsOf(h[p].chat)
  /\ deleted' = deleted \union (RowsOf(h[p].chat) \intersect Files)
  /\ Goto(p, "deleteInvalidate")
  /\ notFound' = FALSE
  /\ UNCHANGED <<stamp, clock, cache, preview, objects, notices, doubt, sound,
                 stored, halfCleared>>

ClearRows(p) ==
  /\ h[p].at = "clearObjects"
  /\ h[p].list = {}
  /\ rows' = rows \ RowsOf(h[p].chat)
  /\ deleted' = deleted \union (RowsOf(h[p].chat) \intersect Files)
  /\ Goto(p, "clearInvalidate")
  /\ notFound' = FALSE
  /\ UNCHANGED <<stamp, clock, cache, preview, objects, notices, doubt, sound,
                 stored, halfCleared>>

ClearInvalidate(p) ==
  /\ h[p].at = "clearInvalidate"
  /\ Del(p, h[p].chat, Idle)
  /\ notFound' = FALSE
  /\ UNCHANGED <<rows, stamp, clock, preview, objects, notices, sound, fileHistory>>

-----------------------------------------------------------------------------
(* GetMessages: the cached list when there is one, else the rows, which    *)
(* are then cached for msgCacheTTL.  An error of Redis counts as a miss,   *)
(* so a miss may happen whatever the cache holds.                          *)
GetHit(p, c) ==
  /\ h[p].at = "idle"
  /\ cache[c] # NoEntry
  /\ notFound' = FALSE
  /\ UNCHANGED <<service, h, history>>

GetMiss(p, c) ==
  /\ h[p].at = "idle"
  /\ h' = [h EXCEPT ![p] = [Idle EXCEPT !.at = "fill", !.chat = c, !.list = RowsOf(c)]]
  /\ notFound' = FALSE
  /\ UNCHANGED <<service, history>>

Fill(p) ==
  LET c == h[p].chat IN
  /\ h[p].at = "fill"
  /\ \E ok \in BOOLEAN :
       /\ cache' = IF ok THEN [cache EXCEPT ![c] = h[p].list] ELSE cache
       /\ doubt' = IF ok THEN [doubt EXCEPT ![c] = h[p].raced] ELSE doubt
  /\ h' = [h EXCEPT ![p] = Idle]
  /\ notFound' = FALSE
  /\ UNCHANGED <<rows, stamp, clock, preview, objects, notices, sound, fileHistory>>

\* Redis drops the entry msgCacheTTL after its Set.
Expire(c) ==
  /\ cache[c] # NoEntry
  /\ cache' = [cache EXCEPT ![c] = NoEntry]
  /\ doubt' = [doubt EXCEPT ![c] = FALSE]
  /\ notFound' = FALSE
  /\ UNCHANGED <<rows, stamp, clock, preview, objects, notices, h, sound, fileHistory>>

-----------------------------------------------------------------------------
(* The handler stops between two steps: its database call returns an       *)
(* error, its caller has gone and every further call fails on the          *)
(* cancelled context, or the process dies.                                 *)
Abort(p) ==
  LET c == h[p].chat
      committed == h[p].at \in {"sendInvalidate", "sendPreview"} \union DeleteSteps IN
  /\ h[p].at # "idle"
  /\ IF Owes(p, c)
     THEN PassInvalidation(p, c, Idle) /\ doubt' = [doubt EXCEPT ![c] = TRUE]
     ELSE h' = [h EXCEPT ![p] = Idle] /\ doubt' = doubt
  /\ sound' = IF committed THEN [sound EXCEPT ![c] = FALSE] ELSE sound
  /\ halfCleared' = IF h[p].at = "clearObjects"
                    THEN halfCleared
                           \union ({KeyOf[n] : n \in RowsOf(c) \intersect Files} \ objects)
                    ELSE halfCleared
  /\ notFound' = FALSE
  /\ UNCHANGED <<service, stored, deleted>>

\* The process dies with its notifyDeleteMessage goroutines.
LoseNotices ==
  /\ notices # {}
  /\ notices' = {}
  /\ notFound' = FALSE
  /\ UNCHANGED <<rows, stamp, clock, cache, preview, objects, h, history>>

-----------------------------------------------------------------------------
Send(p) ==
  (\E m \in Msgs : SendBegin(p, m)) \/ SendInsert(p) \/ SendInvalidate(p) \/ SendPreview(p)

DeleteMessage(p) ==
  \/ DeleteMiss(p)
  \/ \E m \in Msgs : DeleteText(p, m) \/ DeleteFile(p, m)
  \/ DeleteObject(p) \/ DeleteObjectFails(p)
  \/ DeleteInvalidate(p) \/ SelectLatest(p) \/ DeletePreview(p)

DeleteChatMessages(p) ==
  \/ \E c \in Chats : ClearFails(p, c) \/ ClearList(p, c)
  \/ \E m \in Msgs : ClearObject(p, m)
  \/ ClearRows(p) \/ ClearInvalidate(p)

GetMessages(p) == (\E c \in Chats : GetHit(p, c) \/ GetMiss(p, c)) \/ Fill(p)

Next ==
  \/ \E p \in Handlers : Send(p) \/ DeleteMessage(p) \/ DeleteChatMessages(p)
                         \/ GetMessages(p) \/ Abort(p)
  \/ \E c \in Chats : Expire(c)
  \/ \E m \in Msgs : NotifyDeleteMessage(m)
  \/ \E k \in Keys : Put(k)
  \/ LoseNotices

Spec == Init /\ [][Next]_vars

-----------------------------------------------------------------------------
(* Properties.                                                             *)

\* A handler at work knows its chat, and a sender or deleter its message.
Targeted(r) ==
  /\ r.at # "idle" => r.chat \in Chats
  /\ r.at \in SendSteps \union DeleteSteps => r.msg \in Msgs /\ ChatOf[r.msg] = r.chat

\* Every variable keeps its type, and a handler at work has a target.
TypeOK ==
  /\ rows \subseteq Msgs /\ objects \subseteq Keys
  /\ stored \subseteq Keys /\ halfCleared \subseteq Keys /\ deleted \subseteq Files
  /\ notices \subseteq Msgs
  /\ clock \in Nat /\ stamp \in [Msgs -> Nat]
  /\ cache \in [Chats -> (SUBSET Msgs) \union {NoEntry}]
  /\ preview \in [Chats -> Msgs \union {None}]
  /\ h \in [Handlers -> HandlerState]
  /\ \A p \in Handlers : Targeted(h[p])
  /\ notFound \in BOOLEAN
  /\ doubt \in [Chats -> BOOLEAN] /\ sound \in [Chats -> BOOLEAN]

\* Cache-aside: an entry differs from the table only while a writer is between
\* its commit and its Del, after a Del that never happened, or after a reader
\* put back what it had read before a Del.  Nothing else makes a list stale.
StaleListExplained ==
  \A c \in Chats :
    cache[c] # NoEntry /\ cache[c] # RowsOf(c) =>
      doubt[c] \/ \E p \in Handlers : Owes(p, c)

\* A list about to be cached is in the same case.
StaleReadExplained ==
  \A p \in Handlers : h[p].at = "fill" /\ h[p].list # RowsOf(h[p].chat) =>
    h[p].raced \/ \E q \in Handlers : Owes(q, h[p].chat)

\* The preview shows the chat's newest message whenever no writer is at work,
\* the last one ran alone and its calls got through.  A chat that has been
\* emptied keeps the preview of a message it no longer has, and is left out.
PreviewFollowsLog ==
  \A c \in Chats :
    sound[c] /\ RowsOf(c) # {} /\ Alone(c) =>
      preview[c] \in Latest(c)

\* A row that named the key k has been deleted, or DeleteChatMessages has
\* begun on a chat with such a row, and has not deleted it yet or stopped.
Reached(k) ==
  \/ k \in halfCleared
  \/ \E n \in Files :
       /\ KeyOf[n] = k
       /\ \/ n \in deleted
          \/ n \in rows /\ \E p \in Handlers : h[p].at = "clearObjects" /\ h[p].chat = ChatOf[n]

\* A message is stored whose file, once uploaded, is gone: only because a
\* deletion has reached another row with its key, or because of the window in
\* which DeleteChatMessages has deleted objects and not yet the rows, which
\* lasts for ever when it stops there.  DeleteMessage, row first, opens none.
RowHasObject ==
  \A m \in rows \intersect Files :
    KeyOf[m] \in stored => KeyOf[m] \in objects \/ Reached(KeyOf[m])

\* "сообщение не найдено или нет прав" (message not found, or not yours), the
\* error of DeleteMessage, says that the request deleted nothing.
NotFoundMeansUntouched ==
  [][notFound' = TRUE => rows' = rows]_vars

=============================================================================
