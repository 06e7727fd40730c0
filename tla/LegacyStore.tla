---------------------------- MODULE LegacyStore ----------------------------
(***************************************************************************)
(* The messages of one chat in the legacy server's database, the list it   *)
(* keeps of them in Redis for a minute, and the preview in the chat's row. *)
(* Writers commit, then delete the list; readers fill it with what they    *)
(* read earlier.  A message is ordered by the start of its transaction,    *)
(* the preview by who updates the row last.                                *)
(***************************************************************************)
EXTENDS Naturals

CONSTANTS
  Handlers,     \* goroutines of the HTTP and WebSocket handlers
  MaxMessages,  \* bound: messages ever sent
  NoCache

VARIABLES
  messages,   \* table messages: ids, in the order of created_at
  nextId,
  preview,    \* chats.last_message: an id, or 0 for NULL
  msgCache,   \* the cached list as a set of ids, or NoCache
  h,          \* a handler: its stage, message, and what it read
  \* History, read by no guard:
  behind,     \* handlers whose reading failed or was overtaken by a commit
  staleCache, stalePreview   \* what such a handler, or a failed call, has left

stvars == <<messages, nextId, preview, msgCache, h, behind, staleCache, stalePreview>>

-----------------------------------------------------------------------------
Idle == [at |-> "idle", msg |-> 0, read |-> {}]

StInit ==
  /\ messages = {} /\ nextId = 1 /\ preview = 0 /\ msgCache = {NoCache}
  /\ h = [p \in Handlers |-> Idle]
  /\ behind = {} /\ staleCache = FALSE /\ stalePreview = FALSE

NewestOf(set) == IF set = {} THEN 0 ELSE CHOOSE m \in set : \A n \in set : n <= m

Steps(p, stage, msg, read) == h' = [h EXCEPT ![p] = [at |-> stage, msg |-> msg, read |-> read]]

\* A commit overtakes everyone who has read and not yet written.
Overtakes(p) ==
  behind' = (behind \ {p}) \cup {q \in Handlers \ {p} : h[q].at \in {"fill", "set"}}

\* Mutation of GetMessages: an empty list is not looked up again.
GetMessagesOnce(p) ==
  /\ h[p].at = "idle"
  /\ behind' = behind \ {p}
  /\ Steps(p, "fill", 0, {})
  /\ UNCHANGED <<messages, nextId, preview, msgCache, staleCache, stalePreview>>

\* A cached list is returned as it is, if Redis answers; otherwise the rows
\* are read.
GetMessages(p) ==
  /\ h[p].at = "idle"
  /\ behind' = behind \ {p}
  /\ Steps(p, "fill", 0, messages)
  /\ UNCHANGED <<messages, nextId, preview, msgCache, staleCache, stalePreview>>

\* cache.Set, unless Redis fails.
Fill(p) ==
  /\ h[p].at = "fill"
  /\ \/ msgCache' = h[p].read /\ staleCache' = (p \in behind)
     \/ UNCHANGED <<msgCache, staleCache>>
  /\ Steps(p, "idle", 0, {})
  /\ UNCHANGED <<messages, nextId, preview, behind, stalePreview>>

HandleGetMessages(p) == GetMessages(p) \/ Fill(p)

\* created_at is the time the transaction begins.
BeginAdd(p) ==
  /\ h[p].at = "idle" /\ nextId <= MaxMessages
  /\ nextId' = nextId + 1
  /\ Steps(p, "commit", nextId, {})
  /\ UNCHANGED <<messages, preview, msgCache, behind, staleCache, stalePreview>>

\* The row and the preview become visible at once; a transaction that began
\* earlier may commit later.  The preview of a group may fail on its own: it is
\* rolled back to the savepoint.  If COMMIT's answer is lost the list stays.
CommitAdd(p) ==
  /\ h[p].at = "commit"
  /\ messages' = messages \cup {h[p].msg}
  /\ \/ preview' = h[p].msg /\ stalePreview' = (\E m \in messages : m > h[p].msg)
     \/ stalePreview' = TRUE /\ UNCHANGED preview
  /\ Overtakes(p)
  /\ \/ Steps(p, "del", 0, {}) /\ UNCHANGED staleCache
     \/ Steps(p, "idle", 0, {}) /\ staleCache' = TRUE
  /\ UNCHANGED <<nextId, msgCache>>

RollbackAdd(p) ==
  /\ h[p].at = "commit" /\ Steps(p, "idle", 0, {})
  /\ UNCHANGED <<messages, nextId, preview, msgCache, behind, staleCache, stalePreview>>

\* DeleteMessage is three statements, not a transaction; it ends here if the
\* answer of the first is lost.
DeleteRow(p) ==
  /\ h[p].at = "idle"
  /\ \E m \in messages : messages' = messages \ {m}
  /\ Overtakes(p)
  /\ \/ Steps(p, "look", 0, {}) /\ UNCHANGED <<staleCache, stalePreview>>
     \/ Steps(p, "idle", 0, {}) /\ staleCache' = TRUE /\ stalePreview' = TRUE
  /\ UNCHANGED <<nextId, preview, msgCache>>

\* If the SELECT fails, or the newest message has no text, the preview will be
\* NULL though there are messages.
SelectLast(p) ==
  /\ h[p].at = "look"
  /\ \/ Steps(p, "set", NewestOf(messages), {}) /\ behind' = behind \ {p}
     \/ Steps(p, "set", 0, {}) /\ behind' = behind \cup {p}
  /\ UNCHANGED <<messages, nextId, preview, msgCache, staleCache, stalePreview>>

\* The error of the update is not looked at.
UpdatePreview(p) ==
  /\ h[p].at = "set"
  /\ \/ preview' = h[p].msg /\ stalePreview' = (p \in behind)
     \/ stalePreview' = TRUE /\ UNCHANGED preview
  /\ Steps(p, "del", 0, {})
  /\ UNCHANGED <<messages, nextId, msgCache, behind, staleCache>>

DeleteMessage(p) == DeleteRow(p) \/ SelectLast(p) \/ UpdatePreview(p)

\* cache.Delete logs an error and goes on; a server that dies before it
\* leaves the list, too.
DeleteCache(p) ==
  /\ h[p].at = "del"
  /\ \/ msgCache' = {NoCache} /\ staleCache' = FALSE
     \/ staleCache' = TRUE /\ UNCHANGED msgCache
  /\ Steps(p, "idle", 0, {})
  /\ UNCHANGED <<messages, nextId, preview, behind, stalePreview>>

AddMessage(p) == BeginAdd(p) \/ CommitAdd(p) \/ RollbackAdd(p)

Expire ==
  /\ msgCache # {NoCache}
  /\ msgCache' = {NoCache} /\ staleCache' = FALSE
  /\ UNCHANGED <<messages, nextId, preview, h, behind, stalePreview>>

\* The server dies: its handlers' transactions roll back.
Die ==
  /\ \E p \in Handlers : h[p].at # "idle"
  /\ h' = [p \in Handlers |-> Idle]
  /\ behind' = {}
  /\ staleCache' = (staleCache \/ \E p \in Handlers : h[p].at \in {"look", "set", "del"})
  /\ stalePreview' = (stalePreview \/ \E p \in Handlers : h[p].at \in {"look", "set"})
  /\ UNCHANGED <<messages, nextId, preview, msgCache>>

StNext ==
  \/ \E p \in Handlers : \/ HandleGetMessages(p)
                         \/ AddMessage(p) \/ DeleteMessage(p) \/ DeleteCache(p)
  \/ Expire \/ Die

StSpec == StInit /\ [][StNext]_stvars

-----------------------------------------------------------------------------
(* Properties                                                              *)

\* While no handler is running, the cached list holds the chat's messages and
\* the preview is the newest of them, unless the last to write either, or the
\* last that should have, was a reader or a deleter that a commit had overtaken,
\* a deleter whose SELECT found nothing, an addition that began earlier than one
\* before it, a call that failed or whose answer was lost, or a server that died.
SettledStoreAgrees ==
  (\A p \in Handlers : h[p].at = "idle") =>
    /\ msgCache \in {{NoCache}, messages} \/ staleCache
    /\ preview = NewestOf(messages) \/ stalePreview

=============================================================================
