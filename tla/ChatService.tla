----------------------------- MODULE ChatService -----------------------------
(***************************************************************************)
(* The chat service: handlers of concurrent gRPC requests over its tables  *)
(* (stored, conversations, last) and three Redis caches: the private chats *)
(* and the groups of every user (lists) and the members of every chat      *)
(* (members).  A handler takes one step per call; calls fail, and a        *)
(* handler may stop between two.  A request that is refused changes        *)
(* nothing and is left out.                                                *)
(***************************************************************************)
EXTENDS Naturals

CONSTANTS
  Chats,      \* the chats that may ever be made (the uuids of conversations)
  Users,
  Kind,       \* chat -> "chats" (a private one) or "groups"
  Members,    \* chat -> the users it is made for
  Admin,      \* chat -> the admin of a group
  Texts,      \* previews: what last_message shows
  Handlers,   \* gRPC requests in flight at once
  None

ASSUME KindType == Kind \in [Chats -> {"chats", "groups"}]
ASSUME MembersType == Members \in [Chats -> SUBSET Users] /\ Admin \in [Chats -> Users]
ASSUME NoneFresh == None \notin Users \union Chats \union Texts

VARIABLES
  stored,     \* the chats and groups with a row, and groups with their members
  spent,      \* ids that have been given out
  conversations, \* ids with a row in conversations
  last,       \* chat -> the preview in its row
  lists,      \* key -> the cached list, or NoEntry
  members,    \* chat -> the cached participants, or NoEntry
  h,          \* handler -> what it is doing
  \* History, read by no guard:
  doubt,      \* keys whose entry may have survived an invalidation that was lost,
              \* left the user out or came before it, or was read in part
  misread     \* the same for chats and their participants

tables == <<stored, spent, conversations, last>>
history == <<doubt, misread>>
vars == <<tables, lists, members, h, history>>

-----------------------------------------------------------------------------
\* The keys of lists; a kind no chat is of has only empty lists.
Keys == {Kind[c] : c \in Chats} \X Users

KeysOf(c) == {<<Kind[c], u>> : u \in Members[c]}

\* The lists of some users, of either kind.
BothOf(users) == {k \in Keys : k[2] \in users}

\* A row of a list: the chat and its preview.
Entries == Chats \X (Texts \union {None})

\* What GetChats and GetGroups select.
RowsOf(k) == {<<c, last[c]>> : c \in {d \in stored : k \in KeysOf(d)}}

\* What GetParticipants selects.
MembersOf(c) == IF c \in stored THEN Members[c] ELSE {}

\* No Redis entry.
NoEntry == {None}

Steps == {"idle", "fill", "create", "unlink", "clear", "lookup", "group", "keep",
          "invalidate"}

HandlerState == [at: Steps, chat: Chats \union {None}, key: Keys \union {<<>>},
                 read: SUBSET Entries,          \* the list GetChats or GetGroups read
                 ids: SUBSET Users,             \* the participants, or the pair of CreateChat
                 caller: Users \union {None},
                 due: SUBSET Keys,              \* the lists its change has made stale
                 keys: SUBSET Keys,             \* the lists it is going to delete
                 drop: BOOLEAN,                 \* and the participants of chat as well
                 late: BOOLEAN]                 \* what it read was not, or is no longer, all there is

Idle == [at |-> "idle", chat |-> None, key |-> <<>>, read |-> {}, ids |-> {}, caller |-> None,
         due |-> {}, keys |-> {}, drop |-> FALSE, late |-> FALSE]

\* The handler p has changed what list k shows, or removed chat c, and the
\* invalidation is still to come.
OwesList(p, k) == k \in h[p].due
OwesMembers(p, c) == h[p].drop /\ h[p].chat = c /\ c \notin stored

Become(p, next) == h' = [h EXCEPT ![p] = next]

\* The invalidation p owes is made or missed for good, and p goes on as next:
\* a handler about to cache what it read before the change is late either way.
Pass(p, next) ==
  h' = [q \in Handlers |->
          IF q = p THEN next
          ELSE IF \/ h[q].at = "fill" /\ OwesList(p, h[q].key) /\ h[q].read # RowsOf(h[q].key)
                  \/ h[q].at = "keep" /\ OwesMembers(p, h[q].chat) /\ h[q].ids # {}
               THEN [h[q] EXCEPT !.late = TRUE]
          ELSE h[q]]

\* ... missed: the handler stops, or Redis does not do it.
Miss(p) ==
  /\ doubt' = doubt \union h[p].due
  /\ misread' = misread \union {c \in Chats : OwesMembers(p, c)}

Init ==
  /\ stored = {} /\ spent = {} /\ conversations = {} /\ doubt = {} /\ misread = {}
  /\ last = [c \in Chats |-> None]
  /\ lists = [k \in Keys |-> NoEntry]
  /\ members = [c \in Chats |-> NoEntry]
  /\ h = [p \in Handlers |-> Idle]

-----------------------------------------------------------------------------
(* GetChats and GetGroups: the cached list when there is one, else the     *)
(* rows, which are then cached for chatsCacheTTL.  An error of Redis is a  *)
(* miss.  An error in the middle of the rows ends them: what was read so   *)
(* far is cached and returned.                                             *)
GetList(p, k) ==
  /\ h[p].at = "idle"
  /\ \E read \in SUBSET RowsOf(k) :
       Become(p, [Idle EXCEPT !.at = "fill", !.key = k, !.read = read,
                              !.late = read # RowsOf(k)])
  /\ UNCHANGED <<tables, lists, members, history>>

Fill(p) ==
  LET k == h[p].key IN
  /\ h[p].at = "fill"
  /\ \E ok \in BOOLEAN :
       /\ lists' = IF ok THEN [lists EXCEPT ![k] = h[p].read] ELSE lists
       /\ doubt' = IF ~ok THEN doubt ELSE IF h[p].late THEN doubt \union {k} ELSE doubt \ {k}
  /\ Become(p, Idle)
  /\ UNCHANGED <<tables, members, misread>>

-----------------------------------------------------------------------------
(* CreateChat: a look for the chat of the two, which counts as "none" when *)
(* it fails, then the INSERTs in a transaction, under unique_chat_pair.    *)
Pairs == {Members[c] : c \in {d \in Chats : Kind[d] = "chats"}}

HasChat(pair) == \E c \in stored : Kind[c] = "chats" /\ Members[c] = pair

CreateLook(p, pair) ==
  /\ h[p].at = "idle"
  /\ Become(p, [Idle EXCEPT !.at = "create", !.ids = pair])
  /\ UNCHANGED <<tables, lists, members, history>>

\* A chat or group gets its rows in one transaction.
Store(c) ==
  /\ c \notin spent
  /\ stored' = stored \union {c}
  /\ spent' = spent \union {c}
  /\ conversations' = conversations \union {c}
  /\ UNCHANGED last

Invalidating(c, due, keys, drop) ==
  [Idle EXCEPT !.at = "invalidate", !.chat = c, !.due = due, !.keys = keys, !.drop = drop]

\* Mutation of CreateInsert: one side's list is forgotten.
CreateForOne(p, c) ==
  /\ h[p].at = "create"
  /\ Kind[c] = "chats" /\ Members[c] = h[p].ids
  /\ ~HasChat(h[p].ids)
  /\ Store(c)
  /\ \E u \in Members[c] : Become(p, Invalidating(c, KeysOf(c), {<<"chats", u>>}, FALSE))
  /\ UNCHANGED <<lists, members, history>>

CreateInsert(p, c) ==
  /\ h[p].at = "create"
  /\ Kind[c] = "chats" /\ Members[c] = h[p].ids
  /\ ~HasChat(h[p].ids)
  /\ Store(c)
  /\ Become(p, Invalidating(c, KeysOf(c), KeysOf(c), FALSE))
  /\ UNCHANGED <<lists, members, history>>

\* CreateGroup, one transaction: a member that cannot be added is only logged,
\* but PostgreSQL has aborted the transaction and its COMMIT fails.
CreateGroup(p, c) ==
  /\ h[p].at = "idle"
  /\ Kind[c] = "groups"
  /\ Store(c)
  /\ Become(p, Invalidating(c, KeysOf(c), KeysOf(c), FALSE))
  /\ UNCHANGED <<lists, members, history>>

-----------------------------------------------------------------------------
(* DeleteChat, by a member of a private chat or the admin of a group.      *)
MayDelete(u, c) == IF Kind[c] = "chats" THEN u \in Members[c] ELSE u = Admin[c]

\* Mutation of InvalidateChat: the participants stay cached.
InvalidateLists(c, u, due) == Invalidating(c, due, BothOf({u}), FALSE)

\* What invalidateChat deletes: only the caller's lists, whoever else's changed.
InvalidateChat(c, u, due) == Invalidating(c, due, BothOf({u}), TRUE)

\* Mutation of DeleteRow: the conversation goes first.
DeleteLinkFirst(p, u, c) ==
  /\ h[p].at = "idle"
  /\ c \in stored /\ MayDelete(u, c)
  /\ conversations' = conversations \ {c}
  /\ Become(p, [InvalidateChat(c, u, {}) EXCEPT !.at = "unlink"])
  /\ UNCHANGED <<stored, spent, last, lists, members, history>>

DeleteRow(p, u, c) ==
  /\ h[p].at = "idle"
  /\ c \in stored /\ MayDelete(u, c)
  /\ stored' = stored \ {c}
  /\ last' = [last EXCEPT ![c] = None]
  /\ Become(p, [InvalidateChat(c, u, KeysOf(c)) EXCEPT !.at = "unlink"])
  /\ UNCHANGED <<spent, conversations, lists, members, history>>

\* DELETE FROM conversations, whose error nobody looks at.
DeleteConversation(p) ==
  /\ h[p].at = "unlink"
  /\ conversations' \in {conversations, conversations \ {h[p].chat}}
  /\ h' = [h EXCEPT ![p].at = "invalidate"]
  /\ UNCHANGED <<stored, spent, last, lists, members, history>>

\* Mutation of ClearCheck: the chat is forgotten.
ClearForget(p, u, c) ==
  /\ h[p].at = "idle"
  /\ c \in stored /\ u \in Members[c]
  /\ Become(p, [Idle EXCEPT !.at = "clear", !.caller = u])
  /\ UNCHANGED <<tables, lists, members, history>>

(* ClearChat, by a member; the UPDATEs' errors are ignored.                *)
ClearCheck(p, u, c) ==
  /\ h[p].at = "idle"
  /\ c \in stored /\ u \in Members[c]
  /\ Become(p, [Idle EXCEPT !.at = "clear", !.chat = c, !.caller = u])
  /\ UNCHANGED <<tables, lists, members, history>>

\* UPDATE ... SET last_message of chat c, if it is there: the change of last,
\* and the lists it makes stale.
Updates(c, text, due) ==
  \/ last' = last /\ due = {}
  \/ c \in stored /\ last' = [last EXCEPT ![c] = text] /\ due = KeysOf(c)

ClearUpdate(p) ==
  /\ h[p].at = "clear"
  /\ \E due \in SUBSET Keys :
       /\ Updates(h[p].chat, None, due)
       /\ Become(p, InvalidateChat(h[p].chat, h[p].caller, due))
  /\ UNCHANGED <<stored, spent, conversations, lists, members, history>>

-----------------------------------------------------------------------------
(* UpdateLastMessage: the UPDATEs, whose errors are ignored, and then      *)
(* GetParticipants, which tells whose lists to delete.                     *)
UpdateLastMessage(p, c, text, u) ==
  /\ h[p].at = "idle"
  /\ c \in spent
  /\ \E due \in SUBSET Keys :
       /\ Updates(c, text, due)
       /\ Become(p, [Idle EXCEPT !.at = "lookup", !.chat = c, !.caller = u, !.due = due])
  /\ UNCHANGED <<stored, spent, conversations, lists, members, history>>

\* Mutation of Known: the sender's lists only.
KnownSender(t, ids) ==
  IF t.caller = None THEN Idle
  ELSE [Invalidating(t.chat, t.due, BothOf({t.caller}), FALSE)
          EXCEPT !.late = ids # Members[t.chat]]

\* GetParticipants answers with ids: it was called by a client, or by
\* UpdateLastMessage, which falls back on the sender alone.
Known(t, ids) ==
  IF t.caller = None THEN Idle
  ELSE [Invalidating(t.chat, t.due, BothOf(IF ids = {} THEN {t.caller} ELSE ids), FALSE)
          EXCEPT !.late = ids # Members[t.chat]]

(* GetParticipants: the cached members, else those of a private chat, else *)
(* those of a group.  A SELECT of chats that fails counts as "no private   *)
(* chat", and the group's rows may end early.                              *)
GetParticipants(p, c) ==
  /\ h[p].at = "idle" /\ c \in spent
  /\ Become(p, [Idle EXCEPT !.at = "lookup", !.chat = c])
  /\ UNCHANGED <<tables, lists, members, history>>

LookupHit(p) ==
  LET c == h[p].chat IN
  /\ h[p].at = "lookup"
  /\ members[c] # NoEntry
  /\ Become(p, Known(h[p], members[c]))
  /\ UNCHANGED <<tables, lists, members, history>>

LookupChat(p) ==
  LET c == h[p].chat IN
  /\ h[p].at = "lookup"
  /\ \/ /\ c \in stored /\ Kind[c] = "chats"
        /\ h' = [h EXCEPT ![p] = [@ EXCEPT !.at = "keep", !.ids = Members[c]]]
     \/ h' = [h EXCEPT ![p].at = "group"]
  /\ UNCHANGED <<tables, lists, members, history>>

LookupGroup(p) ==
  LET c == h[p].chat IN
  /\ h[p].at = "group"
  /\ \E ids \in SUBSET (IF Kind[c] = "groups" THEN MembersOf(c) ELSE {}) :
       h' = [h EXCEPT ![p] = [@ EXCEPT !.at = "keep", !.ids = ids, !.late = ids # MembersOf(c)]]
  /\ UNCHANGED <<tables, lists, members, history>>

\* The SELECT of group_members fails.
LookupFails(p) ==
  /\ h[p].at = "group"
  /\ Become(p, Known(h[p], {}))
  /\ UNCHANGED <<tables, lists, members, history>>

\* Kept for participantsCacheTTL, an empty list too.
Keep(p) ==
  LET c == h[p].chat IN
  /\ h[p].at = "keep"
  /\ \E ok \in BOOLEAN :
       /\ members' = IF ok THEN [members EXCEPT ![c] = h[p].ids] ELSE members
       /\ misread' = IF ~ok THEN misread
                     ELSE IF h[p].late THEN misread \union {c} ELSE misread \ {c}
  /\ Become(p, Known(h[p], h[p].ids))
  /\ UNCHANGED <<tables, lists, doubt>>

-----------------------------------------------------------------------------
\* The one DEL of a handler; nobody looks at its error.
Invalidate(p) ==
  LET t == h[p] IN
  /\ t.at = "invalidate"
  /\ \/ /\ lists' = [k \in Keys |-> IF k \in t.keys THEN NoEntry ELSE lists[k]]
        /\ doubt' = (doubt \ t.keys) \union (IF t.drop \/ t.late THEN t.due \ t.keys ELSE {})
        /\ members' = IF t.drop THEN [members EXCEPT ![t.chat] = NoEntry] ELSE members
        /\ misread' = IF t.drop THEN misread \ {t.chat} ELSE misread
     \/ Miss(p) /\ UNCHANGED <<lists, members>>
  /\ Pass(p, Idle)
  /\ UNCHANGED tables

\* A statement fails, the caller has gone and the context with it, or the
\* process dies: what is left of the handler does not happen.
Abort(p) ==
  /\ h[p].at # "idle"
  /\ Miss(p)
  /\ Pass(p, Idle)
  /\ UNCHANGED <<tables, lists, members>>

\* Redis drops an entry when its time is over.
ExpireList(k) ==
  /\ lists[k] # NoEntry
  /\ lists' = [lists EXCEPT ![k] = NoEntry]
  /\ doubt' = doubt \ {k}
  /\ UNCHANGED <<tables, members, h, misread>>

ExpireMembers(c) ==
  /\ members[c] # NoEntry
  /\ members' = [members EXCEPT ![c] = NoEntry]
  /\ misread' = misread \ {c}
  /\ UNCHANGED <<tables, lists, h, doubt>>

-----------------------------------------------------------------------------
Next ==
  \/ \E p \in Handlers :
       \/ \E k \in Keys : GetList(p, k)
       \/ \E pair \in Pairs : CreateLook(p, pair)
       \/ \E c \in Chats : CreateInsert(p, c) \/ CreateGroup(p, c) \/ GetParticipants(p, c)
       \/ \E u \in Users, c \in Chats : DeleteRow(p, u, c) \/ ClearCheck(p, u, c)
       \/ \E u \in Users, c \in Chats, text \in Texts : UpdateLastMessage(p, c, text, u)
       \/ Fill(p) \/ DeleteConversation(p) \/ ClearUpdate(p)
       \/ LookupHit(p) \/ LookupChat(p) \/ LookupGroup(p) \/ LookupFails(p) \/ Keep(p)
       \/ Invalidate(p) \/ Abort(p)
  \/ \E k \in Keys : ExpireList(k)
  \/ \E c \in Chats : ExpireMembers(c)

Spec == Init /\ [][Next]_vars

-----------------------------------------------------------------------------
(* Properties.                                                             *)

\* Every variable keeps its type, and a handler knows its chat or its list.
TypeOK ==
  /\ stored \subseteq spent /\ spent \subseteq Chats /\ conversations \subseteq spent
  /\ last \in [Chats -> Texts \union {None}]
  /\ lists \in [Keys -> (SUBSET Entries) \union {NoEntry}]
  /\ members \in [Chats -> (SUBSET Users) \union {NoEntry}]
  /\ h \in [Handlers -> HandlerState]
  /\ \A p \in Handlers :
       /\ h[p].at = "fill" => h[p].key \in Keys
       /\ h[p].at \in {"unlink", "clear", "lookup", "group", "keep", "invalidate"} =>
            h[p].chat \in spent
       /\ h[p].at = "clear" => h[p].caller \in Users
  /\ doubt \subseteq Keys /\ misread \subseteq Chats

\* GetChats and GetGroups: a cached list differs from the tables only while a
\* handler that changed them has its DEL ahead; or after a DEL that never
\* happened or came before a reader cached what it had read; after a read that
\* broke off; or after a DEL that left the user out, as invalidateChat does with
\* all but the caller, and UpdateLastMessage when it learns wrong participants.
StaleListExplained ==
  \A k \in Keys :
    lists[k] # NoEntry /\ lists[k] # RowsOf(k) =>
      k \in doubt \/ \E p \in Handlers : OwesList(p, k)

\* GetParticipants: wrong participants are cached only while DeleteChat has its
\* DEL ahead, or after a SELECT that failed and was taken for "no such chat", a
\* read that broke off, one that a deletion overtook, or a DEL that was lost.
WrongParticipantsExplained ==
  \A c \in Chats :
    members[c] # NoEntry /\ members[c] # MembersOf(c) =>
      c \in misread \/ \E p \in Handlers : OwesMembers(p, c)

\* A chat that is there has its row in conversations: the two deletes of
\* DeleteChat are not one transaction, and either may be the last that happens.
ChatHasConversation == stored \subseteq conversations

=============================================================================
