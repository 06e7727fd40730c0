# Verification of the Postly server

Postly is a messenger: accounts, friends, private and group chats with files,
and voice calls.  This directory holds TLA+ models of it, the TLC
configurations that check them on small instances, and TLAPS proofs of what
holds for instances of any size.  Paths below are relative to the repository.

    tlc -workers 2 -config MCMessaging.cfg MCMessaging     check a model
    tlapm Messaging_proofs.tla                             check the proofs

## 1. The system

Clients speak HTTP and WebSocket to the **gateway**, which calls six gRPC
services (auth, user, friends, chat, messaging, s3) and exchanges signals with
the call-service over Redis pub/sub.  The services that store rows have a
PostgreSQL schema each; there is no transaction over two services, and a call
between two services is an ordinary call that may fail or succeed without its
answer arriving.

| component | state it keeps | operations | talks to |
|---|---|---|---|
| messaging-service | table `messages`; Redis list `msg:messages:<chat>` (60 s) | SendMessage, DeleteMessage, DeleteChatMessages, GetMessages, GetFileInfo | chat-service (UpdateLastMessage, GetParticipants), s3-service (DeleteFile), Redis pub/sub |
| call-service (SFU) | in memory: rooms, peers, tracks; pion peer connections | CALL_JOIN, CALL_ANSWER, CALL_ICE, CALL_HANGUP; callbacks OnTrack, OnConnectionStateChange; Close | Redis pub/sub both ways |
| chat-service | tables `conversations`, `chats`, `groups`, `group_members`; three Redis caches (60 s, 60 s, 5 min) | GetChats, CreateChat, DeleteChat, ClearChat, GetGroups, CreateGroup, GetParticipants, UpdateLastMessage | Redis |
| friends-service | tables `friend_requests`, `friends` | Send, Accept, Decline, Cancel, DeleteFriend, three lists | Redis pub/sub |
| user-service | tables `users`, `user_avatars` | Register, DeleteUser, look-ups, avatars | - |
| auth-service | table `credentials`; Redis cache of validated tokens (5 min) | SetCredentials, Login, ValidateToken | Redis |
| s3-service | the object store | UploadFile, DeleteFile, presigned URLs | S3 |
| gateway: WebSocket session | one subscription, a reader and a writer goroutine per session | what clients send, what services publish | all services, Redis pub/sub |
| gateway: login attempts | Redis keys: a lock, failures, strikes | count, lock, refund | Redis |
| gateway: rate limiter | in memory: a token bucket per address, a daemon that forgets idle ones | allow, sweep | - |
| gateway: handlers | none | one service call each, or several: registration is a saga, deleting a chat asks who took part first, `/init_client` is five reads | all services |
| legacy: WebSocket hub | two maps of connections with a mutex each; a goroutine per session | connect, join, broadcast, write to users, leave | its database |
| legacy: database and cache | tables `messages`, `chats`, `friend_requests`, `friends`; a cached list (1 min) | messages, previews, friend requests | Redis |
| legacy: DTLS voice rooms | three maps, a goroutine per connection, counters of lost packets | HELLO, packets, BYE, Cleanup | - |

**What is hard here.**  Three things run concurrently and were written as if
they did not: gRPC handlers over stores that share no transaction (a row, a
cached list, a preview in another service's table, an object in a store); the
goroutines of the SFU, which drop a mutex and go on with what they read under
it; and two-step `SELECT` then `UPDATE` handlers.  Calls fail in the middle of
a handler, and the handlers mostly go on or return.  Message order over
pub/sub, expiry of cache entries and shutdown add to that.  PROJECT.json lists
each such place at its line, with the property that would catch it going wrong.

**What makes each component correct.**

- *messaging-service*: a cached list is the table's, or there is a known reason
  that it is not; the chat's preview is its newest message; an uploaded
  file is there while a stored message names it; an error means nothing happened.
- *SFU*: no connection leaks; the callback of an old connection never removes
  the user's new one; the room never exceeds its limit; tracks belong to live
  relays; every change of the tracks reaches every peer; who talks is heard.
- *chat-service*: one chat per pair; members and caches agree; a deleted chat
  is deleted for everybody.
- *friends-service*: a request is answered once; `accepted` and friendship come
  and go together.
- *accounts*: a name has credentials, or is free; a token is not honoured
  after its expiry.
- *files*: a deleted row leaves no object; a row that is shown has its object.
- *gateway*: what clients were told last is what holds; a session's goroutines
  end together; a user who does not guess is not locked out, and a lock ends;
  forgetting buckets lets nobody in.
- *legacy*: a session is the one its user is written to and can leave; the
  cached list and the preview are the table's; the three maps of the voice
  rooms agree.

## 2. Plan

The most important behaviour first.  The last column says what is proved for
instances of any size; "all" means every safety property that a run checks.

| module | models | run | proofs |
|---|---|---|---|
| `Messaging` | messaging-service with the preview, the cache and the objects it owns | `messaging`, `messaging_not_found` | all: types, stale lists and reads, the preview, the objects |
| `CallSFU` | rooms, connections, negotiation, relays, shutdown | `sfu`, `sfu_room` | all seven invariants |
| `Friends`, with `Friendship` as its abstract specification | the two-step handlers over requests, friends and events | `friends` (safety and refinement), `friends_already` | all: types, the accepted request of a friendship, what users were told, the refinement |
| `ChatService` | chats, groups, conversations, three caches | `chats`, `chats_group` | all: types, conversations, lists, participants |
| `Realtime` | WebSocket sessions and everything that publishes to them | `realtime` (safety and liveness) | SettledSessionsAgree |
| `InitClient`, over `Friendship` | `/init_client` and the friend handlers | `realtime` | SnapshotExplained |
| `LoginAttempts` | the atomic scripts, the lock and the refund | `login` (safety and liveness) | GuessesBounded, LockJustified |
| `Tokens` | the cached check of a token, in both servers | `login` | HonouredWithinTTL |
| `RateLimiter` | bucket and daemon | `login` | RateBounded |
| `Accounts` | registration and login over two services | `parts` | both properties |
| `Files` | avatars and files, their rows, links and objects | `parts` | both properties, one of which is about steps |
| `UdpRooms`, `PacketLoss` | the legacy voice rooms and their estimate of losses | `parts` | RoomsSound, LossCovered |
| `LegacyHub` | the legacy WebSocket hub and its mutexes | `legacy` (safety and liveness) | SessionListed |
| `LegacyStore`, `LegacyFriends` | the legacy database and cache | `legacy` | SettledStoreAgrees, FriendListsAgree |

What composes what: `Friends` implements `Friendship` (section 5), and
`InitClient` takes `Friendship` as its environment instead of the detailed
handlers, which the refinement allows.  `Messaging` contains what it calls of
chat-service and s3-service; `Realtime` contains what the gateway's handlers
call of messaging-service and chat-service: each call may be refused, or take
effect with its answer arriving or lost, a DeleteMessage may stop after its row,
a CreateChat may find the chat made already, and a list of participants may be
short.  Section 7 says which parts of an answer are left out.

A run whose MC module extends several modules that share no state has a
variable `part` that says which of them an execution is about; the others
stay at their initial states.  What it checks is the same as one run for each.

Further abstract specifications worth stating: a read-through list as a register
that is either current or known to be stale, for `Messaging`, `ChatService` and
`LegacyStore`; a call as a set of members each hearing the others, for `CallSFU`
when it has settled.

## 3. `Messaging`

Source: `src/services/messaging-service/internal/server/server.go`, with
`UpdateLastMessage` of chat-service and `DeleteFile` of s3-service as far as
they are called from there.

**State.**  `rows` is the table, `stamp` the `created_at` column, `cache` the
Redis list of each chat (`NoEntry` when there is none), `preview` the
`last_message` column of the chat, `objects` the keys the object store has an
object for, `notices` the
`notifyDeleteMessage` goroutines that have not published.  `h` gives each
request in flight the call it makes next.  `stamp` follows the clock at the
beginning of the INSERT because `now()` is the start of its transaction: rows
may appear in another order than their stamps.  A message with a file names a key
(`KeyOf`, a column never updated).  Nothing looks the key up when the message is
sent, and nothing keeps two messages from naming one key.

**Actions.**  One per call a handler makes:

| handler | actions |
|---|---|
| SendMessage | SendBegin, SendInsert, SendInvalidate, SendPreview |
| DeleteMessage | DeleteMiss, DeleteText, DeleteFile, DeleteObject, DeleteObjectFails, DeleteInvalidate, SelectLatest, DeletePreview, then NotifyDeleteMessage in its own goroutine |
| DeleteChatMessages | ClearFails, ClearList, ClearObject, ClearRows, ClearInvalidate |
| GetMessages | GetHit, GetMiss, Fill |
| clients | Put, an upload through a presigned link, which is possible before, after or without the message |
| the environment | Expire (cache TTL), Abort (error, cancelled context or crash between two calls), LoseNotices (crash) |

Calls whose error the code ignores (`cache.Del`, `UpdateLastMessage`,
`DeleteFile` in DeleteChatMessages) choose between success and failure inside
their action.  The history variables record why something may be out of step
(`doubt`, `sound`) and what has happened to objects (`stored`, `deleted`,
`halfCleared`); no guard reads them.

**Properties.**

- `StaleListExplained`, `StaleReadExplained`: a cached list differs from the
  table only while a writer is between its commit and its `Del`, after a `Del`
  that did not happen (Redis failed, the handler returned before it or died),
  or when a reader stored what it had read before the `Del`.  This is the whole
  list of causes; every other interleaving leaves the cache right.
- `PreviewFollowsLog`: the preview shows the newest message whenever the last
  writer of the chat ran alone and its calls got through.  It says that the
  only causes of a wrong preview are overlap and failure, both of which the
  code has no defence against.
- `RowHasObject`: a message in the table whose file was ever uploaded has its
  object, except where the deletion of another row has reached the same key,
  and in the window DeleteChatMessages opens by deleting objects first, which
  lasts for ever when it stops there.  DeleteMessage, row first, opens none.
- `NotFoundMeansUntouched` (run `messaging_not_found`, violated): see Findings.

**Bounds.**  Two handlers, one chat, three messages, of which two are files.
Chats share nothing but the clock, whose order only matters within a chat.
Every race above needs two requests: a writer and a reader, or two writers.
Three messages give a newest, an older one and one being sent or deleted;
two files let DeleteChatMessages stop between two objects, and name the same key, so
that the deletion of one takes the other's object; the text makes
`DeleteText` and `ClearFails` reachable.  A message is sent once, as the
database makes its id; an object is stored any number of times.  Handlers and files are
symmetric.  The run has
`CHECK_DEADLOCK FALSE` because an emptied instance with all ids used may
have nothing left but misses, which is not a deadlock of the service.

## 4. `CallSFU`

Source: `src/services/call-service/internal/wsfu/wsfu.go`.

**State.**  `peers[c][u]` and `tracks[c][u]` are the two maps of a room; a room
exists while it has a peer.  Per peer connection: `home` (the chat and user in
the closures of join), `state`, `offering` and `answered` (its signalling
state), `needsOffer`, `ice` (`pendingICE`), `senders` (what pion sends on it)
and `offered` (what the last offer described).  `events` are the
OnConnectionStateChange goroutines that have not reached `removePeer`.  `thr`
is the program counter and the locals of every goroutine: the loop, and a relay
and a remover per connection.

**Actions.**  A critical section under `s.mu` or `p.mu` is one action.
The loop: Join, Hangup (`Signal` is the critical section of `leave`), Refuse,
Admit (size test and connection), Register, Answer, Ice, Shutdown,
ShutdownClose.  What every goroutine shares: Close, Spread, Snapshot and Apply
are the rest of `removePeer`, `renegotiateAll`, and the two halves of
`negotiate`: the tracks are cloned under one mutex and applied under the other.
A relay: RegisterTrack, UnregisterTrack.  A connection: Fail, RemovePeer.
Pion's own behaviour is taken from its use: callbacks run in goroutines of
their own, perhaps late; `Close` is idempotent and is itself a state change;
making and setting an offer or answer on an open connection succeeds.

**Properties.**  `RoomCapacity`, `NoLeakedConnection`, `RegisteredIsLive`,
`TrackHasRelay`, `NoLostRenegotiation` (a sender change during an unanswered
offer is remembered), `SettledRoomsConverge` and `HeardUnlessUsurped`.  The last
two name the exception that the code has: of two overlapping renegotiations of
one peer the older snapshot may be applied last, and then nothing renegotiates
(`torn`); a relay of an earlier connection that is scheduled late replaces the
track of the user's new connection and removes it when it ends (`usurped`).
Both were found as counterexamples of the unqualified properties.

**Bounds.**  `sfu`: two users, two connections, so that a user can rejoin or
two users meet; two goroutines at once inside removal and renegotiation
(`FewBusy` of `MCCallSFU`, the others wait before it), which is what a torn
renegotiation takes; one buffered candidate stands for fifty.  `sfu_room`: three
users and three connections in a room of two, so that the limit is met, with
one goroutine at a time in the shared code and no shutdown.  `MaxPeers` stands for
the 16 of `maxPeersPerRoom`.  `CHECK_DEADLOCK FALSE`: the process stops after
Shutdown, and connections run out.

## 5. `Friends` and `Friendship`

Source: `src/services/friends-service/internal/server/server.go` and the schema
beside it.

**State.**  `friends` holds the unordered pairs of the table (the code orders
the two ids), `status` the column of every request row that may be made
("unused" before, "deleted" after a cancellation), `told` what each user's
clients were last told by an event, `h` the requests in flight.  `Enter` also
records which handlers overlap on a pair; that, `shaken` and `garbled` are
history and guard nothing.

**Actions.**  SendFriendRequest, Accept and DeleteFriend are one commit each;
DeclineLook, DeclineWrite and CancelLook, CancelWrite are the two statements
of handlers that use no transaction; Tell is one Publish, of which some handlers
make two; Abort is an error or a stop between two of these.

**Properties.**

- `FriendshipIsAccepted`: behind a friendship there is a request marked
  accepted, except where a late Decline or Cancel wrote over an accept, or one
  friend asked the other again.
- `ToldWhatHolds`: once nobody is at work on a pair, both users were last told
  what holds, and the receiver knows of a pending request, unless an event was
  lost or handlers of the pair overlapped.
- `FriendshipSpec`: the specification implements `Friendship` with `asked` =
  the ends of the pending rows.  So a late Decline or Cancel never touches
  friends, and nobody becomes a friend without a request that stands at that
  moment, although rows and friends are written by handlers that looked earlier.
- `NoRequestAmongFriends` (run `friends_already`, violated): see Findings.

**Bounds.**  Two users, since no row or event concerns more than one pair;
two rows in one direction, so that a request can be cancelled and made again
while its first handler is at work, and one in the other; two handlers, the
number every race above takes.  All calls of a handler can fail.

## 6. `ChatService`

Source: `src/services/chat-service/internal/server/server.go` and the schema
beside it.

**State.**  `stored` is the chats and groups that have a row, `spent` the ids
given out, `conversations` the rows of that table, `last` the preview column;
`lists[<<kind, user>>]` and `members[chat]` are the Redis entries.  Who is in
a chat never changes after it is made, so `Members`, `Admin` and `Kind` are
constants.  `h` is what each request in flight does next, what it read, and
which lists its change has made stale (`due`) against those it is going to
delete (`keys`).  `doubt` and `misread` are history.

**Actions.**  One per call:

| handler | actions |
|---|---|
| GetChats, GetGroups | GetList, Fill |
| CreateChat | CreateLook, CreateInsert, Invalidate |
| CreateGroup | CreateGroup, Invalidate |
| DeleteChat | DeleteRow, DeleteConversation, Invalidate |
| ClearChat | ClearCheck, ClearUpdate, Invalidate |
| UpdateLastMessage | UpdateLastMessage, then GetParticipants, then Invalidate |
| GetParticipants | GetParticipants, LookupHit, LookupChat, LookupGroup, LookupFails, Keep |
| the environment | Abort, ExpireList, ExpireMembers |

**Properties.**  `StaleListExplained` and `WrongParticipantsExplained` state the
whole list of reasons for a wrong entry.  Two of them are choices of
the code: `invalidateChat` deletes the lists of the caller alone, so the other
members see a deleted or cleared chat until its entry expires; and an error of the first SELECT of GetParticipants makes it look for a group, find
nobody, and keep "nobody" for five minutes, in which UpdateLastMessage reaches
only the sender's lists.  A DEL that leaves out a member whose list has changed
for any other reason violates the property.  `ChatHasConversation` needs the
order of DeleteChat's two statements.

**Bounds.**  `chats`: one pair of users with two ids for their private chat, so
that a chat is deleted and made again while a reader still holds the old list;
no previews.  `chats_group`: one group of two with a preview.  Two handlers in both:
a reader and a writer, or two writers.  Lists of the two kinds share no state,
which is why the two are checked apart (`chats_group` asks for the types and the lists, the
entries of members being the business of `chats`); a list only exists for the kind that
the instance has chats of.  Users are symmetric where there is no admin.

## 7. `Realtime` and `InitClient`

Source: `src/services/gateway-service/internal/router/ws.go`, `call.go`,
`messaging.go`, `chat.go`; and `friends.go`, `initrouter/init.go` with the list
queries of friends-service.

**State of `Realtime`.**  What a client can be told of are *items*: a private chat,
its messages, the ring of a call.  `holds` is the items that exist, `ses` each
session's connection, subscription, go-redis channel (`inbox`), reader and
writer, `told` what its client was last told of each item, `throttled` the
SetNX key of invitations, `h` what a handler is doing.  `excused` and
`announced` are history: they record, item by item, the reasons the code has for
not telling a session.

**Actions.**

| code | actions |
|---|---|
| handleWS | Upgrade, Subscribed (SUBSCRIBE takes effect later), ReadFails, Deliver, WriterEnds; Break is the client or the network |
| handleIncoming, handleCall | ReadMessage, ReadTyping, ReadCall, Store, LookMessage, LookTyping, LookHangup, Invite |
| HTTP handlers | SendMessage, DeleteMessage, CreateChat (with Create, CreateAgain), CreateGroup, AskFirst, Delete, Clear, Refused |
| notifyDeleteMessage | LookDelete |
| publishing | Publish, one user at a time; ThrottleExpires, Crash |

What the services answer is as wide as their code: GetParticipants any part of the
members (`Participants`: an error counts as nobody, a SELECT that breaks off is
answered with success, a cached list outlives its chat); CreateChat, CreateGroup and
DeleteChat may take effect with the answer lost, after which the handler returns and
nobody is told; CreateChat of a chat that exists answers its id, and NEW_CHAT is
published again; DeleteMessage may return after its row is gone, before it starts
notifyDeleteMessage.  Left out are the texts, names and pictures in the answers, an
id that belongs to somebody else's chat, and users who are not members.

**Properties.**

- `SettledSessionsAgree`: when nothing is under way, the client of an open session
  knows of an item just when it exists.  Every exception is in the code, is
  recorded where the code makes it, and is named at the property: items older than
  the subscription, a full channel, Redis failing, an answer of GetParticipants
  without the user, a call that took effect and whose answer was lost, a
  DeleteMessage that stopped after the row, messages sent over HTTP (nobody is
  told), chats told to the others only, a cleared chat, the throttle, an end
  published before its beginning.
- `SessionsEnd` (liveness): a session whose connection is gone ends, reader, writer,
  subscription and connection, whichever side fails first.
- `SnapshotExplained`, of `InitClient`: whoever was a friend, asked or was asked when
  `/init_client` began, and left no list since but to become a friend, is in one of
  the answer's lists, unless a list broke off (nobody looks at `rows.Err()`) or the
  two became friends after the friends were read.  The order of the five reads loses
  no one else.

**Bounds.**  Two users, who are the chat's members; one session each, one of which
talks; two requests, one message, channels of two payloads for the 100 of go-redis.
`Small` keeps clients to one thing at a time (talk, call, type, or a second request)
and lets one of the two sessions end: the reasons above each need one handler
against one other, and what a session is told depends on no other session.
`CHECK_DEADLOCK FALSE`: ids and requests are used up.  `InitClient` needs no more than
the two users of a friendship; a third cannot change whether a given one is listed.

## 8. `LoginAttempts`, `Tokens`, `RateLimiter`

Source: `AttemptsMiddleware.go`, `RecoveryMiddleware.go`, `RateLimitingMiddleware.go` and
`auth.go` of the gateway; `ValidateToken` and `jwt.go` of auth-service; the JWT middleware
of `src/services/old/internal/protocol_stack/middleware.go`.

**`LoginAttempts`** is about one address and name: `lock`, `fails`, `window`, `strikes`,
`strikeTtl` are the Redis keys with their remaining lives, `attempt` what each request
is at.  The counting script is one step with four outcomes (Admit, Lock, Reject, and
FailOpen when Redis or its answer is lost); Unauthorized, Answered and Panics are what
HandleLogin does; Refund, RefundFails the second script; Tick is time.  `mine`, `wrong`,
`lost`, `stray`, `grounds` are history.
`GuessesBounded`: of the attempts of one window at most MaxAttempts are answered with
401, and one more for each refund that belonged to an earlier window.
`LockJustified`: a lock has more than MaxAttempts attempts of one window as its grounds,
and logins that were taken back are not among them.  `LockEnds` (liveness): attempts
during a lock do not prolong it.

**`Tokens`** is about one token: `age`, the Redis `entry`, and for each validation where it
is, the life its entry will get and how long ago it parsed.  The two servers differ in
EntryTTL only.  `HonouredWithinTTL`: the token is good for at most the cache's five minutes
beyond its lifetime, in the legacy server not even that, and the time a call takes.

**`RateLimiter`** is about one address: the bucket in the map, its tokens, the buckets that
requests hold, and an `ideal` bucket that is never forgotten.  `RateBounded`: nobody is
admitted whom the ideal bucket would refuse, unless a request sleeps for about a minute
between `getLimiter` and `Allow`.

**Bounds** (run `login`).  Three attempts at a limit of two, so that one is in flight while
two others fill and lock a window; a window of three ticks, cooldowns of 1 doubling to 4,
strikes that live five ticks: each timer expires before and after each other one.
`MaxStrikes` only names the strike from which every cooldown is the longest.  Two validations,
a lifetime of 4 ticks for 72 hours and a cache of 3 for five minutes, a call of at most 2:
what matters is that an entry can be made at the last moment.  Three requests and one
more bucket; a bucket of 3 at 1 a tick, which fills within the minute of 4 (assumption
`FillsUp`, true of 10 at 5 a second).  The three parts share nothing.

## 9. `Accounts` and `Files`

Source: `user.go`, `auth.go`, `files.go` of the gateway, user-service, auth-service,
s3-service, and the schemas.

**`Accounts`**: `users` and `hash` are the tables of two services, `form` and `register`
what a registration was filled in with and where its handler is, `login` a login.  Every
call may fail before or after it took effect; the compensation may fail; the gateway may
die.  `RegisteredWhole`: a registration leaves both rows or neither, but for exactly these
failures (`broken`).  `RefusedExplained`: a login with the right name and password is refused
for one reason only: the lookup compares `LOWER(username)`, the constraint does not, and it
found another user whose name differs in case.

**`Files`**: `link` (a presigned PUT), `objects`, `avatars`, `posted` (rows), and the
deletions and views under way.  The deletions modelled here, of an avatar and of one message, delete the row
first and the object after, in another service.  DeleteChatMessages goes the other way; no
handler of the gateway calls it, and its window is the subject of `RowHasObject` in section 3.
`DeletedFilesGone`: an object outlives its row only while the deletion is under way, when
it failed half way, or because the client stored it again with a link that was still good.
`MissingExplained` (an action property): who is shown a row without its object is shown one
that was never stored, or one that a deletion has reached, this row's or another's that
names the same key.

**Bounds** (run `parts`).  Three registrations over four forms that collide in name, e-mail
and phone and differ in case, and a login; two avatars, one file that two messages may name,
two deletions and a viewer.  Symmetry exchanges avatars, messages and deletions with a pair
of the voice rooms each; the run has no liveness property.

## 10. `UdpRooms` and `PacketLoss`

Source: `src/services/old/internal/udp/rooms.go`, `protocol_stack/initialize.go`, `internal/SFU.go`.

**State.**  `rooms`, `addrToUser`, `userToRoom` are the three maps, which know a connection by its
address; `fresh` is the entries with a recent `LastSeen`, `handler` the goroutine of each
connection; a nil entry is dereferenced in UpdateActivity and Analyze and ends the process
(`crashed`).  One action per call that takes the mutex: a packet is three.  Several connections
have one address (`AddrOf`), one after another: Accept asks nothing of the maps, the address may
still be listed by an entry nobody has removed, and the goroutine of an earlier connection
may notice late that it is closed and remove whoever has the address by then.  `PacketLoss` is AnalyzePacketLoss for one sender, in the arithmetic of
`uint32`.

**Properties.**  `RoomsSound`: only a user who changed rooms without a BYE can bring the
server down, and whoever a room lists can be told from its address and leaves when it does,
unless it changed rooms (`moved`) or the last HELLO from its address came while another user was
listed with it (`shared`), over the same connection or an earlier one: Cleanup of the stale
entry then takes the address from the live user.  Both exceptions were found as counterexamples,
and no late goroutine, reconnection or eviction adds a third.  `LossCovered`: without a wrap, no packet of a run of 100 is lost uncounted, and
if packets come in order none is counted too much.

**Bounds.**  Two users, two rooms, three connections, two of them from one address: a user who moves,
a connection or an address that is taken over, a late goroutine, an eviction between the calls of a
packet.  Words of 5 for 2^32 and verdicts after 4
packets for 100; up to 8 packets, so that the number wraps within and between verdicts.

## 11. `LegacyHub`, `LegacyStore`, `LegacyFriends`

Source: `src/services/old/internal/protocol_stack/handlers.go`, `internal/database/*.go`, `internal/cache/cache.go`.

**`LegacyHub`** keeps the two maps `userConns` and `room` of one chat's participants with their
mutexes, which goroutine is inside a WriteMessage on which connection, and the stage of every
goroutine.  broadcast is Cast, CastWrite, CastWritten, CastEnd under `roomsMu`;
broadcastToOtherParticipants is List, Tell, Told, TellEnd, the writes under `userConnsMu`.  Two
goroutines meeting in one connection make gorilla panic, and `userConnsMu` stays locked.  No write
has a deadline: a client that stops reading (Stall, Resume; `deaf`) holds up its writer, which
keeps its mutex meanwhile.
`SessionListed`: a session is the one its user is written to, unless the user has had another.
`SessionsLeave` (liveness): if no client stops reading for ever, a session that leaves has left
in the end, unless there was such a panic (`clash`).  Without the antecedent or without the
exception TLC finds it violated: these are the hazards, and the property says that the hub has
no third one of this kind.

**`LegacyStore`** is the messages of one chat, the list kept of them for a minute, and the preview,
statement by statement.  A call may fail before or after it took effect.  CommitAdd may
commit the message without the preview, which is rolled back to the savepoint when the UPDATE of
the group fails; SelectLast may fail or find a message without text, and the preview
becomes NULL.  `SettledStoreAgrees`: when no handler is running, list and preview are the
table's, unless the last to write either, or the last that should have, had been overtaken by a
commit or began before another addition, was one of these two, failed, lost an answer, or died
with the server.

**`LegacyFriends`** is requests and friends.  `FriendListsAgree`: a user is asked by a friend only if
each had asked the other, or the look for a friendship failed or came too early; an accepted
request has its friend on the list.

**Bounds** (run `legacy`).  The hub with two sessions of one user, and with a session of each of two
users, and an HTTP request in both; two handlers and three messages; two people and two goroutines
that ask.  `CHECK_DEADLOCK FALSE`: after a panic under `userConnsMu` the hub does stop, and sessions are
used up.

## 12. What is proved

Every safety property that a passing run checks, for every value of the
constants.  The assumptions are named in the modules and are what the code
gives: ids are of distinct kinds and none of them is `None`, `ChatOf`, `Kind`,
`Members` and the ends of a request are functions of the ids (columns that are
never updated), limits, times and word sizes are naturals, a bucket fills up
before the daemon may forget it (`FillsUp`), the attempts at one login are
finitely many.  The bounds of the runs are not assumed.

None of the properties but the smallest is inductive.  Each section of a proof
module first states the strengthening that is, which TLC checked on the bounds of
the run before it was proved, and then has a lemma for each action or for each
group of actions that disturb the same parts of it.

`Messaging_proofs`

- `TypeCorrect`: `TypeOK`.
- `StaleListsExplained`, `StaleReadsExplained`.  Neither property is inductive
  alone: a `Fill` makes the cached list what the reader had read, and a
  writer's step makes a read list stale.  `CacheInv` is their conjunction with
  `TypeOK`; the lemmas group the actions by what they do: those that touch
  neither rows nor lists, those that commit a change and owe an invalidation,
  and those that pay or miss one.
- `PreviewsFollowTheLog`, from `LogInv`.  A writer that is still alone knows what
  the log holds (`LoneWriterKnows`): its message is the newest, or what it selected
  is; no other writer of the chat is alone with it (`OnlyOne`); and a preview that
  is behind is owed by somebody (`PreviewOwed`).  Stamps do not exceed the clock
  (`Dated`), which makes a new message the newest whatever is being inserted.
- `RowsHaveObjects`, from `FileInv`: a key that ever had an object and has none has been
  reached by a deletion (`Reached`), whether a row names it now or will; and whoever deletes
  objects has deleted a row that named them or is about to (`Deletes`).  `Clears` is what
  makes the end of DeleteChatMessages harmless to `Reached`.

`CallSFU_proofs`

- `Invariance`: `IInv`, eleven conjuncts.  Beside the properties it says that
  a registered connection sits where its `home` is (`Homed`), that the
  goroutine about to close a connection is the loop or its own remover and has
  taken it out of the room (`Closers`, `OwnRemover`), that the connection the
  loop is about to register is new and its user's slot empty (`JustMade`,
  `LeftFirst`), that a room without peers has no tracks (`RoomsGone`) and that a
  connection that is forwarded has been answered (`TrackUsed`).
- `TypeCorrect`, `OnlyTheLiveRegistered`, `NothingLeaks`, `TracksAreRelayed`
  follow from it.
- `RoomsAreBounded`: `RoomCapacity`, from `SizeInv`: a room is finite, within
  the limit, and strictly below it while the loop is about to register.  Only
  the loop registers, and `Shrinks` shows that everybody else only removes.
  That join's test and its registration are two critical sections is harmless
  for this reason alone.
- `ReadersAreHeard`: `HeardUnlessUsurped`, from `Heard`, which also says that the
  connection of a relay was answered and goes on to speak of it while it is out
  of its room, where its entry may be gone.
- `MarksAreKept`: `NoLostRenegotiation`, from `MarkInv`: senders that no offer
  describes are marked whatever the state of the connection, and a goroutine
  holds no peers but in the two places where it is going to negotiate
  them (`Blank`).
- `RoomsConverge`: `SettledRoomsConverge`, from `SettleInv`.  What a goroutine
  clones, copies and negotiates belongs to its room (`WorkInv`).  A peer whose senders are
  not the tracks of the room is owed a negotiation (`SentOrOwed`): by a goroutine
  that has yet to copy the peers or to reach it, or that has it in hand with a clone
  that is right.  `StaleIsOwed` is the heart of it: somebody who is about to apply a
  clone that is out of date is followed by somebody else, unless the
  peer is `torn`.  Every change of the tracks is the step of a goroutine that then
  owes all peers of the room.

`Friends_proofs`

- `TypeCorrect`: `TypeOK`.
- `FriendshipsAreAccepted`: `FriendshipIsAccepted`, from `RowInv`.  By itself it
  is not inductive: a late DeclineWrite could hit the accepted row.  `LookHolds`
  says that a handler nobody has overtaken still finds its row pending, and
  `AloneIsAlone` that two such handlers are never on one pair, so that what the
  others do leaves `LookHolds` alone.  `OneRow`, the unique constraint on sender
  and receiver, makes the pending row of a direction the only one.
- `ImplementsFriendship`: `Spec => FriendshipSpec`.  `OneRow` is what makes a step
  that closes one row remove exactly one pair from `asked`.

- `ToldWhatIs`: `ToldWhatHolds`, from `ToldInv`.  The news of a handler is about
  its own pair (`OwnNews`) and right while nobody has overlapped with it
  (`NewsHolds`); what a user believes is right, or about to be told, or an event
  about it was lost or out of order (`Believed`).

`ChatService_proofs`

- `TypeCorrect`, `ConversationsAreThere`, `StaleListsExplained`, `WrongMembersExplained`
  from `IInv`.  A list or the participants that a handler has read and is going to
  keep need the same explanation as those that are kept (`StaleReadExplained`,
  `WrongReadExplained`).  `Owing` says who can owe an invalidation, where, and of
  which keys; `RowInv` that ids are not used again, so that whoever finds a chat
  gone has found it gone for good.

`Realtime_proofs`

- `SessionsAgree`: `SettledSessionsAgree`, from `RtInv`.  `LastWord` says, of a session that
  is not excused from an item, that the last word on it is right: the last event in the
  queue, or what the client was told when the queue has none, or an event that some
  handler has still to publish to this user.  A late beginning could follow the end of
  a message or a chat; therefore an end that was not announced to the user is
  owed by a handler (`EndOwed`), an id is used once, and ends are announced after the
  row is gone (`OnceOnly`).  A handler that will tell nobody, or not all, excuses the sessions
  it leaves out when it decides so (`Missing`, `WillTellGoes`).  A NEW_CHAT that is published
  again is a beginning while the chat exists, like any other (`CreateAgainInv`).  Calls begin and end again and again: whoever is told
  of them has only handlers of one kind at work (`RingMatch`).
  `AppendEnds` and `TailEnds` are the lemmas on queues.
- `SnapshotsAreExplained`: `LoadInv`: once the friends are read, whoever stays is in a list, has
  become a friend since, or is no friend and stands in a list that is still to be read
  (`Accounted`).

`Login_proofs`

- `GuessesAreBounded`, `LocksAreJustified`: `CounterCounts` says that the counter lies between what
  stands of the window (wrong, lost and unanswered attempts) less the stray refunds, and what stands.
  One half bounds the guesses, the other gives a lock its grounds.
- `HonouredInTime`: `EntryEnds` bounds the end of the entry, `KeepEnds` that of one about to be
  made, from the moment its validation parsed the token.
- `RatesAreBounded`: `RateBounded`, from `BucketCovered`: until a request has slept, the bucket in the map
  holds no more than the one that is never forgotten, which is full while the map has none; a
  bucket that has gone without a request for some ticks (`Rested`) has gained what they
  give.

`Parts_proofs`

- `RegistrationsAreWhole`: `Staged` says what the two tables hold at each stage of a registration.
- `RefusalsAreExplained`: needs also `UniqueNames` and, for each login, that its owners are registered with
  its name and password (`Owned`) and that the user it found is an owner or has another name
  (`FoundByName`); `LoginsUndisturbed` shows that registrations leave this alone.
- `DeletedFilesAreGone`, `MissingIsExplained`: `FlInv` says that whatever was stored is there or has been
  reached by a deletion, and that a deletion under way has marked its key.  The second
  is about steps: who is shown a row without its object.
- `RoomsAreSound`, from `RmInv`: but for users in `moved` and addresses in `shared`, whom a room lists is
  at home in it (`ListedAtHome`) and known by its address (`KnownByAddr`), two users are listed with
  different addresses (`OneUserEach`), and an address leads to the entry of its user
  (`AddrLeadsHome`), so that none but a user in `moved` meets a nil entry.
- `LossIsCovered`: `PlInv` says which packet `lastSeq` is the number of, modulo the word
  (`Remembered`); `GapCounted` and `MissingGrows` are about the numbers between two packets.

`Legacy_proofs`

- `SessionsAreListed`: `SessionListed` with the types and stages is inductive; the mutexes, the panic and
  the clients that do not read play no part in it.
- `SettledStoresAgree`: `StInv`: list and preview are the table's, or a handler is about to delete or set them,
  or the histories say why not; who is not `behind` (overtaken, or its SELECT failed) holds what the table
  holds.
- `ListsAgree`: `LookHolds` says that a goroutine nobody has overtaken asks somebody who is no friend.

Only model-checked: liveness (`SessionsEnd`, `LockEnds`, `SessionsLeave`), which with `ENABLED` and
induction over recursive definitions is beyond the prover; and the two properties that the code
violates (section 13), which nobody could prove.

**Fairness.**  Stated where a liveness property needs it, and no further.

- `SessionsEnd`: weak fairness of each session's reader, writer and handler: a goroutine that is not
  blocked runs, and a call ends.  Nothing is assumed of clients, of the network or of Redis.
- `LockEnds`: weak fairness of Tick: time passes.
- `SessionsLeave`: strong fairness of each goroutine's next step.  The steps that wait for a mutex are not
  continuously enabled, and `sync.Mutex` hands itself to a waiter after a millisecond; a write to a
  client that reads ends, and the kernel gives a dead peer up (Resume).  CastWritten and Told
  are not enabled while the client is `deaf`, Stall and Resume are not fair, and what is assumed
  of clients is the antecedent of the property: none stops reading for ever.

## 13. Findings

`DeleteMessage` scans `RETURNING chat_id, file_url, type` into strings
(`src/services/messaging-service/internal/server/server.go:213`).  For a text
message `file_url` is NULL: the row is deleted and the scan fails, and the
caller is told "сообщение не найдено или нет прав" (message not found, or no
permission, line 216).  The list in Redis keeps the message for up to a minute (`msgCacheTTL`),
the preview shows it, and nobody receives DELETE_MESSAGE.
Run `messaging_not_found` shows it.  The same scan makes DeleteChatMessages
fail for any chat that has a text message (`ClearFails`).

`SendFriendRequest` asks `SELECT id FROM friends`
(`src/services/friends-service/internal/server/server.go:60`) and answers
"вы уже друзья" (you are friends already, line 61) when there is a row.  The table
has no column `id` (`src/services/friends-service/db/init.sql:3`), so the SELECT
fails and the failure counts as "not friends": a request between friends is
stored as pending over the accepted one and announced to the other.  Run
`friends_already` shows it.

## 14. Not modelled

- Media forwarding and codecs, hashing and signing, streaming and ranges (DownloadFile,
  GetDownloadUrl): no state of the program's own, or a library's.
- Push notifications (`fcm.go`, sendCallPush) and the CALL_PEERS broadcast of the SFU: messages
  nobody answers and no state depends on.
- Loss of the SFU's signals: a peer whose offer is lost renegotiates when it joins again; the
  properties of `CallSFU` speak of peers whose offer is answered.
- Start-up in the `main.go` files, logging, CORS, request ids, configuration, handlers that pass one
  read on, deployment, and the generated protocol code: a call is a step that arrives or fails.
- In the legacy server, the handlers `Start` does not route (register, login, creating, clearing and
  deleting chats) and the limiters, which never forget an address.
