------------------------------ MODULE Realtime ------------------------------
(***************************************************************************)
(* The gateway's WebSocket sessions and everything that publishes to them. *)
(* A session has a reader, which handles what its client sends one message *)
(* at a time, and a writer, which passes on what arrives on the Redis      *)
(* channel of the user.  The items that clients are told of are a private  *)
(* chat, its messages, and the ring of a call.  Handlers, of a reader or   *)
(* of an HTTP request, change the stored rows through the services and     *)
(* publish afterwards, one user at a time.                                 *)
(***************************************************************************)
EXTENDS Naturals, Sequences

CONSTANTS
  Sessions,   \* WebSocket sessions that may be opened
  Talking,    \* those whose client sends something
  Requests,   \* HTTP requests that may be made
  Messages,   \* ids of the messages that may be sent to the chat
  Chat, Ring, \* the other items: the chat, and a call of Caller
  UserOf,     \* the user of a session
  Caller,
  MaxInbox,   \* stands for the 100 payloads a go-redis channel holds
  None

Items == Messages \union {Chat, Ring}
Members == {UserOf[s] : s \in Sessions}
Handlers == Sessions \union Requests

\* Chats and messages have UUIDs, and a call is none of them.
ASSUME ItemsDiffer ==
  Chat # Ring /\ {Chat, Ring} \intersect Messages = {} /\ None \notin Items

VARIABLES
  holds,      \* the items that exist: rows of the services; Caller is calling
  spent,      \* the ids given out
  ses,        \* the sessions
  told,       \* session -> item -> what its client was last told
  throttled,  \* Redis has the key callinvite:<Caller>:<Chat>
  h,          \* handler -> what it is doing
  \* History, read by no guard:
  excused,    \* <<s, i>>: the program does not tell s all of i, see Settled...
  announced   \* <<u, i>>: the end of i has been published to u

rtvars == <<holds, spent, ses, told, throttled, h, excused, announced>>

-----------------------------------------------------------------------------
Closed == [conn |-> "none", sub |-> "none", reader |-> "none", writer |-> "none",
           inbox |-> <<>>]

Idle == [at |-> "idle", doing |-> "nothing", item |-> None, to |-> {}]

\* A request is made once; a reader goes on reading.
Ended(p) == IF p \in Requests THEN [Idle EXCEPT !.doing = "done"] ELSE Idle

RtInit ==
  /\ holds \in {{}, {Chat}} /\ spent = holds /\ throttled = FALSE
  /\ ses = [s \in Sessions |-> Closed]
  /\ told = [s \in Sessions |-> [i \in Items |-> "none"]]
  /\ h = [p \in Handlers |-> Idle]
  /\ excused = {} /\ announced = {}

Of(u) == {s \in Sessions : UserOf[s] = u}

Live == {s \in Sessions : ses[s].sub = "live"}

\* The live ones of rs are not told of i for a reason of the program.
Excuse(rs, i) == excused' = excused \union ((rs \intersect Live) \X ({i} \ {None}))

\* The client of a session that has ended knows nothing any more.
Forget(ss) ==
  /\ told' = [s \in Sessions |-> IF s \in ss THEN [i \in Items |-> "none"] ELSE told[s]]
  /\ excused' = excused \ (ss \X Items)

\* What a client makes of an event.
Apply(n, t) ==
  CASE n.is = "new"    -> [t EXCEPT ![n.item] = "new"]
    [] n.is = "gone"   -> [t EXCEPT ![n.item] = "gone"]
    [] n.is = "clear"  -> [i \in Items |-> IF i \in Messages /\ t[i] = "new" THEN "gone" ELSE t[i]]
    [] n.is = "typing" -> t

-----------------------------------------------------------------------------
(* A session: handleWS.                                                    *)

Set(s, r) == ses' = [ses EXCEPT ![s] = r]

\* The token is good; SUBSCRIBE is sent, and nobody waits for its answer.
Upgrade(s) ==
  /\ ses[s].conn = "none"
  /\ Set(s, [conn |-> "open", sub |-> "asked", reader |-> "reading", writer |-> "waiting",
             inbox |-> <<>>])
  /\ UNCHANGED <<holds, spent, told, throttled, h, excused, announced>>

\* From here on the session hears what is published; what there is already it
\* is not told.
Subscribed(s) ==
  /\ ses[s].sub = "asked"
  /\ Set(s, [ses[s] EXCEPT !.sub = "live"])
  /\ excused' = excused \union ({s} \X spent)
  /\ UNCHANGED <<holds, spent, told, throttled, h, announced>>

\* The client closes the connection, or the network or TCP keep-alive does.
Break(s) ==
  /\ ses[s].conn = "open"
  /\ Set(s, [ses[s] EXCEPT !.conn = "broken"])
  /\ UNCHANGED <<holds, spent, told, throttled, h, excused, announced>>

\* Mutation of ReadFails: the reader returns without its deferred sub.Close.
ReadOnlyFails(s) ==
  /\ ses[s].reader = "reading" /\ ses[s].conn # "open" /\ h[s].at = "idle"
  /\ Set(s, [ses[s] EXCEPT !.reader = "ended"])
  /\ UNCHANGED <<holds, spent, told, throttled, h, excused, announced>>

\* ReadMessage fails and the reader ends, which closes the subscription.
ReadFails(s) ==
  /\ ses[s].reader = "reading" /\ ses[s].conn # "open" /\ h[s].at = "idle"
  /\ Set(s, [ses[s] EXCEPT !.reader = "ended", !.sub = "closed"])
  /\ UNCHANGED <<holds, spent, told, throttled, h, excused, announced>>

\* WriteMessage succeeds; on a connection that is broken the client may not
\* get what was written.
Deliver(s) ==
  /\ ses[s].writer = "waiting" /\ ses[s].inbox # <<>>
  /\ Set(s, [ses[s] EXCEPT !.inbox = Tail(ses[s].inbox)])
  /\ told' = IF ses[s].conn = "open"
             THEN [told EXCEPT ![s] = Apply(Head(ses[s].inbox), told[s])] ELSE told
  /\ UNCHANGED <<holds, spent, throttled, h, excused, announced>>

\* WriteMessage fails, or the closed channel is empty: handleWS returns, and
\* its deferred calls close the subscription and the connection.
WriterEnds(s) ==
  /\ ses[s].writer = "waiting"
  /\ \/ ses[s].conn = "broken" /\ ses[s].inbox # <<>>
     \/ ses[s].sub = "closed" /\ ses[s].inbox = <<>>
  /\ Set(s, [ses[s] EXCEPT !.writer = "ended", !.sub = "closed", !.conn = "closed",
                           !.inbox = <<>>])
  /\ Forget({s})
  /\ UNCHANGED <<holds, spent, throttled, h, announced>>

-----------------------------------------------------------------------------
(* What clients send: handleIncoming, and handleCall for calls.            *)

Begin(p, at, doing, item) ==
  h' = [h EXCEPT ![p] = [at |-> at, doing |-> doing, item |-> item, to |-> {}]]

\* The reader takes the next message when it has handled the one before.
Reads(s) == s \in Talking /\ ses[s].reader = "reading" /\ ses[s].conn = "open" /\ h[s].at = "idle"

\* A message of the five types; a file has the sender's own key.
ReadMessage(s) ==
  /\ Reads(s)
  /\ \E m \in Messages \ spent :
       spent' = spent \union {m} /\ Begin(s, "store", "message", m)
  /\ UNCHANGED <<holds, ses, told, throttled, excused, announced>>

ReadTyping(s) ==
  /\ Reads(s) /\ Begin(s, "look", "typing", None)
  /\ UNCHANGED <<holds, spent, ses, told, throttled, excused, announced>>

\* CALL_INVITE, or what ends a call (CALL_HANGUP).  The two sessions of a
\* caller are two readers, which nothing orders.
ReadCall(s, doing) ==
  /\ Reads(s) /\ UserOf[s] = Caller /\ Begin(s, "look", doing, Ring)
  /\ holds' = IF doing = "invite" THEN holds \union {Ring} ELSE holds \ {Ring}
  /\ spent' = spent \union {Ring}
  /\ excused' = LET old == excused \ (Sessions \X {Ring}) IN
       old \union {<<r, Ring>> : r \in {q \in Live :
                     UserOf[q] = Caller \/ \E p \in Of(Caller) \ {s} : h[p].item = Ring}}
  /\ UNCHANGED <<ses, told, throttled, announced>>

\* msgSvc.SendMessage: done, not done, or done with the answer lost.
Store(p) ==
  /\ h[p].at = "store"
  /\ \/ holds' = holds \union {h[p].item} /\ UNCHANGED excused
        /\ h' = [h EXCEPT ![p] = [h[p] EXCEPT !.at = "look"]]
     \/ holds' \in {holds, holds \union {h[p].item}}
        /\ Excuse(Sessions, h[p].item)
        /\ h' = [h EXCEPT ![p] = Idle]
  /\ UNCHANGED <<spent, ses, told, throttled, announced>>

\* What chat-service may answer: a list from its cache, which may outlive the
\* chat, or as much of one as a SELECT that broke off found and a Scan could
\* read; an error counts as nobody.
Participants == SUBSET Members

\* Go on, or be done when there is nobody to tell.
Then(p, to) ==
  h' = [h EXCEPT ![p] = IF to = {} THEN Ended(p)
                        ELSE [h[p] EXCEPT !.at = "publish", !.to = to]]

\* A participant who is missing in the answer pts is told nothing of the item.
Missing(pts, i) == Excuse({s \in Sessions : UserOf[s] \notin pts}, i)

\* The answer pts, of which `to' are told.
Found(p, pts, to) ==
  /\ Then(p, to)
  /\ Missing(pts, h[p].item)
  /\ UNCHANGED <<holds, spent, ses, told, throttled, announced>>

Looks(p, doing) == h[p].at = "look" /\ h[p].doing = doing

\* Everybody hears of a message, the sender too; when GetParticipants fails
\* the sender alone gets a confirmation.
LookMessage(p) ==
  /\ Looks(p, "message")
  /\ \E pts \in Participants : Found(p, pts, pts)

LookTyping(p) ==
  /\ Looks(p, "typing")
  /\ \E pts \in Participants : Found(p, pts, pts \ {UserOf[p]})

\* notifyDeleteMessage.
LookDelete(p) ==
  /\ Looks(p, "delete")
  /\ \E pts \in Participants : Found(p, pts, pts)

\* A call goes on when the caller is among those found.
CallParticipants == {pts \in Participants : Caller \in pts}

LookHangup(p) ==
  /\ Looks(p, "hangup")
  /\ \E pts \in CallParticipants \union {{}} : Found(p, pts, pts \ {Caller})

\* An invitation: SetNX admits one in five seconds, and every one while Redis
\* fails.
Invite(p) ==
  /\ Looks(p, "invite")
  /\ \/ \E pts \in CallParticipants : Then(p, pts \ {Caller}) /\ Missing(pts, Ring)
        /\ throttled' \in {throttled, TRUE}
     \/ Then(p, {}) /\ Excuse(Sessions, Ring) /\ UNCHANGED throttled
  /\ UNCHANGED <<holds, spent, ses, told, announced>>

ThrottleExpires ==
  /\ throttled /\ throttled' = FALSE
  /\ UNCHANGED <<holds, spent, ses, told, h, excused, announced>>

-----------------------------------------------------------------------------
(* HTTP requests.                                                          *)

Free(p) == p \in Requests /\ h[p] = Idle

\* handleSendMessage stores the message and publishes nothing.
SendMessage(p) ==
  /\ Free(p) /\ Chat \in holds
  /\ \E m \in Messages \ spent :
       /\ holds' = holds \union {m} /\ spent' = spent \union {m}
       /\ Excuse(Sessions, m)
  /\ h' = [h EXCEPT ![p] = Ended(p)]
  /\ UNCHANGED <<ses, told, throttled, announced>>

\* handleDeleteMessage: the row goes, and notifyDeleteMessage of
\* messaging-service runs in a goroutine of its own, unless the service
\* returned before: no Scan of a text's file_url, an error of S3 or of the
\* SELECT of the newest message.
DeleteMessage(p) ==
  /\ Free(p)
  /\ \E m \in Messages \intersect holds :
       /\ holds' = holds \ {m}
       /\ \/ Begin(p, "look", "delete", m) /\ UNCHANGED excused
          \/ h' = [h EXCEPT ![p] = Ended(p)] /\ Excuse(Sessions, m)
  /\ UNCHANGED <<spent, ses, told, throttled, announced>>

\* A goroutine will tell `to': nobody when the answer is lost.
WillTell(p, to) ==
  h' = [h EXCEPT ![p] = IF to = {} THEN Ended(p)
                        ELSE [at |-> "publish", doing |-> "create", item |-> Chat, to |-> to]]

Create(p, to) ==
  /\ Free(p) /\ Chat \notin spent
  /\ holds' = holds \union {Chat} /\ spent' = spent \union {Chat}
  /\ WillTell(p, to)
  /\ Missing(to, Chat)
  /\ UNCHANGED <<ses, told, throttled, announced>>

\* The two have a chat: CreateChat answers its id, and v is told once more.
CreateAgain(p, v) ==
  /\ Free(p) /\ Chat \in holds
  /\ WillTell(p, {v})
  /\ UNCHANGED <<holds, spent, ses, told, throttled, excused, announced>>

\* handleCreateChat by u: the other user, v, is found by name.
CreateChat(p) ==
  \E u, v \in Members :
    Members = {u, v} /\ (Create(p, {v}) \/ Create(p, {}) \/ CreateAgain(p, v))

\* handleCreateGroup: the members who are found by name are told, the admin
\* when named.
CreateGroup(p) == \E to \in SUBSET Members : Create(p, to)

\* handleClearChat and handleDeleteChat ask who takes part before they do it,
\* and go on when that fails.
AskFirst(p, doing) ==
  /\ Free(p) /\ Chat \in holds
  /\ \E pts \in Participants :
       h' = [h EXCEPT ![p] = [at |-> "remove", doing |-> doing, item |-> Chat, to |-> pts]]
  /\ UNCHANGED <<holds, spent, ses, told, throttled, excused, announced>>

\* Mutation of Delete: the participants are asked for after the chat is gone.
DeleteThenAsk(p) ==
  /\ h[p].at = "remove" /\ h[p].doing = "drop"
  /\ holds' = holds \ {Chat}
  /\ \E pts \in {Members, {}} : Then(p, pts)
  /\ UNCHANGED <<spent, ses, told, throttled, excused, announced>>

\* The chat goes, and those who took part will be told: nobody when the answer
\* is lost.
Delete(p) ==
  /\ h[p].at = "remove" /\ h[p].doing = "drop" /\ Chat \in holds
  /\ holds' = holds \ {Chat}
  /\ \E to \in {h[p].to, {}} : Then(p, to) /\ Missing(to, Chat)
  /\ UNCHANGED <<spent, ses, told, throttled, announced>>

\* ClearChat empties the preview: the messages stay stored, but the clients
\* drop them.
Clear(p) ==
  /\ h[p].at = "remove" /\ h[p].doing = "clear"
  /\ Then(p, h[p].to)
  /\ UNCHANGED <<holds, spent, ses, told, throttled, excused, announced>>

\* The call did nothing that clients are told of: the service refuses, also
\* when the chat is gone (handleDeleteGroup always ends here: the rpc is not
\* implemented), the request is cancelled before it, or the answer of
\* ClearChat, which has emptied the preview, is lost.
Refused(p) ==
  /\ h[p].at = "remove"
  /\ h' = [h EXCEPT ![p] = Ended(p)]
  /\ UNCHANGED <<holds, spent, ses, told, throttled, excused, announced>>

-----------------------------------------------------------------------------
(* Publishing.                                                             *)

Event(p) ==
  [is |-> CASE h[p].doing \in {"message", "create", "invite"} -> "new"
            [] h[p].doing \in {"delete", "drop", "hangup"} -> "gone"
            [] OTHER -> h[p].doing,
   item |-> h[p].item]

Hears(s) == ses[s].sub = "live" /\ Len(ses[s].inbox) < MaxInbox

\* One PUBLISH, whose error nobody looks at.  A session that is not subscribed
\* or whose channel is full does not get the payload.
Publish(p) ==
  /\ h[p].at = "publish"
  /\ \E u \in h[p].to, ok \in BOOLEAN :
       LET n == Event(p)
           reached == {s \in Of(u) : ok /\ Hears(s)}
           late == n.is = "new" /\ n.item # Ring /\ <<u, n.item>> \in announced IN
       /\ ses' = [s \in Sessions |->
                   IF s \in reached THEN [ses[s] EXCEPT !.inbox = Append(ses[s].inbox, n)]
                   ELSE ses[s]]
       /\ IF n.is = "clear" THEN excused' = excused \union (reached \X Messages)
          ELSE Excuse(IF late THEN Of(u) ELSE Of(u) \ reached, n.item)
       /\ announced' = IF n.is = "gone" /\ n.item # Ring
                       THEN announced \union {<<u, n.item>>} ELSE announced
       /\ h' = [h EXCEPT ![p] = IF h[p].to = {u} THEN Ended(p)
                                ELSE [h[p] EXCEPT !.to = h[p].to \ {u}]]
  /\ UNCHANGED <<holds, spent, told, throttled>>

\* The gateway stops: its sessions end and its handlers do not go on.
Crash ==
  /\ \E s \in Sessions : ses[s].conn = "open"
  /\ ses' = [s \in Sessions |-> IF ses[s].conn = "none" THEN Closed ELSE
               [conn |-> "closed", sub |-> "closed", reader |-> "ended", writer |-> "ended",
                inbox |-> <<>>]]
  /\ h' = [p \in Handlers |-> IF h[p].at = "idle" THEN h[p] ELSE Ended(p)]
  /\ Forget(Sessions)
  /\ UNCHANGED <<holds, spent, throttled, announced>>

-----------------------------------------------------------------------------
Writer(s) == Deliver(s) \/ WriterEnds(s)

Session(s) ==
  \/ Upgrade(s) \/ Subscribed(s) \/ Break(s) \/ ReadFails(s) \/ Writer(s)
  \/ ReadMessage(s) \/ ReadTyping(s) \/ ReadCall(s, "invite") \/ ReadCall(s, "hangup")

Request(p) ==
  \/ SendMessage(p) \/ DeleteMessage(p) \/ CreateChat(p) \/ CreateGroup(p)
  \/ AskFirst(p, "drop") \/ AskFirst(p, "clear")

Handle(p) ==
  \/ Store(p) \/ LookMessage(p) \/ LookTyping(p) \/ LookDelete(p) \/ LookHangup(p) \/ Invite(p)
  \/ Delete(p) \/ Clear(p) \/ Refused(p) \/ Publish(p)

RtNext ==
  \/ \E s \in Sessions : Session(s)
  \/ \E p \in Requests : Request(p)
  \/ \E p \in Handlers : Handle(p)
  \/ ThrottleExpires \/ Crash

\* A goroutine that can run does, and the calls of a handler end; nothing is
\* assumed of clients, of the network or of the order of handlers.
RtFairness ==
  \A s \in Sessions : WF_rtvars(ReadFails(s)) /\ WF_rtvars(Writer(s)) /\ WF_rtvars(Handle(s))

RtSpec == RtInit /\ [][RtNext]_rtvars /\ RtFairness

-----------------------------------------------------------------------------
(* Properties.                                                             *)

\* Nobody is at work on what the session is told of the item.
Quiet(s, i) ==
  /\ ses[s].conn = "open" /\ ses[s].sub = "live" /\ ses[s].inbox = <<>>
  /\ \A p \in Handlers : h[p].at # "idle" => h[p].item \notin {i, Chat}

\* Once nothing is under way, the client of a session knows of an item just
\* when it exists: the order in which rows change and events are published,
\* queued and written keeps the last word last.  The exceptions are those of
\* the code: the item is older than the subscription, the session was not
\* subscribed or its channel full, Redis failed, the answer of GetParticipants
\* was an error or left the user out, a call took effect and its answer was
\* lost, DeleteMessage stopped after the row, the message came by HTTP or the
\* chat from the user, the chat was cleared, the invitation throttled, or the
\* item's end was published before its beginning.
SettledSessionsAgree ==
  \A s \in Sessions, i \in Items :
    Quiet(s, i) /\ <<s, i>> \notin excused /\ (i \in Messages => Chat \in holds) =>
      (told[s][i] = "new" <=> i \in holds)

\* A session whose connection is gone ends: both goroutines return, and the
\* subscription and the connection are closed.
SessionsEnd ==
  \A s \in Sessions :
    ses[s].conn \in {"broken", "closed"} ~>
      /\ ses[s].reader = "ended" /\ ses[s].writer = "ended"
      /\ ses[s].sub = "closed" /\ ses[s].conn = "closed"
=============================================================================
