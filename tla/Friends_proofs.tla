---------------------------- MODULE Friends_proofs ----------------------------
(***************************************************************************)
(* For any users, requests and handlers: the types, that a friendship      *)
(* rests on an accepted request, that Friends implements Friendship, and   *)
(* that users were told what holds when nothing overlapped or was lost.    *)
(***************************************************************************)
EXTENDS Friends, SequenceTheorems, TLAPS

News == [item: Items, holds: BOOLEAN]

LEMMA IdleType == Idle \in HandlerState /\ Directed(Idle)
  BY DEF Idle, HandlerState, Directed, Steps

LEMMA NewsType ==
  ASSUME NEW u \in Users, NEW v \in Users, NEW b \in BOOLEAN
  PROVE  /\ ToBoth(u, v, b) \in Seq(News) /\ ToBoth(u, v, b) # <<>>
         /\ ToReceiver(u, v, b) \in Seq(News) /\ ToReceiver(u, v, b) # <<>>
  BY DEF ToBoth, ToReceiver, News, Items

\* The first record of a handler that is about to enter.
LEMMA FirstType ==
  /\ \A r \in Requests, at \in {"decline", "cancel"} :
       /\ At(at, r) \in HandlerState /\ At(at, r).news = <<>>
       /\ At(at, r).at = at /\ At(at, r).request = r
  /\ \A news \in Seq(News) :
       /\ Telling(news) \in HandlerState /\ Telling(news).news = news
       /\ Telling(news).at = "tell"
<1>1. Idle \in HandlerState /\ Idle.news = <<>>
  BY IdleType DEF Idle
<1>2. ASSUME NEW r \in Requests, NEW at \in {"decline", "cancel"}
      PROVE  /\ At(at, r) \in HandlerState /\ At(at, r).news = <<>>
             /\ At(at, r).at = at /\ At(at, r).request = r
  BY <1>1 DEF At, HandlerState, Steps
<1>3. ASSUME NEW news \in Seq(News)
      PROVE  /\ Telling(news) \in HandlerState /\ Telling(news).news = news
             /\ Telling(news).at = "tell"
  BY <1>1 DEF Telling, HandlerState, Steps, News
<1> QED
  BY <1>2, <1>3

\* What entering does to h.
LEMMA EnterType ==
  ASSUME TypeOK, NEW p \in Handlers, NEW u \in Users, NEW v \in Users,
         NEW first \in HandlerState,
         \/ /\ first.at \in {"decline", "cancel"} /\ first.news = <<>>
            /\ first.request \in Requests
            /\ u = From[first.request] /\ v = To[first.request]
         \/ first.at = "tell" /\ first.news # <<>>,
         Enter(p, u, v, first)
  PROVE  h' \in [Handlers -> HandlerState] /\ \A q \in Handlers : Directed(h'[q])
<1> DEFINE entered == [first EXCEPT !.from = u, !.to = v, !.alone = Alone(u, v)]
<1>1. Alone(u, v) \in BOOLEAN
  BY DEF Alone
<1>2. entered \in HandlerState /\ Directed(entered)
  BY <1>1 DEF HandlerState, Directed
<1> HIDE DEF entered
<1>3. h' = [q \in Handlers |-> IF q = p THEN entered
                               ELSE IF AtWork(q, u, v) THEN [h[q] EXCEPT !.alone = FALSE]
                               ELSE h[q]]
  BY DEF Enter, entered
<1>4. ASSUME NEW q \in Handlers
      PROVE  h'[q] \in HandlerState /\ Directed(h'[q])
  BY <1>2, <1>3 DEF TypeOK, HandlerState, Directed
<1> QED
  BY <1>3, <1>4

USE EndsType

LEMMA PairType == \A u, v \in Users : Pair(u, v) \in Pairs
  BY DEF Pairs

LEMMA WroteType ==
  ASSUME TypeOK, NEW p \in Handlers, h[p].at # "idle", Wrote(p)
  PROVE  shaken' \subseteq Pairs
  BY PairType DEF TypeOK, Wrote, Directed

LEMMA TypeInv == Init => TypeOK
  BY IdleType DEF Init, TypeOK

LEMMA TypeNext ==
  ASSUME TypeOK, [Next]_vars
  PROVE  TypeOK'
<1> USE DEF TypeOK
<1>1. ASSUME NEW p \in Handlers, NEW r \in Requests, SendFriendRequest(p, r) PROVE TypeOK'
  <2> DEFINE news == ToReceiver(From[r], To[r], TRUE)
  <2>1. news \in Seq(News) /\ news # <<>>
    BY NewsType
  <2> HIDE DEF news
  <2>2. Enter(p, From[r], To[r], Telling(news))
    BY <1>1 DEF SendFriendRequest, news
  <2>3. /\ Telling(news) \in HandlerState /\ Telling(news).at = "tell"
        /\ Telling(news).news # <<>>
    BY <2>1, FirstType
  <2>4. From[r] \in Users /\ To[r] \in Users
    BY EndsType
  <2> HIDE DEF TypeOK
  <2>5. h' \in [Handlers -> HandlerState] /\ \A q \in Handlers : Directed(h'[q])
    BY <2>2, <2>3, <2>4, EnterType
  <2> USE DEF TypeOK
  <2> QED
    BY <1>1, <2>4, <2>5, PairType DEF SendFriendRequest
<1>2. ASSUME NEW p \in Handlers, NEW r \in Requests, Accept(p, r) PROVE TypeOK'
  <2> DEFINE news == ToBoth(From[r], To[r], TRUE)
  <2>1. news \in Seq(News) /\ news # <<>>
    BY NewsType
  <2> HIDE DEF news
  <2>2. Enter(p, From[r], To[r], Telling(news))
    BY <1>2 DEF Accept, news
  <2>3. /\ Telling(news) \in HandlerState /\ Telling(news).at = "tell"
        /\ Telling(news).news # <<>>
    BY <2>1, FirstType
  <2>4. From[r] \in Users /\ To[r] \in Users
    BY EndsType
  <2> HIDE DEF TypeOK
  <2>5. h' \in [Handlers -> HandlerState] /\ \A q \in Handlers : Directed(h'[q])
    BY <2>2, <2>3, <2>4, EnterType
  <2> USE DEF TypeOK
  <2> QED
    BY <1>2, <2>4, <2>5, PairType DEF Accept
<1>3. ASSUME NEW p \in Handlers, NEW u \in Users, NEW v \in Users, DeleteFriend(p, u, v)
      PROVE  TypeOK'
  <2> DEFINE news == ToBoth(u, v, FALSE)
  <2>1. news \in Seq(News) /\ news # <<>>
    BY NewsType
  <2> HIDE DEF news
  <2>2. Enter(p, u, v, Telling(news))
    BY <1>3 DEF DeleteFriend, news
  <2>3. h' \in [Handlers -> HandlerState] /\ \A q \in Handlers : Directed(h'[q])
    BY <2>1, <2>2, FirstType, EnterType
  <2> QED
    BY <1>3, <2>3 DEF DeleteFriend
<1>4. ASSUME NEW p \in Handlers, NEW r \in Requests, DeclineLook(p, r) \/ CancelLook(p, r)
      PROVE  TypeOK'
  <2>1. PICK at \in {"decline", "cancel"} : Enter(p, From[r], To[r], At(at, r))
    BY <1>4 DEF DeclineLook, CancelLook
  <2>2. h' \in [Handlers -> HandlerState] /\ \A q \in Handlers : Directed(h'[q])
    BY <2>1, FirstType, EnterType
  <2> QED
    BY <1>4, <2>2 DEF DeclineLook, CancelLook, history
<1>5. ASSUME NEW p \in Handlers, DeclineWrite(p) PROVE TypeOK'
  BY <1>5, IdleType, WroteType DEF DeclineWrite, Stored
<1>6. ASSUME NEW p \in Handlers, CancelWrite(p) PROVE TypeOK'
  <2> DEFINE r == h[p].request
             news == ToReceiver(From[r], To[r], FALSE)
             next == [h[p] EXCEPT !.at = "tell", !.news = news]
  <2>1. r \in Requests /\ h[p] \in HandlerState /\ Directed(h[p]) /\ h[p].at = "cancel"
    BY <1>6 DEF CancelWrite, Directed
  <2>2. news \in Seq(News) /\ news # <<>>
    BY <2>1, NewsType
  <2> HIDE DEF news
  <2>3. next \in HandlerState /\ Directed(next)
    BY <2>1, <2>2 DEF HandlerState, Directed, Steps, News
  <2>4. h' = [h EXCEPT ![p] = next]
    BY <1>6 DEF CancelWrite, news
  <2> HIDE DEF next
  <2> QED
    BY <1>6, <2>1, <2>3, <2>4, WroteType DEF CancelWrite
<1>7. ASSUME NEW p \in Handlers, Tell(p) PROVE TypeOK'
  <2> DEFINE n == Head(h[p].news)
             next == [h[p] EXCEPT !.news = Tail(h[p].news)]
  <2>1. h[p] \in HandlerState /\ Directed(h[p]) /\ h[p].at = "tell"
    BY <1>7 DEF Tell
  <2>2. h[p].news \in Seq(News) /\ h[p].news # <<>>
    BY <2>1 DEF HandlerState, Directed, News
  <2>3. n \in News
    BY <2>2
  <2>4. n.item \in Items
    BY <2>3 DEF News
  <2>5. told' \subseteq Items /\ garbled' \subseteq Items
    BY <1>7, <2>4 DEF Tell
  <2>6. Tail(h[p].news) \in Seq(News)
    BY <2>2, HeadTailProperties
  <2>7. ASSUME Tail(h[p].news) # <<>> PROVE next \in HandlerState /\ Directed(next)
    BY <2>1, <2>6, <2>7 DEF HandlerState, Directed, News
  <2>8. h' = [h EXCEPT ![p] = IF Tail(h[p].news) = <<>> THEN Idle ELSE next]
    BY <1>7 DEF Tell
  <2> HIDE DEF next
  <2>9. h' \in [Handlers -> HandlerState] /\ \A q \in Handlers : Directed(h'[q])
    BY <2>7, <2>8, IdleType
  <2> QED
    BY <1>7, <2>5, <2>9 DEF Tell
<1>8. ASSUME NEW p \in Handlers, Abort(p) PROVE TypeOK'
  <2>1. h[p].news \in Seq(News)
    BY DEF HandlerState, News
  <2>2. ASSUME NEW i \in DOMAIN h[p].news PROVE h[p].news[i].item \in Items
    <3>1. i \in 1 .. Len(h[p].news)
      BY <2>1
    <3>2. h[p].news[i] \in News
      BY <2>1, <3>1, ElementOfSeq
    <3> QED
      BY <3>2 DEF News
  <2>3. garbled' \subseteq Items
    BY <1>8, <2>2 DEF Abort
  <2>4. h' \in [Handlers -> HandlerState] /\ \A q \in Handlers : Directed(h'[q])
    BY <1>8, IdleType DEF Abort
  <2> QED
    BY <1>8, <2>3, <2>4 DEF Abort
<1>9. CASE UNCHANGED vars
  BY <1>9 DEF vars, history
<1> QED
  BY <1>1, <1>2, <1>3, <1>4, <1>5, <1>6, <1>7, <1>8, <1>9 DEF Next

\* Every variable keeps its type, for any users, requests and handlers.
THEOREM TypeCorrect == Spec => []TypeOK
  BY TypeInv, TypeNext, PTL DEF Spec

-----------------------------------------------------------------------------
(* The inductive invariant: a handler that is alone on its pair still finds *)
(* what it looked up, so its write cannot take an accepted row away.        *)

PairOf(r) == Pair(From[r], To[r])
WorksOn(r) == Pair(r.from, r.to)

\* uq_friend_request: the two ends have one row.
OneRow ==
  \A q, r \in Requests :
    Stored(q) /\ Stored(r) /\ From[q] = From[r] /\ To[q] = To[r] => q = r

AloneIsAlone ==
  \A p, q \in Handlers :
    p # q /\ h[p].at # "idle" /\ h[p].alone /\ h[q].at # "idle" =>
      WorksOn(h[q]) # WorksOn(h[p])

LookHolds ==
  \A p \in Handlers :
    h[p].at \in {"decline", "cancel"} /\ h[p].alone => status[h[p].request] = "pending"

RowInv == TypeOK /\ OneRow /\ AloneIsAlone /\ LookHolds /\ FriendshipIsAccepted

\* A step of p that begins its work on the pair of u and v.
LEMMA EnterAlone ==
  ASSUME TypeOK, AloneIsAlone, NEW p \in Handlers, NEW u \in Users, NEW v \in Users,
         NEW first \in HandlerState, h[p].at = "idle", Enter(p, u, v, first)
  PROVE  /\ AloneIsAlone'
         /\ \A q \in Handlers \ {p} : h'[q].at # "idle" /\ h'[q].alone =>
              h'[q] = h[q] /\ WorksOn(h[q]) # Pair(u, v)
         /\ \A q \in Handlers \ {p} : h'[q].at = h[q].at /\ h'[q].news = h[q].news
                                      /\ h'[q].request = h[q].request
                                      /\ h'[q].from = h[q].from /\ h'[q].to = h[q].to
         /\ h'[p].at = first.at /\ h'[p].request = first.request /\ h'[p].news = first.news
         /\ h'[p].from = u /\ h'[p].to = v
<1> DEFINE entered == [first EXCEPT !.from = u, !.to = v, !.alone = Alone(u, v)]
<1>1. /\ entered.at = first.at /\ entered.from = u /\ entered.to = v
      /\ entered.alone = Alone(u, v) /\ entered.news = first.news
      /\ entered.request = first.request
  BY DEF HandlerState
<1> HIDE DEF entered
<1>2. h' = [q \in Handlers |-> IF q = p THEN entered
                               ELSE IF AtWork(q, u, v) THEN [h[q] EXCEPT !.alone = FALSE]
                               ELSE h[q]]
  BY DEF Enter, entered
<1>3. ASSUME NEW q \in Handlers \ {p}
      PROVE  /\ h'[q].at = h[q].at /\ h'[q].from = h[q].from /\ h'[q].to = h[q].to
             /\ h'[q].news = h[q].news /\ h'[q].request = h[q].request
             /\ h'[q].at # "idle" /\ h'[q].alone => h'[q] = h[q] /\ WorksOn(h[q]) # Pair(u, v)
  <2>1. h[q] \in HandlerState
    BY DEF TypeOK
  <2>2. CASE AtWork(q, u, v)
    BY <1>2, <2>1, <2>2 DEF HandlerState
  <2>3. CASE ~AtWork(q, u, v)
    BY <1>2, <2>3 DEF AtWork, WorksOn
  <2> QED
    BY <2>2, <2>3
<1>4. h'[p] = entered
  BY <1>2
<1>5. ASSUME NEW a \in Handlers, NEW b \in Handlers, a # b, h'[a].at # "idle", h'[a].alone,
             h'[b].at # "idle"
      PROVE  Pair(h'[b].from, h'[b].to) # Pair(h'[a].from, h'[a].to)
  <2>1. CASE a = p
    <3>1. Alone(u, v)
      BY <1>1, <1>4, <1>5, <2>1
    <3> QED
      BY <1>1, <1>3, <1>4, <1>5, <2>1, <3>1 DEF Alone, AtWork
  <2>2. CASE b = p
    BY <1>1, <1>3, <1>4, <1>5, <2>2 DEF WorksOn
  <2>3. CASE a # p /\ b # p
    BY <1>3, <1>5, <2>3 DEF AloneIsAlone, WorksOn
  <2> QED
    BY <2>1, <2>2, <2>3
<1>6. AloneIsAlone'
  BY <1>5 DEF AloneIsAlone, WorksOn
<1> QED
  BY <1>1, <1>3, <1>4, <1>6

\* A later step of p: nobody starts or stops but, perhaps, p.
LEMMA ProceedAlone ==
  ASSUME TypeOK, AloneIsAlone, NEW p \in Handlers, NEW next \in HandlerState,
         h[p].at # "idle", h' = [h EXCEPT ![p] = next],
         next.at = "idle" \/ (/\ next.from = h[p].from /\ next.to = h[p].to
                              /\ next.alone = h[p].alone)
  PROVE  AloneIsAlone'
<1>1. ASSUME NEW a \in Handlers, NEW b \in Handlers, a # b, h'[a].at # "idle", h'[a].alone,
             h'[b].at # "idle"
      PROVE  Pair(h'[b].from, h'[b].to) # Pair(h'[a].from, h'[a].to)
  BY <1>1 DEF AloneIsAlone, TypeOK, WorksOn
<1> QED
  BY <1>1 DEF AloneIsAlone, WorksOn

\* A step that writes rows of the pair P only.
LEMMA OtherPairs ==
  ASSUME FriendshipIsAccepted, NEW P,
         \A r \in Requests : PairOf(r) # P => status'[r] = status[r],
         \A x : x # P /\ x \in friends' \ shaken' => x \in friends \ shaken,
         P \in friends' \ shaken' =>
           \E r \in Requests : status'[r] = "accepted" /\ PairOf(r) = P
  PROVE  FriendshipIsAccepted'
<1>1. ASSUME NEW x \in friends' \ shaken'
      PROVE  \E r \in Requests : status'[r] = "accepted" /\ PairOf(r) = x
  <2>1. CASE x = P
    BY <2>1
  <2>2. CASE x # P
    BY <2>2 DEF FriendshipIsAccepted, PairOf
  <2> QED
    BY <2>1, <2>2
<1> QED
  BY <1>1 DEF FriendshipIsAccepted, PairOf

LEMMA LooksOfOthers ==
  ASSUME TypeOK, LookHolds, NEW p \in Handlers, NEW P,
         \A r \in Requests : PairOf(r) # P => status'[r] = status[r],
         \A q \in Handlers \ {p} : h'[q].at # "idle" /\ h'[q].alone =>
           h'[q] = h[q] /\ WorksOn(h[q]) # P,
         h'[p].at \in {"decline", "cancel"} => status'[h'[p].request] = "pending"
  PROVE  LookHolds'
<1>1. ASSUME NEW q \in Handlers, h'[q].at \in {"decline", "cancel"}, h'[q].alone
      PROVE  status'[h'[q].request] = "pending"
  <2>1. CASE q = p
    BY <1>1, <2>1
  <2>2. CASE q # p
    <3>1. h'[q] = h[q] /\ WorksOn(h[q]) # P
      BY <1>1, <2>2
    <3>2. h[q].request \in Requests /\ PairOf(h[q].request) = WorksOn(h[q])
      BY <1>1, <3>1 DEF TypeOK, Directed, PairOf, WorksOn
    <3> QED
      BY <1>1, <3>1, <3>2 DEF LookHolds
  <2> QED
    BY <2>1, <2>2
<1> QED
  BY <1>1 DEF LookHolds

LEMMA RowInit == Init => RowInv
  BY TypeInv DEF Init, RowInv, OneRow, Stored, AloneIsAlone, LookHolds, FriendshipIsAccepted, Idle

\* SendFriendRequest, Accept: p enters on the pair of r and writes r.
LEMMA RowEnter ==
  ASSUME RowInv, NEW p \in Handlers, NEW r \in Requests,
         SendFriendRequest(p, r) \/ Accept(p, r)
  PROVE  OneRow' /\ AloneIsAlone' /\ LookHolds' /\ FriendshipIsAccepted'
<1> USE DEF RowInv
<1>1. PICK news \in Seq(News) : Enter(p, From[r], To[r], Telling(news))
  BY NewsType DEF SendFriendRequest, Accept
<1>2. Telling(news) \in HandlerState /\ Telling(news).at = "tell" /\ h[p].at = "idle"
  BY FirstType DEF SendFriendRequest, Accept
<1>3. /\ AloneIsAlone'
      /\ \A q \in Handlers \ {p} : h'[q].at # "idle" /\ h'[q].alone =>
           h'[q] = h[q] /\ WorksOn(h[q]) # PairOf(r)
      /\ h'[p].at = "tell"
  BY <1>1, <1>2, EnterAlone DEF PairOf
<1>4. /\ \A q \in Requests \ {r} : status'[q] = status[q]
      /\ status'[r] = IF Accept(p, r) THEN "accepted" ELSE "pending"
      /\ Upserts(r)
  BY DEF SendFriendRequest, Accept, TypeOK, Upserts, Stored
<1>5. \A q \in Requests : PairOf(q) # PairOf(r) => status'[q] = status[q]
  BY <1>4
<1>6. OneRow'
  <2>1. ASSUME NEW a \in Requests, NEW b \in Requests, status'[a] \in {"pending", "accepted", "declined"},
               status'[b] \in {"pending", "accepted", "declined"},
               From[a] = From[b], To[a] = To[b]
        PROVE  a = b
    <3>1. \A q \in Requests \ {r} : Stored(q) <=> status'[q] \in {"pending", "accepted", "declined"}
      BY <1>4 DEF Stored
    <3>2. CASE Stored(r)
      BY <3>1, <3>2, <2>1 DEF OneRow
    <3>3. CASE ~Stored(r)
      <4>1. \A q \in Requests : From[q] = From[r] /\ To[q] = To[r] => ~Stored(q)
        BY <1>4, <3>3 DEF Upserts
      <4> QED
        BY <3>1, <4>1, <2>1 DEF OneRow
    <3> QED
      BY <3>2, <3>3
  <2> QED
    BY <2>1 DEF OneRow, Stored
<1>7. LookHolds'
  <2>1. h'[p].at \in {"decline", "cancel"} => status'[h'[p].request] = "pending"
    BY <1>3
  <2>2. TypeOK /\ LookHolds
    OBVIOUS
  <2> DEFINE P == PairOf(r)
  <2>3. /\ \A q \in Requests : PairOf(q) # P => status'[q] = status[q]
        /\ \A q \in Handlers \ {p} : h'[q].at # "idle" /\ h'[q].alone =>
             h'[q] = h[q] /\ WorksOn(h[q]) # P
    BY <1>3, <1>5
  <2> HIDE DEF P
  <2> QED
    BY ONLY <2>1, <2>2, <2>3, LooksOfOthers, p \in Handlers
<1>8. /\ \A x : x # PairOf(r) /\ x \in friends' \ shaken' => x \in friends \ shaken
      /\ PairOf(r) \in friends' \ shaken' => Accept(p, r)
  BY DEF SendFriendRequest, Accept, PairOf
<1>9. FriendshipIsAccepted'
  BY <1>4, <1>5, <1>8, OtherPairs
<1> QED
  BY <1>3, <1>6, <1>7, <1>9

LEMMA RowDelete ==
  ASSUME RowInv, NEW p \in Handlers, NEW u \in Users, NEW v \in Users, DeleteFriend(p, u, v)
  PROVE  OneRow' /\ AloneIsAlone' /\ LookHolds' /\ FriendshipIsAccepted'
<1> USE DEF RowInv
<1>1. PICK news \in Seq(News) : Enter(p, u, v, Telling(news))
  BY NewsType DEF DeleteFriend
<1>2. Telling(news) \in HandlerState /\ Telling(news).at = "tell" /\ h[p].at = "idle"
  BY FirstType DEF DeleteFriend
<1>3. /\ AloneIsAlone'
      /\ \A q \in Handlers \ {p} : h'[q].at # "idle" /\ h'[q].alone =>
           h'[q] = h[q] /\ WorksOn(h[q]) # Pair(u, v)
      /\ h'[p].at = "tell"
  BY <1>1, <1>2, EnterAlone
<1>4. status' = status
  BY DEF DeleteFriend
<1>5. OneRow' /\ LookHolds'
  BY <1>3, <1>4, LooksOfOthers DEF OneRow, Stored
<1>6. FriendshipIsAccepted'
  <2>1. /\ \A x : x # Pair(u, v) /\ x \in friends' \ shaken' => x \in friends \ shaken
        /\ Pair(u, v) \notin friends'
    BY DEF DeleteFriend
  <2> QED
    BY <1>4, <2>1, OtherPairs
<1> QED
  BY <1>3, <1>5, <1>6

LEMMA RowLook ==
  ASSUME RowInv, NEW p \in Handlers, NEW r \in Requests, DeclineLook(p, r) \/ CancelLook(p, r)
  PROVE  OneRow' /\ AloneIsAlone' /\ LookHolds' /\ FriendshipIsAccepted'
<1> USE DEF RowInv
<1>1. PICK at \in {"decline", "cancel"} : Enter(p, From[r], To[r], At(at, r))
  BY DEF DeclineLook, CancelLook
<1>2. At(at, r) \in HandlerState /\ At(at, r).request = r /\ h[p].at = "idle"
  BY FirstType DEF DeclineLook, CancelLook
<1>3. /\ AloneIsAlone'
      /\ \A q \in Handlers \ {p} : h'[q].at # "idle" /\ h'[q].alone =>
           h'[q] = h[q] /\ WorksOn(h[q]) # PairOf(r)
      /\ h'[p].request = r
  BY <1>1, <1>2, EnterAlone DEF PairOf
<1>4. status' = status /\ friends' = friends /\ shaken' = shaken /\ status[r] = "pending"
  BY DEF DeclineLook, CancelLook, history
<1>5. OneRow' /\ LookHolds' /\ FriendshipIsAccepted'
  BY <1>3, <1>4, LooksOfOthers DEF OneRow, Stored, FriendshipIsAccepted
<1> QED
  BY <1>3, <1>5

\* DeclineWrite, CancelWrite: the row it looked up, if it is still there, goes.
LEMMA RowWrite ==
  ASSUME RowInv, NEW p \in Handlers, DeclineWrite(p) \/ CancelWrite(p)
  PROVE  OneRow' /\ AloneIsAlone' /\ LookHolds' /\ FriendshipIsAccepted'
<1> DEFINE r == h[p].request
<1> USE DEF RowInv
<1>1. /\ r \in Requests /\ h[p] \in HandlerState /\ h[p].at \in {"decline", "cancel"}
      /\ h[p].from = From[r] /\ h[p].to = To[r]
  BY DEF TypeOK, DeclineWrite, CancelWrite, Directed
<1>2. PICK next \in HandlerState :
        /\ h' = [h EXCEPT ![p] = next]
        /\ next.at \in {"idle", "tell"}
        /\ next.at = "idle" \/ (/\ next.from = h[p].from /\ next.to = h[p].to
                                /\ next.alone = h[p].alone)
  <2>1. CASE DeclineWrite(p)
    BY <2>1, IdleType DEF DeclineWrite, Idle
  <2>2. CASE CancelWrite(p)
    <3> DEFINE news == ToReceiver(From[r], To[r], FALSE)
               next == [h[p] EXCEPT !.at = "tell", !.news = news]
    <3>1. news \in Seq(News)
      BY <1>1, NewsType
    <3>2. h' = [h EXCEPT ![p] = next]
      BY <2>2 DEF CancelWrite
    <3> HIDE DEF news
    <3>3. /\ next \in HandlerState /\ next.at = "tell" /\ next.from = h[p].from
          /\ next.to = h[p].to /\ next.alone = h[p].alone
      BY <1>1, <3>1 DEF HandlerState, Steps, News
    <3> HIDE DEF next
    <3> QED
      BY <3>2, <3>3
  <2> QED
    BY <2>1, <2>2
<1>3. AloneIsAlone'
  BY <1>1, <1>2, ProceedAlone
<1>4. /\ \A q \in Requests \ {r} : status'[q] = status[q]
      /\ status'[r] = status[r] \/ status'[r] \in {"declined", "deleted"}
      /\ status'[r] \in {"pending", "accepted", "declined"} => Stored(r)
  BY <1>1 DEF TypeOK, DeclineWrite, CancelWrite, Stored
<1>5. OneRow'
  <2>1. ASSUME NEW a \in Requests, status'[a] \in {"pending", "accepted", "declined"}
        PROVE  Stored(a)
    BY <1>4, <2>1 DEF Stored
  <2> QED
    BY <2>1 DEF OneRow, Stored
<1>6. ASSUME NEW q \in Handlers \ {p}, h'[q].at # "idle", h'[q].alone
      PROVE  h'[q] = h[q] /\ WorksOn(h[q]) # PairOf(r)
  BY <1>1, <1>2, <1>6 DEF AloneIsAlone, WorksOn, PairOf, TypeOK
<1>7. h'[p].at \in {"idle", "tell"}
  BY <1>2 DEF TypeOK
<1> HIDE DEF r
<1>8. LookHolds'
  BY <1>1, <1>4, <1>6, <1>7, LooksOfOthers
<1>9. FriendshipIsAccepted'
  <2>1. friends' = friends /\ shaken' = IF h[p].alone THEN shaken ELSE shaken \union {PairOf(r)}
    BY <1>1 DEF DeclineWrite, CancelWrite, Wrote, PairOf
  <2>2. ASSUME PairOf(r) \in friends' \ shaken'
        PROVE  \E q \in Requests : status'[q] = "accepted" /\ PairOf(q) = PairOf(r)
    <3>1. h[p].alone /\ PairOf(r) \in friends \ shaken
      BY <1>1, <2>1, <2>2 DEF HandlerState
    <3>2. status[r] = "pending"
      BY <1>1, <3>1 DEF LookHolds, r
    <3>3. PICK q \in Requests : status[q] = "accepted" /\ PairOf(q) = PairOf(r)
      BY <3>1 DEF FriendshipIsAccepted, PairOf
    <3> QED
      BY <1>4, <3>2, <3>3
  <2> QED
    BY <1>4, <2>1, <2>2, OtherPairs
<1> QED
  BY <1>3, <1>5, <1>8, <1>9

LEMMA RowRest ==
  ASSUME RowInv, NEW p \in Handlers, Tell(p) \/ Abort(p)
  PROVE  OneRow' /\ AloneIsAlone' /\ LookHolds' /\ FriendshipIsAccepted'
<1> USE DEF RowInv
<1>1. h[p] \in HandlerState /\ h[p].at # "idle" /\ (Tell(p) => h[p].at = "tell" /\ h[p].news # <<>>)
  BY DEF TypeOK, Tell, Abort, Directed
<1>2. PICK next \in HandlerState :
        /\ h' = [h EXCEPT ![p] = next]
        /\ next.at \in {"idle", "tell"}
        /\ next.at = "idle" \/ (/\ next.from = h[p].from /\ next.to = h[p].to
                                /\ next.alone = h[p].alone)
  <2>1. CASE h' = [h EXCEPT ![p] = Idle]
    BY <2>1, IdleType DEF Idle
  <2>2. CASE Tell(p) /\ h' = [h EXCEPT ![p] = [h[p] EXCEPT !.news = Tail(h[p].news)]]
    <3>1. h[p].news \in Seq(News)
      BY <1>1 DEF HandlerState, News
    <3>2. Tail(h[p].news) \in Seq(News)
      BY <1>1, <2>2, <3>1, HeadTailProperties
    <3> DEFINE next == [h[p] EXCEPT !.news = Tail(h[p].news)]
    <3>3. /\ next \in HandlerState /\ next.at = "tell" /\ next.from = h[p].from
          /\ next.to = h[p].to /\ next.alone = h[p].alone
      BY <1>1, <2>2, <3>2 DEF HandlerState, News
    <3> HIDE DEF next
    <3> QED
      BY <2>2, <3>3 DEF next
  <2> QED
    BY <2>1, <2>2 DEF Tell, Abort
<1>3. status' = status /\ friends' = friends /\ shaken' = shaken
  BY DEF Tell, Abort
<1>4. AloneIsAlone'
  BY <1>1, <1>2, ProceedAlone
<1>5. LookHolds'
  BY <1>2, <1>3 DEF LookHolds, TypeOK
<1> QED
  BY <1>3, <1>4, <1>5 DEF OneRow, Stored, FriendshipIsAccepted

LEMMA RowNext ==
  ASSUME RowInv, [Next]_vars
  PROVE  RowInv'
<1>1. TypeOK'
  BY TypeNext DEF RowInv
<1>2. CASE UNCHANGED vars
  BY <1>2 DEF vars, history, RowInv, TypeOK, Directed, OneRow, Stored, AloneIsAlone, WorksOn,
              LookHolds, FriendshipIsAccepted
<1>3. CASE Next
  BY <1>1, <1>3, RowEnter, RowDelete, RowLook, RowWrite, RowRest DEF Next, RowInv
<1> QED
  BY <1>2, <1>3

THEOREM RowInvariance == Spec => []RowInv
  BY RowInit, RowNext, PTL DEF Spec

\* The request behind a friendship stays accepted, however looks and writes
\* interleave, unless the friends ask again or a handler was overtaken.
THEOREM FriendshipsAreAccepted == Spec => []FriendshipIsAccepted
  BY RowInvariance, PTL DEF RowInv

-----------------------------------------------------------------------------
(* Friends implements Friendship: every step is a step of it or a stutter. *)

\* The requests still open when r alone has changed.
LEMMA AskedAfter ==
  ASSUME OneRow, NEW r \in Requests, \A q \in Requests \ {r} : status'[q] = status[q]
  PROVE  /\ status'[r] = "pending" => asked' = asked \union {<<From[r], To[r]>>}
         /\ status'[r] # "pending" /\ Stored(r) => asked' = asked \ {<<From[r], To[r]>>}
         /\ status'[r] # "pending" /\ ~Stored(r) => asked' = asked
  BY DEF asked, OneRow, Stored

LEMMA PromiseInit == Init => Promise!Init
  BY DEF Init, Promise!Init, asked

LEMMA PromiseNext ==
  ASSUME RowInv, [Next]_vars
  PROVE  [Promise!Next]_<<friends, asked>>
<1> USE DEF RowInv
<1>1. ASSUME NEW p \in Handlers, NEW r \in Requests, SendFriendRequest(p, r)
      PROVE  Promise!Ask(From[r], To[r])
  <2>1. status'[r] = "pending" /\ \A q \in Requests \ {r} : status'[q] = status[q]
    BY <1>1 DEF SendFriendRequest, TypeOK
  <2> QED
    BY <1>1, <2>1, AskedAfter DEF SendFriendRequest, Promise!Ask
<1>2. ASSUME NEW p \in Handlers, NEW r \in Requests, Accept(p, r)
      PROVE  Promise!Agree(From[r], To[r])
  <2>1. /\ status[r] = "pending" /\ status'[r] = "accepted"
        /\ \A q \in Requests \ {r} : status'[q] = status[q]
    BY <1>2 DEF Accept, TypeOK
  <2>2. <<From[r], To[r]>> \in asked /\ asked' = asked \ {<<From[r], To[r]>>}
    BY <2>1, AskedAfter DEF asked, Stored
  <2> QED
    BY <1>2, <2>2 DEF Accept, Promise!Agree, Pair
<1>3. ASSUME NEW p \in Handlers, NEW u \in Users, NEW v \in Users, DeleteFriend(p, u, v)
      PROVE  Promise!Part(u, v)
  BY <1>3 DEF DeleteFriend, Promise!Part, Pair, asked
<1>4. ASSUME NEW p \in Handlers, DeclineWrite(p) \/ CancelWrite(p)
      PROVE  \/ UNCHANGED <<friends, asked>>
             \/ \E r \in Requests : Promise!Withdraw(From[r], To[r])
  <2>1. PICK r \in Requests : r = h[p].request
    BY <1>4 DEF TypeOK, DeclineWrite, CancelWrite, Directed
  <2>2. /\ \A q \in Requests \ {r} : status'[q] = status[q]
        /\ status'[r] # "pending"
    BY <1>4, <2>1 DEF TypeOK, DeclineWrite, CancelWrite, Stored
  <2>3. asked' = asked \/ asked' = asked \ {<<From[r], To[r]>>}
    BY <2>2, AskedAfter
  <2> QED
    BY <1>4, <2>3 DEF DeclineWrite, CancelWrite, Promise!Withdraw
<1>5. ASSUME NEW p \in Handlers, NEW r \in Requests, DeclineLook(p, r) \/ CancelLook(p, r)
      PROVE  UNCHANGED <<friends, asked>>
  BY <1>5 DEF DeclineLook, CancelLook, asked
<1>6. ASSUME NEW p \in Handlers, Tell(p) \/ Abort(p)
      PROVE  UNCHANGED <<friends, asked>>
  BY <1>6 DEF Tell, Abort, asked
<1>7. CASE UNCHANGED vars
  BY <1>7 DEF vars, asked
<1>8. CASE Next
  BY <1>1, <1>2, <1>3, <1>4, <1>5, <1>6, <1>8 DEF Next, Promise!Next
<1> QED
  BY <1>7, <1>8

\* Two users are friends only after one agreed to what the other still asked,
\* and until one of them deletes the other: the looks that are out of date when
\* they are acted upon never make or end a friendship.
THEOREM ImplementsFriendship == Spec => FriendshipSpec
<1>1. RowInv /\ [Next]_vars => [Promise!Next]_<<friends, asked>>
  BY PromiseNext
<1> QED
  BY <1>1, PromiseInit, RowInvariance, PTL DEF Spec, FriendshipSpec, Promise!Spec

-----------------------------------------------------------------------------
(* Whoever was told last knows what holds.                                 *)

Pending(u, v) == \E r \in Requests : From[r] = u /\ To[r] = v /\ status[r] = "pending"

\* What a user was last told of i is right; n says what is right.
Right(i) ==
  /\ i[2] = "friend" => (i \in told <=> Pair(i[1], i[3]) \in friends)
  /\ i[2] = "request" => (Pending(i[3], i[1]) => i \in told)

Correct(n) ==
  /\ n.item[2] = "friend" => (n.holds <=> Pair(n.item[1], n.item[3]) \in friends)
  /\ n.item[2] = "request" => (Pending(n.item[3], n.item[1]) => n.holds)

\* The news that a handler has still to tell.
Says(s) == {s[k] : k \in DOMAIN s}
WillTell(p, i) == h[p].at = "tell" /\ \E n \in Says(h[p].news) : n.item = i

\* What a handler tells is about its own pair, and is right if it was alone.
OwnNews ==
  \A p \in Handlers : h[p].at = "tell" =>
    \A n \in Says(h[p].news) : Pair(n.item[1], n.item[3]) = WorksOn(h[p])

NewsHolds ==
  \A p \in Handlers : h[p].at = "tell" /\ h[p].alone =>
    \A n \in Says(h[p].news) : Correct(n)

\* What a user believes is right, or is about to be told, or an event went wrong.
Believed ==
  \A i \in Items : i \in garbled \/ Right(i) \/ \E p \in Handlers : WillTell(p, i)

ToldInv == RowInv /\ OwnNews /\ NewsHolds /\ Believed

LEMMA PairSym == \A u, v : Pair(u, v) = Pair(v, u)
  BY DEF Pair

LEMMA SaysBoth ==
  ASSUME NEW u \in Users, NEW v \in Users, NEW b \in BOOLEAN
  PROVE  Says(ToBoth(u, v, b)) = {[item |-> <<u, "friend", v>>, holds |-> b],
                                  [item |-> <<v, "friend", u>>, holds |-> b]}
<1> DEFINE x == [item |-> <<u, "friend", v>>, holds |-> b]
           y == [item |-> <<v, "friend", u>>, holds |-> b]
<1>1. ToBoth(u, v, b) = <<x, y>>
  BY DEF ToBoth
<1> HIDE DEF x, y
<1>2. Says(<<x, y>>) = {x, y}
  BY DEF Says
<1> QED
  BY <1>1, <1>2 DEF x, y

LEMMA SaysReceiver ==
  ASSUME NEW u \in Users, NEW v \in Users, NEW b \in BOOLEAN
  PROVE  Says(ToReceiver(u, v, b)) = {[item |-> <<v, "request", u>>, holds |-> b]}
<1> DEFINE x == [item |-> <<v, "request", u>>, holds |-> b]
<1>1. ToReceiver(u, v, b) = <<x>>
  BY DEF ToReceiver
<1> HIDE DEF x
<1>2. Says(<<x>>) = {x}
  BY DEF Says
<1> QED
  BY <1>1, <1>2 DEF x

LEMMA SaysTail ==
  ASSUME NEW s \in Seq(News), s # <<>>
  PROVE  Says(s) = {Head(s)} \union Says(Tail(s)) /\ Says(s) \subseteq News
<1>1. Len(s) \in Nat /\ Len(s) >= 1 /\ DOMAIN s = 1 .. Len(s) /\ Head(s) = s[1]
  OBVIOUS
<1>2. /\ Tail(s) \in Seq(News) /\ Len(Tail(s)) = Len(s) - 1
      /\ DOMAIN Tail(s) = 1 .. (Len(s) - 1)
      /\ \A k \in 1 .. (Len(s) - 1) : Tail(s)[k] = s[k + 1]
  BY HeadTailProperties, <1>1
<1>3. \A k \in 1 .. Len(s) : k = 1 \/ (k - 1 \in 1 .. (Len(s) - 1) /\ s[k] = Tail(s)[k - 1])
  BY <1>1, <1>2
<1>4. \A k \in 1 .. (Len(s) - 1) : k + 1 \in 1 .. Len(s)
  BY <1>1
<1>5. ASSUME NEW n \in Says(s) PROVE n = Head(s) \/ n \in Says(Tail(s))
  <2>1. PICK k \in 1 .. Len(s) : n = s[k]
    BY <1>1 DEF Says
  <2> QED
    BY <1>1, <1>2, <1>3, <2>1 DEF Says
<1>6. ASSUME NEW n, n = Head(s) \/ n \in Says(Tail(s)) PROVE n \in Says(s)
  <2>1. CASE n = Head(s)
    BY <1>1, <2>1 DEF Says
  <2>2. CASE n \in Says(Tail(s))
    <3>1. PICK k \in 1 .. (Len(s) - 1) : n = Tail(s)[k]
      BY <1>2, <2>2 DEF Says
    <3>2. n = s[k + 1] /\ k + 1 \in DOMAIN s
      BY <1>1, <1>2, <1>4, <3>1
    <3> QED
      BY <3>2 DEF Says
  <2> QED
    BY <1>6, <2>1, <2>2
<1>7. Says(s) \subseteq News
  BY <1>1, ElementOfSeq DEF Says
<1> QED
  BY <1>5, <1>6, <1>7

\* p has made a step on the pair P; the others are where they were, and those
\* that are alone are on another pair.
Others(p, P) ==
  \A q \in Handlers \ {p} :
    /\ h'[q].at = h[q].at /\ h'[q].news = h[q].news
    /\ h'[q].from = h[q].from /\ h'[q].to = h[q].to
    /\ h'[q].at # "idle" /\ h'[q].alone => h[q].alone /\ WorksOn(h[q]) # P

Elsewhere(P) ==
  /\ \A x : x # P => (x \in friends' <=> x \in friends)
  /\ \A r \in Requests : PairOf(r) # P => status'[r] = status[r]

LEMMA PendingElsewhere ==
  ASSUME NEW P, Elsewhere(P), NEW u, NEW v, Pair(u, v) # P
  PROVE  Pending(u, v)' <=> Pending(u, v)
  BY DEF Elsewhere, Pending, PairOf

LEMMA RightElsewhere ==
  ASSUME NEW P, Elsewhere(P), NEW i, Pair(i[1], i[3]) # P, i \in told' <=> i \in told
  PROVE  Right(i) => Right(i)'
<1>1. Pair(i[3], i[1]) # P
  BY PairSym
<1>2. Pending(i[3], i[1])' <=> Pending(i[3], i[1])
  BY <1>1, PendingElsewhere
<1>3. Pair(i[1], i[3]) \in friends' <=> Pair(i[1], i[3]) \in friends
  BY DEF Elsewhere
<1> QED
  BY <1>2, <1>3 DEF Right

LEMMA CorrectElsewhere ==
  ASSUME NEW P, Elsewhere(P), NEW n, Pair(n.item[1], n.item[3]) # P
  PROVE  Correct(n) => Correct(n)'
<1>1. Pair(n.item[3], n.item[1]) # P
  BY PairSym
<1>2. Pending(n.item[3], n.item[1])' <=> Pending(n.item[3], n.item[1])
  BY <1>1, PendingElsewhere
<1>3. Pair(n.item[1], n.item[3]) \in friends' <=> Pair(n.item[1], n.item[3]) \in friends
  BY DEF Elsewhere
<1> QED
  BY <1>2, <1>3 DEF Correct

\* What p's own news must be for all news to be right.
LEMMA NewsAfter ==
  ASSUME OwnNews, NewsHolds, NEW p \in Handlers, NEW P, Others(p, P), Elsewhere(P),
         h'[p].at = "tell" =>
           \A n \in Says(h'[p].news) : /\ Pair(n.item[1], n.item[3]) = Pair(h'[p].from, h'[p].to)
                                       /\ h'[p].alone => Correct(n)'
  PROVE  OwnNews' /\ NewsHolds'
<1>1. ASSUME NEW q \in Handlers, h'[q].at = "tell", NEW n \in Says(h'[q].news)
      PROVE  /\ Pair(n.item[1], n.item[3]) = Pair(h'[q].from, h'[q].to)
             /\ h'[q].alone => Correct(n)'
  <2>1. CASE q = p
    BY <1>1, <2>1
  <2>2. CASE q # p
    <3>1. /\ h[q].at = "tell" /\ n \in Says(h[q].news)
          /\ h'[q].from = h[q].from /\ h'[q].to = h[q].to
          /\ h'[q].alone => h[q].alone /\ WorksOn(h[q]) # P
      BY <1>1, <2>2 DEF Others
    <3>2. Pair(n.item[1], n.item[3]) = WorksOn(h[q])
      BY <3>1 DEF OwnNews
    <3>3. ASSUME h'[q].alone PROVE Correct(n)'
      BY <3>1, <3>2, <3>3, CorrectElsewhere DEF NewsHolds
    <3> QED
      BY <3>1, <3>2, <3>3 DEF WorksOn
  <2> QED
    BY <2>1, <2>2
<1> QED
  BY <1>1 DEF OwnNews, NewsHolds, WorksOn

\* What is still believed when p has made its step.
LEMMA BelievedAfter ==
  ASSUME Believed, NEW p \in Handlers, NEW P, Others(p, P),
         \A i \in Items : i \in garbled => i \in garbled' \/ Right(i)',
         \A i \in Items : Right(i) \/ WillTell(p, i) =>
           i \in garbled' \/ Right(i)' \/ WillTell(p, i)'
  PROVE  Believed'
<1>1. \A q \in Handlers \ {p}, i \in Items : WillTell(q, i) => WillTell(q, i)'
  BY DEF WillTell, Others
<1>2. ASSUME NEW i \in Items
      PROVE  i \in garbled' \/ Right(i)' \/ \E q \in Handlers : WillTell(q, i)'
  <2>1. \/ i \in garbled \/ Right(i) \/ WillTell(p, i)
        \/ \E q \in Handlers \ {p} : WillTell(q, i)
    BY DEF Believed
  <2> QED
    BY <1>1, <2>1
<1> QED
  BY <1>2 DEF Believed

\* SendFriendRequest, Accept and DeleteFriend on the pair of u and v.
LEMMA ToldEnter ==
  ASSUME ToldInv, NEW p \in Handlers, NEW u \in Users, NEW v \in Users,
         NEW news \in Seq(News), Enter(p, u, v, Telling(news)), h[p].at = "idle",
         Elsewhere(Pair(u, v)), UNCHANGED <<told, garbled>>,
         \A n \in Says(news) : Pair(n.item[1], n.item[3]) = Pair(u, v) /\ Correct(n)',
         \A i \in Items : Pair(i[1], i[3]) = Pair(u, v) /\ Right(i) =>
           Right(i)' \/ \E n \in Says(news) : n.item = i
  PROVE  OwnNews' /\ NewsHolds' /\ Believed'
<1> USE DEF ToldInv, RowInv
<1>1. /\ Telling(news) \in HandlerState /\ Telling(news).news = news
      /\ Telling(news).at = "tell"
  BY FirstType
<1>2. /\ \A q \in Handlers \ {p} : h'[q].at # "idle" /\ h'[q].alone =>
            h'[q] = h[q] /\ WorksOn(h[q]) # Pair(u, v)
      /\ \A q \in Handlers \ {p} : h'[q].at = h[q].at /\ h'[q].news = h[q].news
                                   /\ h'[q].from = h[q].from /\ h'[q].to = h[q].to
      /\ h'[p].at = "tell" /\ h'[p].news = news /\ h'[p].from = u /\ h'[p].to = v
  BY <1>1, EnterAlone
<1>3. Others(p, Pair(u, v))
  BY <1>2 DEF Others
<1>4. OwnNews' /\ NewsHolds'
  BY <1>2, <1>3, NewsAfter
<1>5. ASSUME NEW i \in Items, Right(i) PROVE Right(i)' \/ WillTell(p, i)'
  <2>1. CASE Pair(i[1], i[3]) = Pair(u, v)
    BY <1>2, <1>5, <2>1 DEF WillTell
  <2>2. CASE Pair(i[1], i[3]) # Pair(u, v)
    BY <1>5, <2>2, RightElsewhere
  <2> QED
    BY <2>1, <2>2
<1>6. \A i \in Items : ~ WillTell(p, i)
  BY DEF WillTell
<1>7. Believed'
  BY <1>3, <1>5, <1>6, BelievedAfter
<1> QED
  BY <1>4, <1>7

LEMMA ToldSend ==
  ASSUME ToldInv, NEW p \in Handlers, NEW r \in Requests, SendFriendRequest(p, r)
  PROVE  OwnNews' /\ NewsHolds' /\ Believed'
<1> USE DEF ToldInv, RowInv
<1>1. PICK u \in Users, v \in Users : u = From[r] /\ v = To[r]
  BY EndsType
<1>2. PICK news \in Seq(News) : news = ToReceiver(u, v, TRUE)
  BY NewsType
<1>3. Says(news) = {[item |-> <<v, "request", u>>, holds |-> TRUE]}
  BY <1>2, SaysReceiver
<1>4. /\ h[p].at = "idle" /\ Enter(p, u, v, Telling(news))
      /\ status'[r] = "pending" /\ \A q \in Requests \ {r} : status'[q] = status[q]
      /\ UNCHANGED <<friends, told, garbled>>
  BY <1>1, <1>2 DEF SendFriendRequest, TypeOK
<1>5. Elsewhere(Pair(u, v))
  BY <1>1, <1>4 DEF Elsewhere, PairOf
<1>6. ASSUME NEW n \in Says(news)
      PROVE  Pair(n.item[1], n.item[3]) = Pair(u, v) /\ Correct(n)'
  BY <1>3, <1>6, PairSym DEF Correct
<1>7. ASSUME NEW i \in Items, Right(i) PROVE Right(i)' \/ \E n \in Says(news) : n.item = i
  <2>1. CASE i = <<v, "request", u>>
    BY <1>3, <2>1
  <2>2. CASE i # <<v, "request", u>>
    <3>1. PICK a \in Users, k \in {"friend", "request"}, b \in Users : i = <<a, k, b>>
      BY DEF Items
    <3>2. k = "request" => (Pending(b, a)' => Pending(b, a))
      BY <1>1, <1>4, <2>2, <3>1 DEF Pending
    <3> QED
      BY <1>4, <1>7, <3>1, <3>2 DEF Right
  <2> QED
    BY <2>1, <2>2
<1> QED
  BY <1>4, <1>5, <1>6, <1>7, ToldEnter

LEMMA ToldAccept ==
  ASSUME ToldInv, NEW p \in Handlers, NEW r \in Requests, Accept(p, r)
  PROVE  OwnNews' /\ NewsHolds' /\ Believed'
<1> USE DEF ToldInv, RowInv
<1>1. PICK u \in Users, v \in Users : u = From[r] /\ v = To[r]
  BY EndsType
<1>2. PICK news \in Seq(News) : news = ToBoth(u, v, TRUE)
  BY NewsType
<1>3. Says(news) = {[item |-> <<u, "friend", v>>, holds |-> TRUE],
                    [item |-> <<v, "friend", u>>, holds |-> TRUE]}
  BY <1>2, SaysBoth
<1>4. /\ h[p].at = "idle" /\ Enter(p, u, v, Telling(news))
      /\ status'[r] = "accepted" /\ \A q \in Requests \ {r} : status'[q] = status[q]
      /\ friends' = friends \union {Pair(u, v)}
      /\ UNCHANGED <<told, garbled>>
  BY <1>1, <1>2 DEF Accept, TypeOK
<1>5. Elsewhere(Pair(u, v))
  BY <1>1, <1>4 DEF Elsewhere, PairOf
<1>6. ASSUME NEW n \in Says(news)
      PROVE  Pair(n.item[1], n.item[3]) = Pair(u, v) /\ Correct(n)'
  BY <1>3, <1>4, <1>6, PairSym DEF Correct
<1>7. ASSUME NEW i \in Items, Pair(i[1], i[3]) = Pair(u, v), Right(i)
      PROVE  Right(i)' \/ \E n \in Says(news) : n.item = i
  <2>1. PICK a \in Users, k \in {"friend", "request"}, b \in Users : i = <<a, k, b>>
    BY DEF Items
  <2>2. CASE k = "friend"
    <3>1. (a = u /\ b = v) \/ (a = v /\ b = u)
      BY <1>7, <2>1 DEF Pair
    <3> QED
      BY <1>3, <2>1, <2>2, <3>1
  <2>3. CASE k = "request"
    <3>1. Pending(b, a)' => Pending(b, a)
      BY <1>4 DEF Pending
    <3> QED
      BY <1>4, <1>7, <2>1, <2>3, <3>1 DEF Right
  <2> QED
    BY <2>2, <2>3
<1> QED
  BY <1>4, <1>5, <1>6, <1>7, ToldEnter

LEMMA ToldDelete ==
  ASSUME ToldInv, NEW p \in Handlers, NEW u \in Users, NEW v \in Users, DeleteFriend(p, u, v)
  PROVE  OwnNews' /\ NewsHolds' /\ Believed'
<1> USE DEF ToldInv, RowInv
<1>2. PICK news \in Seq(News) : news = ToBoth(u, v, FALSE)
  BY NewsType
<1>3. Says(news) = {[item |-> <<u, "friend", v>>, holds |-> FALSE],
                    [item |-> <<v, "friend", u>>, holds |-> FALSE]}
  BY <1>2, SaysBoth
<1>4. /\ h[p].at = "idle" /\ Enter(p, u, v, Telling(news))
      /\ friends' = friends \ {Pair(u, v)}
      /\ UNCHANGED <<status, told, garbled>>
  BY <1>2 DEF DeleteFriend
<1>5. Elsewhere(Pair(u, v))
  BY <1>4 DEF Elsewhere
<1>6. ASSUME NEW n \in Says(news)
      PROVE  Pair(n.item[1], n.item[3]) = Pair(u, v) /\ Correct(n)'
  BY <1>3, <1>4, <1>6, PairSym DEF Correct
<1>7. ASSUME NEW i \in Items, Pair(i[1], i[3]) = Pair(u, v), Right(i)
      PROVE  Right(i)' \/ \E n \in Says(news) : n.item = i
  <2>1. PICK a \in Users, k \in {"friend", "request"}, b \in Users : i = <<a, k, b>>
    BY DEF Items
  <2>2. CASE k = "friend"
    <3>1. (a = u /\ b = v) \/ (a = v /\ b = u)
      BY <1>7, <2>1 DEF Pair
    <3> QED
      BY <1>3, <2>1, <2>2, <3>1
  <2>3. CASE k = "request"
    BY <1>4, <1>7, <2>1, <2>3 DEF Right, Pending
  <2> QED
    BY <2>2, <2>3
<1> QED
  BY <1>4, <1>5, <1>6, <1>7, ToldEnter

\* DeclineLook, CancelLook: p enters and knows no news.
LEMMA ToldLook ==
  ASSUME ToldInv, NEW p \in Handlers, NEW r \in Requests, DeclineLook(p, r) \/ CancelLook(p, r)
  PROVE  OwnNews' /\ NewsHolds' /\ Believed'
<1> USE DEF ToldInv, RowInv
<1>1. PICK at \in {"decline", "cancel"} : Enter(p, From[r], To[r], At(at, r))
  BY DEF DeclineLook, CancelLook
<1>2. /\ At(at, r) \in HandlerState /\ At(at, r).at = at /\ h[p].at = "idle"
      /\ UNCHANGED <<friends, status, told, garbled>>
  BY FirstType DEF DeclineLook, CancelLook, history
<1>3. /\ \A q \in Handlers \ {p} : h'[q].at # "idle" /\ h'[q].alone =>
            h'[q] = h[q] /\ WorksOn(h[q]) # PairOf(r)
      /\ \A q \in Handlers \ {p} : h'[q].at = h[q].at /\ h'[q].news = h[q].news
                                   /\ h'[q].from = h[q].from /\ h'[q].to = h[q].to
      /\ h'[p].at = at
  BY <1>1, <1>2, EnterAlone DEF PairOf
<1>4. Others(p, PairOf(r)) /\ Elsewhere(PairOf(r))
  BY <1>2, <1>3 DEF Others, Elsewhere
<1>5. OwnNews' /\ NewsHolds'
  BY <1>3, <1>4, NewsAfter
<1>6. \A i \in Items : ~ WillTell(p, i) /\ (Right(i) => Right(i)')
  BY <1>2 DEF WillTell, Right, Pending
<1>7. Believed'
  BY <1>2, <1>4, <1>6, BelievedAfter
<1> QED
  BY <1>5, <1>7

\* A later step of p leaves the others alone on their pairs.
LEMMA Proceeds ==
  ASSUME RowInv, NEW p \in Handlers, NEW next, h[p].at # "idle", h' = [h EXCEPT ![p] = next]
  PROVE  Others(p, WorksOn(h[p])) /\ h'[p] = next
<1>1. h'[p] = next /\ \A q \in Handlers \ {p} : h'[q] = h[q]
  BY DEF RowInv, TypeOK
<1> QED
  BY <1>1 DEF Others, AloneIsAlone, RowInv

\* DeclineWrite and CancelWrite take a request away at most.
LEMMA ToldWrite ==
  ASSUME ToldInv, NEW p \in Handlers, DeclineWrite(p) \/ CancelWrite(p)
  PROVE  OwnNews' /\ NewsHolds' /\ Believed'
<1> USE DEF ToldInv, RowInv
<1>1. PICK r \in Requests : r = h[p].request /\ h[p].from = From[r] /\ h[p].to = To[r]
  BY DEF TypeOK, DeclineWrite, CancelWrite, Directed
<1>2. PICK u \in Users, v \in Users : u = From[r] /\ v = To[r]
  BY EndsType
<1>3. PICK P : P = Pair(u, v)
  OBVIOUS
<1>4. h[p].at \in {"decline", "cancel"} /\ WorksOn(h[p]) = P
  BY <1>1, <1>2, <1>3 DEF DeclineWrite, CancelWrite, WorksOn
<1>5. /\ \A q \in Requests \ {r} : status'[q] = status[q]
      /\ status'[r] # "pending" /\ UNCHANGED <<friends, told, garbled>>
  BY <1>1 DEF TypeOK, DeclineWrite, CancelWrite, Stored
<1>6. Elsewhere(P)
  BY <1>2, <1>3, <1>5 DEF Elsewhere, PairOf
<1>7. \A i \in Items : ~ WillTell(p, i) /\ (Right(i) => Right(i)')
  BY <1>4, <1>5 DEF WillTell, Right, Pending
<1>8. Others(p, P)
  BY <1>4, Proceeds DEF DeclineWrite, CancelWrite
<1>9. Believed'
  BY <1>5, <1>7, <1>8, BelievedAfter
<1>10. CASE DeclineWrite(p)
  <2>1. h'[p].at = "idle"
    BY <1>10 DEF DeclineWrite, TypeOK, Idle
  <2> QED
    BY <1>6, <1>8, <1>9, <2>1, NewsAfter
<1>11. CASE CancelWrite(p)
  <2>1. PICK news \in Seq(News) : news = ToReceiver(u, v, FALSE)
    BY NewsType
  <2>2. Says(news) = {[item |-> <<v, "request", u>>, holds |-> FALSE]}
    BY <2>1, SaysReceiver
  <2>3. /\ h'[p].at = "tell" /\ h'[p].news = news
        /\ h'[p].from = u /\ h'[p].to = v /\ h'[p].alone = h[p].alone
    <3>1. h' = [h EXCEPT ![p] = [h[p] EXCEPT !.at = "tell", !.news = news]]
      BY <1>1, <1>2, <1>11, <2>1 DEF CancelWrite
    <3> QED
      BY <1>1, <1>2, <3>1 DEF TypeOK, HandlerState
  <2>4. h[p].alone => ~ Pending(u, v)'
    <3> SUFFICES ASSUME h[p].alone PROVE ~ Pending(u, v)'
      OBVIOUS
    <3>1. status[r] = "pending"
      BY <1>1, <1>4 DEF LookHolds
    <3>2. \A q \in Requests : status[q] = "pending" /\ From[q] = u /\ To[q] = v => q = r
      BY <1>2, <3>1 DEF OneRow, Stored
    <3> QED
      BY <1>5, <3>2 DEF Pending
  <2>5. ASSUME NEW n \in Says(news)
        PROVE  Pair(n.item[1], n.item[3]) = Pair(u, v) /\ (h[p].alone => Correct(n)')
    BY <2>2, <2>4, <2>5, PairSym DEF Correct
  <2> QED
    BY <1>6, <1>8, <1>9, <2>3, <2>5, NewsAfter
<1> QED
  BY <1>10, <1>11

LEMMA ToldTell ==
  ASSUME ToldInv, NEW p \in Handlers, Tell(p)
  PROVE  OwnNews' /\ NewsHolds' /\ Believed'
<1> USE DEF ToldInv, RowInv
<1>1. PICK s \in Seq(News) : s = h[p].news /\ s # <<>>
  BY DEF Tell, TypeOK, HandlerState, Directed, News
<1>2. PICK n \in News : n = Head(s)
  BY <1>1
<1>3. Says(s) = {n} \union Says(Tail(s)) /\ Tail(s) \in Seq(News)
  BY <1>1, <1>2, SaysTail, HeadTailProperties
<1>4. PICK ok \in BOOLEAN :
        /\ told' = IF ~ok THEN told ELSE IF n.holds THEN told \union {n.item} ELSE told \ {n.item}
        /\ garbled' = IF ok /\ h[p].alone THEN garbled \ {n.item} ELSE garbled \union {n.item}
  BY <1>1, <1>2 DEF Tell
<1>5. h[p].at = "tell" /\ UNCHANGED <<friends, status>>
  BY DEF Tell
<1>6. PICK P : P = WorksOn(h[p])
  OBVIOUS
<1>7. Others(p, P) /\ Elsewhere(P)
  BY <1>5, <1>6, Proceeds DEF Tell, Elsewhere
<1>8. \/ h'[p].at = "idle" /\ Says(Tail(s)) = {}
      \/ /\ h'[p].at = "tell" /\ h'[p].news = Tail(s)
         /\ h'[p].from = h[p].from /\ h'[p].to = h[p].to /\ h'[p].alone = h[p].alone
  <2>1. CASE Tail(s) = <<>>
    BY <1>1, <2>1 DEF Tell, TypeOK, Idle, Says
  <2>2. CASE Tail(s) # <<>>
    <3>1. h' = [h EXCEPT ![p] = [h[p] EXCEPT !.news = Tail(s)]]
      BY <1>1, <2>2 DEF Tell
    <3> QED
      BY <1>5, <3>1 DEF TypeOK, HandlerState
  <2> QED
    BY <2>1, <2>2
<1>9. \A m \in Says(s) : /\ Pair(m.item[1], m.item[3]) = P
                         /\ h[p].alone => Correct(m)
  BY <1>1, <1>5, <1>6 DEF OwnNews, NewsHolds
<1>10. \A m : Correct(m) => Correct(m)'
  BY <1>5 DEF Correct, Pending
<1>11. OwnNews' /\ NewsHolds'
  BY <1>3, <1>6, <1>7, <1>8, <1>9, <1>10, NewsAfter DEF WorksOn
<1>12. \A i \in Items \ {n.item} : /\ Right(i) => Right(i)'
                                   /\ i \in garbled => i \in garbled'
  BY <1>4, <1>5 DEF Right, Pending
<1>13. n.item \in garbled' \/ Right(n.item)'
  <2>1. CASE ok /\ h[p].alone
    <3>1. Correct(n) /\ n.holds \in BOOLEAN
      BY <1>2, <1>3, <1>9, <2>1 DEF News
    <3>2. n.item \in told' <=> n.holds
      BY <1>4, <2>1, <3>1
    <3> QED
      BY <1>5, <3>1, <3>2 DEF Correct, Right, Pending
  <2>2. CASE ~ (ok /\ h[p].alone)
    BY <1>4, <2>2
  <2> QED
    BY <2>1, <2>2
<1>14. \A i \in Items : WillTell(p, i) => i = n.item \/ WillTell(p, i)'
  BY <1>1, <1>3, <1>8 DEF WillTell
<1>15. Believed'
  BY <1>7, <1>12, <1>13, <1>14, BelievedAfter
<1> QED
  BY <1>11, <1>15

LEMMA ToldAbort ==
  ASSUME ToldInv, NEW p \in Handlers, Abort(p)
  PROVE  OwnNews' /\ NewsHolds' /\ Believed'
<1> USE DEF ToldInv, RowInv
<1>1. PICK P : P = WorksOn(h[p])
  OBVIOUS
<1>2. Others(p, P) /\ Elsewhere(P) /\ h'[p].at = "idle"
  <2>1. h[p].at # "idle" /\ h' = [h EXCEPT ![p] = Idle] /\ UNCHANGED <<friends, status>>
    BY DEF Abort
  <2>2. Others(p, P) /\ h'[p] = Idle
    BY <1>1, <2>1, Proceeds
  <2> QED
    BY <2>1, <2>2 DEF Elsewhere, Idle
<1>3. OwnNews' /\ NewsHolds'
  BY <1>2, NewsAfter
<1>4. garbled \subseteq garbled' /\ \A i \in Items : WillTell(p, i) => i \in garbled'
  BY DEF Abort, WillTell, Says
<1>5. \A i \in Items : Right(i) => Right(i)'
  BY DEF Abort, Right, Pending
<1>6. Believed'
  BY <1>2, <1>4, <1>5, BelievedAfter
<1> QED
  BY <1>3, <1>6

LEMMA ToldNext ==
  ASSUME ToldInv, [Next]_vars
  PROVE  ToldInv'
<1>1. RowInv'
  BY RowNext DEF ToldInv
<1>2. CASE UNCHANGED vars
  <2>1. OwnNews' /\ NewsHolds'
    BY <1>2 DEF vars, history, ToldInv, OwnNews, NewsHolds, Correct, Pending, WorksOn
  <2>2. Believed'
    BY <1>2 DEF vars, history, ToldInv, Believed, Right, Pending, WillTell
  <2> QED
    BY <1>1, <2>1, <2>2 DEF ToldInv
<1>3. CASE Next
  BY <1>1, <1>3, ToldSend, ToldAccept, ToldDelete, ToldLook, ToldWrite, ToldTell, ToldAbort
     DEF Next, ToldInv
<1> QED
  BY <1>2, <1>3

LEMMA ToldInit == Init => ToldInv
<1> SUFFICES ASSUME Init PROVE ToldInv
  OBVIOUS
<1>1. RowInv
  BY RowInit
<1>2. OwnNews /\ NewsHolds
  BY DEF Init, Idle, OwnNews, NewsHolds
<1>3. Believed
  BY DEF Init, Believed, Right, Pending
<1> QED
  BY <1>1, <1>2, <1>3 DEF ToldInv

\* When nobody is at work on a pair, both users were last told what holds, and
\* the receiver knows of the pending request, unless an event was lost or
\* handlers of the pair overlapped.
THEOREM ToldWhatIs == Spec => []ToldWhatHolds
<1>1. ASSUME ToldInv, NEW u \in Users, NEW v \in Users, u # v, Alone(u, v)
      PROVE  /\ <<u, "friend", v>> \notin garbled =>
                  (<<u, "friend", v>> \in told <=> Pair(u, v) \in friends)
             /\ <<u, "request", v>> \notin garbled =>
                  \A r \in Requests : From[r] = v /\ To[r] = u /\ status[r] = "pending" =>
                    <<u, "request", v>> \in told
  <2>1. ASSUME NEW k \in {"friend", "request"}, <<u, k, v>> \notin garbled
        PROVE  Right(<<u, k, v>>)
    <3>1. PICK i \in Items : i = <<u, k, v>>
      BY DEF Items
    <3>2. ASSUME NEW p \in Handlers, WillTell(p, i) PROVE FALSE
      <4>1. h[p].at = "tell" /\ WorksOn(h[p]) = Pair(u, v)
        BY <1>1, <3>1, <3>2 DEF ToldInv, OwnNews, WillTell
      <4> QED
        BY <1>1, <4>1 DEF Alone, AtWork, WorksOn
    <3> QED
      BY <1>1, <2>1, <3>1, <3>2 DEF ToldInv, Believed
  <2> QED
    BY <2>1 DEF Right, Pending
<1>2. ToldInv => ToldWhatHolds
  BY <1>1 DEF ToldWhatHolds
<1> QED
  BY <1>2, ToldInit, ToldNext, PTL DEF Spec

=============================================================================
