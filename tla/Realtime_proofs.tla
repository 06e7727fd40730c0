--------------------------- MODULE Realtime_proofs ---------------------------
(***************************************************************************)
(* What the gateway tells its clients, for any users, sessions, handlers   *)
(* and messages: once nothing is under way a client knows what exists, and *)
(* the lists it starts with leave out nobody, but for the reasons named.   *)
(***************************************************************************)
EXTENDS Realtime, InitClient, TLAPS

-----------------------------------------------------------------------------
(* What a queue of events makes of a client.                               *)

Kinds == {"new", "gone", "clear", "typing"}
Events == [is : Kinds, item : Items \cup {None}]

IsNew(n, i) == n.is = "new" /\ n.item = i
IsGone(n, i) == n.is = "gone" /\ n.item = i

\* After the events of b a client that was last told x of i takes i to exist,
\* or takes it not to.
EndsNew(b, x, i) ==
  \/ \E k \in DOMAIN b : IsNew(b[k], i) /\ \A j \in DOMAIN b : j > k => ~IsGone(b[j], i)
  \/ x = "new" /\ \A j \in DOMAIN b : ~IsGone(b[j], i)

EndsOld(b, x, i) ==
  \/ \E k \in DOMAIN b : IsGone(b[k], i) /\ \A j \in DOMAIN b : j > k => ~IsNew(b[j], i)
  \/ x # "new" /\ \A j \in DOMAIN b : ~IsNew(b[j], i)

\* A new event has the last word; one that is not about i changes nothing.
LEMMA AppendEnds ==
  ASSUME NEW b \in Seq(Events), NEW n \in Events, NEW x, NEW i
  PROVE  /\ IsNew(n, i) => EndsNew(Append(b, n), x, i)
         /\ IsGone(n, i) => EndsOld(Append(b, n), x, i)
         /\ ~IsGone(n, i) /\ EndsNew(b, x, i) => EndsNew(Append(b, n), x, i)
         /\ ~IsNew(n, i) /\ EndsOld(b, x, i) => EndsOld(Append(b, n), x, i)
<1>1. PICK c : c = Append(b, n)
  OBVIOUS
<1>2. /\ Len(b) \in Nat /\ DOMAIN b = 1..Len(b) /\ DOMAIN c = 1..(Len(b) + 1)
      /\ c[Len(b) + 1] = n /\ \A k \in 1..Len(b) : c[k] = b[k]
  BY <1>1
<1>3. IsNew(n, i) => EndsNew(c, x, i)
  BY <1>2 DEF EndsNew
<1>4. IsGone(n, i) => EndsOld(c, x, i)
  BY <1>2 DEF EndsOld
<1>5. \A k \in DOMAIN c : k = Len(b) + 1 \/ k \in DOMAIN b
  BY <1>2
<1>6. ASSUME ~IsGone(n, i), EndsNew(b, x, i) PROVE EndsNew(c, x, i)
  <2>1. CASE \E k \in DOMAIN b : IsNew(b[k], i) /\ \A j \in DOMAIN b : j > k => ~IsGone(b[j], i)
    <3>1. PICK k \in DOMAIN b : IsNew(b[k], i) /\ \A j \in DOMAIN b : j > k => ~IsGone(b[j], i)
      BY <2>1
    <3>2. IsNew(c[k], i) /\ k \in DOMAIN c
      BY <1>2, <3>1
    <3>3. \A j \in DOMAIN c : j > k => ~IsGone(c[j], i)
      BY <1>2, <1>5, <1>6, <3>1
    <3> QED
      BY <3>2, <3>3 DEF EndsNew
  <2>2. CASE x = "new" /\ \A j \in DOMAIN b : ~IsGone(b[j], i)
    BY <1>2, <1>5, <1>6, <2>2 DEF EndsNew
  <2> QED
    BY <1>6, <2>1, <2>2 DEF EndsNew
<1>7. ASSUME ~IsNew(n, i), EndsOld(b, x, i) PROVE EndsOld(c, x, i)
  <2>1. CASE \E k \in DOMAIN b : IsGone(b[k], i) /\ \A j \in DOMAIN b : j > k => ~IsNew(b[j], i)
    <3>1. PICK k \in DOMAIN b : IsGone(b[k], i) /\ \A j \in DOMAIN b : j > k => ~IsNew(b[j], i)
      BY <2>1
    <3>2. IsGone(c[k], i) /\ k \in DOMAIN c
      BY <1>2, <3>1
    <3>3. \A j \in DOMAIN c : j > k => ~IsNew(c[j], i)
      BY <1>2, <1>5, <1>7, <3>1
    <3> QED
      BY <3>2, <3>3 DEF EndsOld
  <2>2. CASE x # "new" /\ \A j \in DOMAIN b : ~IsNew(b[j], i)
    BY <1>2, <1>5, <1>7, <2>2 DEF EndsOld
  <2> QED
    BY <1>7, <2>1, <2>2 DEF EndsOld
<1> QED
  BY <1>1, <1>3, <1>4, <1>6, <1>7

\* What a client makes of the first event leaves the last word where it was.
LEMMA TailEnds ==
  ASSUME NEW b \in Seq(Events), b # <<>>, NEW t \in [Items -> {"none", "new", "gone"}],
         NEW i \in Items, i \in Messages => Head(b).is # "clear"
  PROVE  /\ EndsNew(b, t[i], i) => EndsNew(Tail(b), Apply(Head(b), t)[i], i)
         /\ EndsOld(b, t[i], i) => EndsOld(Tail(b), Apply(Head(b), t)[i], i)
<1>1. PICK c, n, y : c = Tail(b) /\ n = Head(b) /\ y = Apply(n, t)[i]
  OBVIOUS
<1>2. /\ n \in Events /\ n = b[1] /\ Len(b) \in Nat \ {0} /\ DOMAIN b = 1..Len(b)
      /\ DOMAIN c = 1..(Len(b) - 1) /\ \A k \in DOMAIN c : c[k] = b[k + 1]
  BY <1>1
<1>3. \A k \in DOMAIN b : k = 1 \/ (k - 1 \in DOMAIN c /\ c[k - 1] = b[k])
  BY <1>2
<1>4. \A k \in DOMAIN c : k \in Nat /\ k + 1 \in DOMAIN b /\ k + 1 > 1
  BY <1>2
<1>5. /\ IsNew(n, i) => y = "new"
      /\ IsGone(n, i) => y # "new"
      /\ ~IsNew(n, i) /\ ~IsGone(n, i) => y = t[i]
  <2>1. n.is \in Kinds
    BY <1>2 DEF Events
  <2>2. CASE n.is = "new"
    BY <1>1, <2>2 DEF Apply, IsNew, IsGone
  <2>3. CASE n.is = "gone"
    BY <1>1, <2>3 DEF Apply, IsNew, IsGone
  <2>4. CASE n.is = "clear"
    BY <1>1, <2>4 DEF Apply, IsNew, IsGone
  <2>5. CASE n.is = "typing"
    BY <1>1, <2>5 DEF Apply, IsNew, IsGone
  <2> QED
    BY <2>1, <2>2, <2>3, <2>4, <2>5 DEF Kinds
<1>6. ~(IsNew(n, i) /\ IsGone(n, i))
  BY DEF IsNew, IsGone
<1>7. ASSUME EndsNew(b, t[i], i) PROVE EndsNew(c, y, i)
  <2>1. CASE \E k \in DOMAIN b : IsNew(b[k], i) /\ \A j \in DOMAIN b : j > k => ~IsGone(b[j], i)
    <3>1. PICK k \in DOMAIN b : IsNew(b[k], i) /\ \A j \in DOMAIN b : j > k => ~IsGone(b[j], i)
      BY <2>1
    <3>2. CASE k = 1
      <4>1. y = "new" /\ \A j \in DOMAIN c : ~IsGone(c[j], i)
        BY <1>2, <1>4, <1>5, <3>1, <3>2
      <4> QED
        BY <4>1 DEF EndsNew
    <3>3. CASE k # 1
      <4>1. k - 1 \in DOMAIN c /\ IsNew(c[k - 1], i)
        BY <1>3, <3>1, <3>3
      <4>2. \A j \in DOMAIN c : j > k - 1 => ~IsGone(c[j], i)
        BY <1>2, <1>4, <3>1
      <4> QED
        BY <4>1, <4>2 DEF EndsNew
    <3> QED
      BY <3>2, <3>3
  <2>2. CASE t[i] = "new" /\ \A j \in DOMAIN b : ~IsGone(b[j], i)
    <3>1. y = "new" /\ \A j \in DOMAIN c : ~IsGone(c[j], i)
      BY <1>2, <1>4, <1>5, <2>2
    <3> QED
      BY <3>1 DEF EndsNew
  <2> QED
    BY <1>7, <2>1, <2>2 DEF EndsNew
<1>8. ASSUME EndsOld(b, t[i], i) PROVE EndsOld(c, y, i)
  <2>1. CASE \E k \in DOMAIN b : IsGone(b[k], i) /\ \A j \in DOMAIN b : j > k => ~IsNew(b[j], i)
    <3>1. PICK k \in DOMAIN b : IsGone(b[k], i) /\ \A j \in DOMAIN b : j > k => ~IsNew(b[j], i)
      BY <2>1
    <3>2. CASE k = 1
      <4>1. y # "new" /\ \A j \in DOMAIN c : ~IsNew(c[j], i)
        BY <1>2, <1>4, <1>5, <3>1, <3>2
      <4> QED
        BY <4>1 DEF EndsOld
    <3>3. CASE k # 1
      <4>1. k - 1 \in DOMAIN c /\ IsGone(c[k - 1], i)
        BY <1>3, <3>1, <3>3
      <4>2. \A j \in DOMAIN c : j > k - 1 => ~IsNew(c[j], i)
        BY <1>2, <1>4, <3>1
      <4> QED
        BY <4>1, <4>2 DEF EndsOld
    <3> QED
      BY <3>2, <3>3
  <2>2. CASE t[i] # "new" /\ \A j \in DOMAIN b : ~IsNew(b[j], i)
    <3>1. y # "new" /\ \A j \in DOMAIN c : ~IsNew(c[j], i)
      BY <1>2, <1>4, <1>5, <2>2
    <3> QED
      BY <3>1 DEF EndsOld
  <2> QED
    BY <1>8, <2>1, <2>2 DEF EndsOld
<1> QED
  BY <1>1, <1>7, <1>8

-----------------------------------------------------------------------------
(* The inductive invariant.                                                *)

SesRecords ==
  [conn : {"none", "open", "broken", "closed"}, sub : {"none", "asked", "live", "closed"},
   reader : {"none", "reading", "ended"}, writer : {"none", "waiting", "ended"},
   inbox : Seq(Events)]

RtTypeOK ==
  /\ spent \subseteq Items
  /\ ses \in [Sessions -> SesRecords]
  /\ told \in [Sessions -> [Items -> {"none", "new", "gone"}]]

Begins == {"message", "create", "invite"}
Stops == {"delete", "drop", "hangup"}

JobRecords ==
  [at : {"idle", "store", "look", "remove", "publish"},
   doing : Begins \cup Stops \cup {"typing", "clear", "nothing", "done"},
   item : Items \cup {None}, to : SUBSET Members]

\* What handler p can be doing, and to what.
RightJob(p, r) ==
  /\ r \in JobRecords
  /\ \/ r.at = "idle" /\ r.doing \in {"nothing", "done"} /\ r.item = None
     \/ /\ r.doing = "message" /\ p \in Sessions /\ r.item \in Messages
        /\ r.at \in {"store", "look", "publish"}
     \/ r.doing = "typing" /\ r.item = None /\ r.at \in {"look", "publish"}
     \/ r.doing \in {"invite", "hangup"} /\ p \in Of(Caller) /\ r.item = Ring
        /\ r.at \in {"look", "publish"}
     \/ r.doing = "delete" /\ r.item \in Messages /\ r.at \in {"look", "publish"}
     \/ r.doing = "create" /\ r.item = Chat /\ r.at = "publish"
     \/ r.doing \in {"drop", "clear"} /\ r.item = Chat /\ r.at \in {"remove", "publish"}

Job ==
  /\ h \in [Handlers -> JobRecords]
  /\ \A p \in Handlers : RightJob(p, h[p]) /\ h[p].item \in spent \cup {None}

\* A session that has heard nothing yet.
Fresh ==
  \A s \in Sessions :
    /\ ses[s].conn = "none" => ses[s] = Closed
    /\ ses[s].conn = "none" \/ ses[s].sub = "asked" =>
         ses[s].inbox = <<>> /\ \A i \in Items : told[s][i] # "new"

Unstored(i) == \E p \in Handlers : h[p].at = "store" /\ h[p].item = i

\* The item existed, or was refused, and will not exist again.
Over(i) == i \in spent /\ i \notin holds /\ ~Unstored(i)

\* An id is used once, and whoever announces an end does so after it.
OnceOnly ==
  /\ holds \subseteq spent
  /\ \A p, q \in Handlers :
       h[p].doing = "message" /\ h[q].doing = "message" /\ h[p].item = h[q].item => p = q
  /\ \A p \in Handlers : h[p].at = "store" => h[p].item \notin holds
  /\ \A p \in Handlers :
       h[p].doing = "delete" \/ (h[p].doing = "drop" /\ h[p].at = "publish") => Over(h[p].item)
  /\ \A u, i : <<u, i>> \in announced => i # Ring /\ Over(i)

\* Handlers of one call at a time, unless the session is excused.
RingMatch ==
  \A s \in Sessions : ses[s].sub = "live" /\ <<s, Ring>> \notin excused =>
    /\ \A p \in Handlers : h[p].item = Ring =>
         (h[p].doing = "invite" /\ Ring \in holds) \/ (h[p].doing = "hangup" /\ Ring \notin holds)
    /\ Ring \in spent => UserOf[s] # Caller

NoClear ==
  \A s \in Sessions, i \in Messages : ses[s].sub = "live" /\ <<s, i>> \notin excused =>
    \A k \in DOMAIN ses[s].inbox : ses[s].inbox[k].is # "clear"

\* Handler p will publish its event to u, unless it fails.
Owes(p, u) == h[p].at = "look" \/ (h[p].at = "publish" /\ u \in h[p].to)

OwedNew(u, i) == \E p \in Handlers : h[p].item = i /\ h[p].doing \in Begins /\ Owes(p, u)
OwedGone(u, i) == \E p \in Handlers : h[p].item = i /\ h[p].doing \in Stops /\ Owes(p, u)

\* An end that was not announced to the user is owed.
EndOwed(s, i) ==
  i # Ring /\ Over(i) /\ <<UserOf[s], i>> \notin announced => OwedGone(UserOf[s], i)

\* The last word on the item, heard or still owed, is right.
LastWord(s, i) ==
  /\ i \in holds => EndsNew(ses[s].inbox, told[s][i], i) \/ OwedNew(UserOf[s], i)
  /\ i \notin holds => EndsOld(ses[s].inbox, told[s][i], i) \/ OwedGone(UserOf[s], i)

Served(s, i) == EndOwed(s, i) /\ (ses[s].conn = "open" => LastWord(s, i))

AllServed ==
  \A s \in Sessions, i \in Items :
    ses[s].sub = "live" /\ <<s, i>> \notin excused => Served(s, i)

RtInv == RtTypeOK /\ Job /\ Fresh /\ OnceOnly /\ RingMatch /\ NoClear /\ AllServed

LEMMA ItemFacts ==
  /\ Chat \in Items /\ Ring \in Items /\ Messages \subseteq Items
  /\ Chat # Ring /\ Chat \notin Messages /\ Ring \notin Messages
  /\ None \notin Items /\ None # Chat /\ None # Ring /\ None \notin Messages
BY ItemsDiffer DEF Items

LEMMA IdleJobs ==
  ASSUME NEW p
  PROVE  /\ RightJob(p, Idle) /\ RightJob(p, Ended(p))
         /\ Idle.at = "idle" /\ Idle.item = None /\ Idle.doing = "nothing"
         /\ Ended(p).at = "idle" /\ Ended(p).item = None /\ Ended(p).doing \in {"nothing", "done"}
<1>1. Idle = [at |-> "idle", doing |-> "nothing", item |-> None, to |-> {}]
  BY DEF Idle
<1>2. Ended(p) \in {Idle, [at |-> "idle", doing |-> "done", item |-> None, to |-> {}]}
  BY DEF Ended, Idle
<1> QED
  BY <1>1, <1>2 DEF RightJob, JobRecords, Begins, Stops

\* A handler goes on, and the others stay where they are.
LEMMA Turn ==
  ASSUME Job, NEW p \in Handlers, NEW r, RightJob(p, r), r.item \in spent' \cup {None},
         h' = [h EXCEPT ![p] = r], spent \subseteq spent'
  PROVE  Job' /\ h'[p] = r /\ \A q \in Handlers : q # p => h'[q] = h[q]
<1>1. h'[p] = r /\ \A q \in Handlers : q # p => h'[q] = h[q]
  BY DEF Job
<1>2. h' \in [Handlers -> JobRecords]
  BY DEF Job, RightJob
<1>3. ASSUME NEW q \in Handlers PROVE RightJob(q, h'[q]) /\ h'[q].item \in spent' \cup {None}
  BY <1>1 DEF Job
<1>4. Job'
  BY <1>2, <1>3 DEF Job
<1> QED
  BY <1>1, <1>4

LEMMA StaysOwed ==
  ASSUME NEW p \in Handlers, NEW u, NEW i,
         \A q \in Handlers : q # p => h'[q] = h[q],
         h[p].item = i /\ Owes(p, u) /\ h[p].doing \in Begins \cup Stops =>
           h'[p].item = i /\ h'[p].doing = h[p].doing /\ h'[p].at = "publish" /\ u \in h'[p].to
  PROVE  (OwedNew(u, i) => OwedNew(u, i)') /\ (OwedGone(u, i) => OwedGone(u, i)')
<1>1. ASSUME NEW q \in Handlers, h[q].item = i, Owes(q, u), h[q].doing \in Begins \cup Stops
      PROVE  h'[q].item = i /\ h'[q].doing = h[q].doing /\ Owes(q, u)'
  BY <1>1 DEF Owes
<1>2. ASSUME OwedNew(u, i) PROVE OwedNew(u, i)'
  <2>1. PICK q \in Handlers : h[q].item = i /\ h[q].doing \in Begins /\ Owes(q, u)
    BY <1>2 DEF OwedNew
  <2>2. h'[q].item = i /\ h'[q].doing = h[q].doing /\ Owes(q, u)'
    BY <1>1, <2>1
  <2> QED
    BY <2>1, <2>2 DEF OwedNew
<1>3. ASSUME OwedGone(u, i) PROVE OwedGone(u, i)'
  <2>1. PICK q \in Handlers : h[q].item = i /\ h[q].doing \in Stops /\ Owes(q, u)
    BY <1>3 DEF OwedGone
  <2>2. h'[q].item = i /\ h'[q].doing = h[q].doing /\ Owes(q, u)'
    BY <1>1, <2>1
  <2> QED
    BY <2>1, <2>2 DEF OwedGone
<1> QED
  BY <1>2, <1>3

LEMMA StaysServed ==
  ASSUME NEW s \in Sessions, NEW i \in Items, Served(s, i),
         ses'[s].inbox = ses[s].inbox, told'[s] = told[s],
         ses'[s].conn = "open" => ses[s].conn = "open",
         i \in holds' <=> i \in holds, Over(i)' => Over(i), announced \subseteq announced',
         OwedNew(UserOf[s], i) => OwedNew(UserOf[s], i)',
         OwedGone(UserOf[s], i) => OwedGone(UserOf[s], i)'
  PROVE  Served(s, i)'
<1>1. EndOwed(s, i)'
  BY DEF Served, EndOwed
<1>2. ASSUME ses'[s].conn = "open" PROVE LastWord(s, i)'
  <2>1. LastWord(s, i)
    BY <1>2 DEF Served
  <2> QED
    BY <2>1 DEF LastWord
<1> QED
  BY <1>1, <1>2 DEF Served

\* What a step of a handler leaves to show.
LEMMA StepInv ==
  ASSUME RtInv, NEW p \in Handlers, NEW r, RightJob(p, r), r.item \in spent' \cup {None},
         h' = [h EXCEPT ![p] = r], spent \subseteq spent', spent' \subseteq Items,
         UNCHANGED <<ses, told>>,
         \A s, i : i # Ring /\ <<s, i>> \in excused => <<s, i>> \in excused',
         OnceOnly', RingMatch', AllServed'
  PROVE  RtInv'
<1>1. Job'
  BY Turn DEF RtInv
<1>2. RtTypeOK' /\ Fresh'
  BY DEF RtInv, RtTypeOK, Fresh
<1>3. NoClear'
  BY ItemFacts DEF RtInv, NoClear
<1> QED
  BY <1>1, <1>2, <1>3 DEF RtInv

\* The invariant of calls does not mind what other handlers do.
LEMMA StaysMatched ==
  ASSUME RtInv, NEW p \in Handlers, NEW r, h'[p] = r,
         \A q \in Handlers : q # p => h'[q] = h[q],
         r.item = Ring => h[p].item = Ring /\ r.doing = h[p].doing,
         Ring \in spent' <=> Ring \in spent, Ring \in holds' <=> Ring \in holds,
         \A s \in Sessions : ses'[s].sub = "live" => ses[s].sub = "live",
         excused \subseteq excused'
  PROVE  RingMatch'
<1>1. ASSUME NEW s \in Sessions, ses'[s].sub = "live", <<s, Ring>> \notin excused',
             NEW q \in Handlers, h'[q].item = Ring
      PROVE  \/ h'[q].doing = "invite" /\ Ring \in holds'
             \/ h'[q].doing = "hangup" /\ Ring \notin holds'
  <2>1. h[q].item = Ring /\ h'[q].doing = h[q].doing
    BY <1>1
  <2>2. ses[s].sub = "live" /\ <<s, Ring>> \notin excused
    BY <1>1
  <2> QED
    BY <2>1, <2>2 DEF RtInv, RingMatch
<1>2. ASSUME NEW s \in Sessions, ses'[s].sub = "live", <<s, Ring>> \notin excused', Ring \in spent'
      PROVE  UserOf[s] # Caller
  BY <1>2 DEF RtInv, RingMatch
<1> QED
  BY <1>1, <1>2 DEF RingMatch

LEMMA StaysOnce ==
  ASSUME Job, OnceOnly, NEW p \in Handlers, NEW r, h'[p] = r,
         \A q \in Handlers : q # p => h'[q] = h[q],
         holds' \subseteq spent',
         \A u, i : <<u, i>> \in announced' => <<u, i>> \in announced \/ (i # Ring /\ Over(i)'),
         r.doing = "message" =>
           \A q \in Handlers : q # p /\ h[q].doing = "message" => h[q].item # r.item,
         \A i \in holds' : i \in holds \/ \A q \in Handlers : h'[q].at = "store" => h'[q].item # i,
         r.at = "store" => r.item \notin holds',
         r.doing = "delete" \/ (r.doing = "drop" /\ r.at = "publish") => Over(r.item)',
         \A i : i # Ring /\ Over(i) => Over(i)'
  PROVE  OnceOnly'
<1>1. ASSUME NEW q1 \in Handlers, NEW q2 \in Handlers, h'[q1].doing = "message",
             h'[q2].doing = "message", h'[q1].item = h'[q2].item
      PROVE  q1 = q2
  BY <1>1 DEF OnceOnly
<1>2. ASSUME NEW q \in Handlers, h'[q].at = "store" PROVE h'[q].item \notin holds'
  BY <1>2 DEF OnceOnly
<1>3. ASSUME NEW q \in Handlers, h'[q].doing = "delete" \/ (h'[q].doing = "drop" /\ h'[q].at = "publish")
      PROVE  Over(h[q].item)'
  <2>1. PICK j : j = h'[q].item
    OBVIOUS
  <2>2. Over(j)'
    <3>1. CASE q = p
      <4>1. j = r.item /\ Over(r.item)'
        BY <1>3, <2>1, <3>1
      <4> QED
        BY <4>1
    <3>2. CASE q # p
      <4>1. j = h[q].item /\ Over(h[q].item)
        BY <1>3, <2>1, <3>2 DEF OnceOnly
      <4>2. Over(j) /\ j # Ring
        BY <1>3, <3>2, <4>1, ItemFacts DEF Job, RightJob
      <4> QED
        BY <4>2
    <3> QED
      BY <3>1, <3>2
  <2> QED
    BY <2>1, <2>2
<1>4. \A u, i : <<u, i>> \in announced' => i # Ring /\ Over(i)'
  BY DEF OnceOnly
<1> QED
  BY <1>1, <1>2, <1>3, <1>4 DEF OnceOnly

-----------------------------------------------------------------------------
(* The steps of readers.                                                   *)

LEMMA Began ==
  ASSUME Job, NEW p \in Handlers, NEW st, NEW d, NEW i, Begin(p, st, d, i),
         spent \subseteq spent', i \in spent' \cup {None},
         RightJob(p, [at |-> st, doing |-> d, item |-> i, to |-> {}])
  PROVE  \E r : /\ r.at = st /\ r.doing = d /\ r.item = i /\ r.to = {} /\ RightJob(p, r)
                /\ h' = [h EXCEPT ![p] = r] /\ h'[p] = r
                /\ \A q \in Handlers : q # p => h'[q] = h[q]
<1>1. PICK r : r = [at |-> st, doing |-> d, item |-> i, to |-> {}]
  OBVIOUS
<1>2. /\ r.at = st /\ r.doing = d /\ r.item = i /\ r.to = {} /\ RightJob(p, r)
      /\ h' = [h EXCEPT ![p] = r]
  BY <1>1 DEF Begin
<1>3. h'[p] = r /\ \A q \in Handlers : q # p => h'[q] = h[q]
  BY <1>2, Turn
<1> QED
  BY <1>2, <1>3

LEMMA ReadMessageInv ==
  ASSUME RtInv, NEW s \in Sessions, ReadMessage(s)
  PROVE  RtInv'
<1>1. s \in Handlers /\ h[s].at = "idle"
  BY DEF ReadMessage, Reads, Handlers
<1>2. PICK m \in Messages \ spent :
        spent' = spent \cup {m} /\ Begin(s, "store", "message", m)
  BY DEF ReadMessage
<1>3. RightJob(s, [at |-> "store", doing |-> "message", item |-> m, to |-> {}])
  BY <1>2, ItemFacts DEF RightJob, JobRecords, Begins
<1>4. PICK r : /\ r.at = "store" /\ r.doing = "message" /\ r.item = m /\ RightJob(s, r)
               /\ h' = [h EXCEPT ![s] = r] /\ h'[s] = r
               /\ \A q \in Handlers : q # s => h'[q] = h[q]
  BY <1>1, <1>2, <1>3, Began DEF RtInv
<1>5. UNCHANGED <<holds, ses, told, throttled, excused, announced>>
  BY DEF ReadMessage
<1>6. /\ spent \subseteq spent' /\ spent' \subseteq Items
      /\ r.item \in spent' \cup {None}
  BY <1>2, <1>4, ItemFacts DEF RtInv, RtTypeOK
<1>7. \A q \in Handlers : h[q].item # m
  BY <1>2, ItemFacts DEF RtInv, Job
<1>8. ~Over(m) /\ ~Over(m)'
  BY <1>1, <1>2, <1>4 DEF Over, Unstored
<1>9. \A i : Over(i)' <=> Over(i)
  <2>1. \A i : i # m => (Unstored(i)' <=> Unstored(i))
    BY <1>1, <1>4 DEF Unstored
  <2> QED
    BY <1>2, <1>5, <1>8, <2>1 DEF Over
<1>10. OnceOnly'
  <2>1. holds' \subseteq spent' /\ m \notin holds'
    BY <1>2, <1>5 DEF RtInv, OnceOnly
  <2> QED
    BY <1>1, <1>4, <1>5, <1>7, <1>9, <2>1, StaysOnce DEF RtInv
<1>11. RingMatch'
  BY <1>1, <1>2, <1>4, <1>5, ItemFacts, StaysMatched
<1>12. ASSUME NEW q \in Sessions, NEW i \in Items, ses[q].sub = "live", <<q, i>> \notin excused
       PROVE  Served(q, i)'
  <2>1. Served(q, i)
    BY <1>12 DEF RtInv, AllServed
  <2>2. h[s].item = None
    BY <1>1 DEF RtInv, Job, RightJob
  <2>3. /\ OwedNew(UserOf[q], i) => OwedNew(UserOf[q], i)'
        /\ OwedGone(UserOf[q], i) => OwedGone(UserOf[q], i)'
    BY <1>1, <1>4, <2>2, ItemFacts, StaysOwed
  <2> QED
    BY <1>5, <1>9, <2>1, <2>3, StaysServed
<1>13. AllServed'
  BY <1>5, <1>12 DEF AllServed
<1> QED
  BY <1>1, <1>4, <1>5, <1>6, <1>10, <1>11, <1>13, StepInv

\* A step that moves a handler on, or ends it, and changes no row.
LEMMA MoveInv ==
  ASSUME RtInv, NEW p \in Handlers, NEW r, RightJob(p, r), h' = [h EXCEPT ![p] = r],
         UNCHANGED <<holds, spent, ses, told, announced>>, excused \subseteq excused',
         h[p].at # "store", r.at # "store", r.item \in spent \cup {None},
         \/ r.doing \in {"nothing", "done", "typing", "clear", "create"}
         \/ r.doing = "drop" /\ r.at # "publish"
         \/ r.doing = h[p].doing /\ r.item = h[p].item /\ r.doing # "drop",
         \A s \in Sessions :
           /\ ses[s].sub = "live" /\ <<s, h[p].item>> \notin excused' /\ Owes(p, UserOf[s])
           /\ h[p].doing \in Begins \cup Stops
           => /\ r.item = h[p].item /\ r.doing = h[p].doing
              /\ r.at = "publish" /\ UserOf[s] \in r.to
  PROVE  RtInv'
<1>1. h'[p] = r /\ \A q \in Handlers : q # p => h'[q] = h[q]
  BY Turn DEF RtInv
<1>2. \A i : Over(i)' <=> Over(i)
  <2>1. \A i : Unstored(i)' <=> Unstored(i)
    BY <1>1 DEF Unstored
  <2> QED
    BY <2>1 DEF Over
<1>3. OnceOnly'
  <2>1. r.doing = "message" => \A q \in Handlers : q # p /\ h[q].doing = "message" => h[q].item # r.item
    BY DEF RtInv, OnceOnly
  <2>2. ASSUME r.doing = "delete" \/ (r.doing = "drop" /\ r.at = "publish") PROVE Over(r.item)'
    <3>1. r.doing = h[p].doing /\ r.item = h[p].item
      BY <2>2
    <3>2. Over(r.item)
      BY <2>2, <3>1 DEF RtInv, OnceOnly
    <3> QED
      BY <1>2, <3>2
  <2> QED
    BY <1>1, <1>2, <2>1, <2>2, StaysOnce DEF RtInv, OnceOnly
<1>4. RingMatch'
  <2>1. r.item = Ring => h[p].item = Ring /\ r.doing = h[p].doing
    BY ItemFacts DEF RightJob
  <2> QED
    BY <1>1, <2>1, StaysMatched
<1>5. ASSUME NEW s \in Sessions, NEW i \in Items, ses[s].sub = "live", <<s, i>> \notin excused'
      PROVE  Served(s, i)'
  <2>1. Served(s, i)
    BY <1>5 DEF RtInv, AllServed
  <2>2. /\ OwedNew(UserOf[s], i) => OwedNew(UserOf[s], i)'
        /\ OwedGone(UserOf[s], i) => OwedGone(UserOf[s], i)'
    BY <1>1, <1>5, StaysOwed
  <2> QED
    BY <1>2, <2>1, <2>2, StaysServed
<1>6. AllServed'
  BY <1>5 DEF AllServed
<1>7. spent \subseteq Items
  BY DEF RtInv, RtTypeOK
<1> QED
  BY <1>3, <1>4, <1>6, <1>7, StepInv

LEMMA ReadTypingInv ==
  ASSUME RtInv, NEW s \in Sessions, ReadTyping(s)
  PROVE  RtInv'
<1>1. s \in Handlers /\ h[s].at = "idle" /\ Begin(s, "look", "typing", None)
  BY DEF ReadTyping, Reads, Handlers
<1>2. UNCHANGED <<holds, spent, ses, told, throttled, excused, announced>>
  BY DEF ReadTyping
<1>3. RightJob(s, [at |-> "look", doing |-> "typing", item |-> None, to |-> {}])
  BY ItemFacts DEF RightJob, JobRecords, Begins, Stops
<1>4. PICK r : /\ r.at = "look" /\ r.doing = "typing" /\ r.item = None /\ RightJob(s, r)
               /\ h' = [h EXCEPT ![s] = r]
  BY <1>1, <1>2, <1>3, Began DEF RtInv
<1>5. \A q \in Sessions : ~Owes(s, UserOf[q])
  BY <1>1 DEF Owes
<1> QED
  BY <1>1, <1>2, <1>4, <1>5, MoveInv

\* Whoever may hear of a call twice, or another way round, is excused.
LEMMA ReadCallInv ==
  ASSUME RtInv, NEW s \in Sessions, NEW d \in {"invite", "hangup"}, ReadCall(s, d)
  PROVE  RtInv'
<1>1. /\ s \in Handlers /\ h[s].at = "idle" /\ Begin(s, "look", d, Ring) /\ s \in Of(Caller)
      /\ holds' = (IF d = "invite" THEN holds \cup {Ring} ELSE holds \ {Ring})
      /\ spent' = spent \cup {Ring}
      /\ UNCHANGED <<ses, told, throttled, announced>>
  BY DEF ReadCall, Reads, Handlers, Of
<1>2. RightJob(s, [at |-> "look", doing |-> d, item |-> Ring, to |-> {}])
  BY <1>1, ItemFacts DEF RightJob, JobRecords, Begins, Stops
<1>3. PICK r : /\ r.at = "look" /\ r.doing = d /\ r.item = Ring /\ RightJob(s, r)
               /\ h' = [h EXCEPT ![s] = r] /\ h'[s] = r
               /\ \A q \in Handlers : q # s => h'[q] = h[q]
  BY <1>1, <1>2, Began DEF RtInv
<1>4. /\ \A q, i : i # Ring => (<<q, i>> \in excused' <=> <<q, i>> \in excused)
      /\ \A q \in Sessions : ses[q].sub = "live" /\ <<q, Ring>> \notin excused' =>
           UserOf[q] # Caller /\ \A p \in Of(Caller) : p # s => h[p].item # Ring
  <2>1. PICK old, lost :
          /\ old = excused \ (Sessions \X {Ring})
          /\ lost = {<<x, Ring>> : x \in {q \in Live :
                     UserOf[q] = Caller \/ \E p \in Of(Caller) \ {s} : h[p].item = Ring}}
          /\ excused' = old \cup lost
    BY DEF ReadCall
  <2>2. \A q, i : <<q, i>> \in lost =>  i = Ring
    BY <2>1
  <2>3. \A q, i : i # Ring => (<<q, i>> \in old <=> <<q, i>> \in excused)
    BY <2>1
  <2>4. ASSUME NEW q \in Sessions, ses[q].sub = "live",
               UserOf[q] = Caller \/ \E p \in Of(Caller) : p # s /\ h[p].item = Ring
        PROVE  <<q, Ring>> \in lost
    BY <2>1, <2>4 DEF Live
  <2> QED
    BY <2>1, <2>2, <2>3, <2>4
<1>5. \A i : i # Ring => (Over(i)' <=> Over(i))
  <2>1. \A i : Unstored(i)' <=> Unstored(i)
    BY <1>1, <1>3 DEF Unstored
  <2> QED
    BY <1>1, <2>1 DEF Over
<1>6. \A q \in Handlers : h'[q].at = "store" => h'[q] = h[q] /\ h[q].item \in Messages
  BY <1>3 DEF RtInv, Job, RightJob
<1>7. OnceOnly'
  <2>1. holds' \subseteq spent'
    BY <1>1 DEF RtInv, OnceOnly
  <2>2. \A i \in holds' : i \in holds \/ \A q \in Handlers : h'[q].at = "store" => h'[q].item # i
    BY <1>1, <1>6, ItemFacts
  <2> QED
    BY <1>1, <1>3, <1>5, <2>1, <2>2, StaysOnce DEF RtInv
<1>8. RingMatch'
  <2>1. ASSUME NEW q \in Handlers, h'[q].item = Ring, q # s PROVE h[q].item = Ring /\ q \in Of(Caller)
    BY <1>3, <2>1, ItemFacts DEF RtInv, Job, RightJob
  <2>2. h'[s].doing = d /\ (d = "invite" <=> Ring \in holds')
    BY <1>1, <1>3
  <2> QED
    BY <1>1, <1>3, <1>4, <2>1, <2>2 DEF RingMatch
<1>9. ASSUME NEW q \in Sessions, NEW i \in Items, ses[q].sub = "live", <<q, i>> \notin excused'
      PROVE  Served(q, i)'
  <2>1. CASE i # Ring
    <3>1. Served(q, i)
      BY <1>4, <1>9, <2>1 DEF RtInv, AllServed
    <3>2. h[s].item = None
      BY <1>1 DEF RtInv, Job, RightJob
    <3>3. /\ OwedNew(UserOf[q], i) => OwedNew(UserOf[q], i)'
          /\ OwedGone(UserOf[q], i) => OwedGone(UserOf[q], i)'
      BY <1>1, <1>3, <3>2, ItemFacts, StaysOwed
    <3>4. i \in holds' <=> i \in holds
      BY <1>1, <2>1
    <3> QED
      BY <1>1, <1>5, <2>1, <3>1, <3>3, <3>4, StaysServed
  <2>2. CASE i = Ring
    <3>1. EndOwed(q, i)'
      BY <2>2 DEF EndOwed
    <3>2. Ring \in holds' => d = "invite" /\ OwedNew(UserOf[q], Ring)'
      BY <1>1, <1>3 DEF OwedNew, Owes, Begins
    <3>3. Ring \notin holds' => d = "hangup" /\ OwedGone(UserOf[q], Ring)'
      BY <1>1, <1>3 DEF OwedGone, Owes, Stops
    <3>4. LastWord(q, i)'
      BY <2>2, <3>2, <3>3 DEF LastWord
    <3> QED
      BY <3>1, <3>4 DEF Served
  <2> QED
    BY <2>1, <2>2
<1>10. AllServed'
  BY <1>1, <1>9 DEF AllServed
<1> QED
  BY <1>1, <1>3, <1>4, <1>7, <1>8, <1>10, ItemFacts, StepInv DEF RtInv, RtTypeOK

-----------------------------------------------------------------------------
(* The other steps of handlers.                                            *)

\* Only the item at hand may change; the rest is as owed as before.
LEMMA RestServed ==
  ASSUME RtInv, NEW p \in Handlers, \A q \in Handlers : q # p => h'[q] = h[q],
         NEW k \in Items \cup {None}, h[p].item = k \/ h[p].item = None,
         UNCHANGED <<ses, told, announced>>,
         \A i : i # k => (i \in holds' <=> i \in holds) /\ (Over(i)' <=> Over(i)),
         NEW s \in Sessions, NEW i \in Items, ses[s].sub = "live", <<s, i>> \notin excused, i # k
  PROVE  Served(s, i)'
<1>1. Served(s, i)
  BY DEF RtInv, AllServed
<1>2. /\ OwedNew(UserOf[s], i) => OwedNew(UserOf[s], i)'
      /\ OwedGone(UserOf[s], i) => OwedGone(UserOf[s], i)'
  BY ItemFacts, StaysOwed
<1> QED
  BY <1>1, <1>2, StaysServed

LEMMA ExcuseIs ==
  ASSUME NEW rs, NEW i, Excuse(rs, i)
  PROVE  /\ excused \subseteq excused'
         /\ \A s, j : j # i /\ <<s, j>> \in excused' => <<s, j>> \in excused
         /\ \A s \in Sessions : s \in rs /\ ses[s].sub = "live" /\ i # None => <<s, i>> \in excused'
BY DEF Excuse, Live

LEMMA StoreInv ==
  ASSUME RtInv, NEW p \in Handlers, Store(p)
  PROVE  RtInv'
<1>1. PICK m : m = h[p].item
  OBVIOUS
<1>2. /\ h[p].at = "store" /\ h[p].doing = "message" /\ m \in Messages /\ p \in Sessions
      /\ h[p] \in JobRecords /\ m \in spent /\ m \notin holds /\ m # None /\ m # Ring /\ m \in Items
  BY <1>1, ItemFacts DEF Store, RtInv, Job, RightJob, OnceOnly
<1>3. UNCHANGED <<spent, ses, told, throttled, announced>>
  BY DEF Store
<1>4. PICK r : /\ h' = [h EXCEPT ![p] = r] /\ RightJob(p, r) /\ r.at # "store"
               /\ \/ /\ holds' = holds \cup {m} /\ UNCHANGED excused
                     /\ r.at = "look" /\ r.doing = "message" /\ r.item = m
                  \/ /\ holds' \in {holds, holds \cup {m}} /\ Excuse(Sessions, m)
                     /\ r = Idle
  <2>1. CASE /\ holds' = holds \cup {h[p].item} /\ UNCHANGED excused
             /\ h' = [h EXCEPT ![p] = [h[p] EXCEPT !.at = "look"]]
    <3>1. PICK r : r = [h[p] EXCEPT !.at = "look"]
      OBVIOUS
    <3>2. r \in JobRecords /\ r.at = "look" /\ r.doing = "message" /\ r.item = m
      BY <1>1, <1>2, <3>1 DEF JobRecords
    <3>3. RightJob(p, r)
      BY <1>2, <3>2 DEF RightJob
    <3> QED
      BY <1>1, <2>1, <3>1, <3>2, <3>3
  <2>2. CASE /\ holds' \in {holds, holds \cup {h[p].item}}
             /\ Excuse(Sessions, h[p].item) /\ h' = [h EXCEPT ![p] = Idle]
    BY <1>1, <2>2, IdleJobs
  <2> QED
    BY <2>1, <2>2 DEF Store
<1>5. r.item \in spent \cup {None}
  BY <1>2, <1>4, IdleJobs
<1>6. h'[p] = r /\ \A q \in Handlers : q # p => h'[q] = h[q]
  BY <1>3, <1>4, <1>5, Turn DEF RtInv
<1>7. /\ excused \subseteq excused'
      /\ \A s, j : j # m => (<<s, j>> \in excused' <=> <<s, j>> \in excused)
  BY <1>4, ExcuseIs
<1>8. \A i : i # m => (i \in holds' <=> i \in holds) /\ (Over(i)' <=> Over(i))
  <2>1. \A i : i # m => (Unstored(i)' <=> Unstored(i))
    BY <1>1, <1>4, <1>6 DEF Unstored
  <2> QED
    BY <1>3, <1>4, <2>1 DEF Over
<1>9. ~Over(m)
  BY <1>1, <1>2 DEF Over, Unstored
<1>10. \A q \in Handlers : q # p /\ h[q].doing = "message" => h[q].item # m
  BY <1>1, <1>2 DEF RtInv, OnceOnly
<1>11. OnceOnly'
  <2>1. holds' \subseteq spent'
    BY <1>2, <1>3, <1>4 DEF RtInv, OnceOnly
  <2>2. \A i \in holds' : i \in holds \/ \A q \in Handlers : h'[q].at = "store" => h'[q].item # i
    BY <1>4, <1>6, <1>10 DEF RtInv, Job, RightJob
  <2>3. r.doing = "message" \/ r.doing = "nothing"
    BY <1>4, IdleJobs
  <2>4. r.doing = "message" => r.item = m
    BY <1>4, IdleJobs
  <2> QED
    BY <1>3, <1>4, <1>6, <1>8, <1>9, <1>10, <2>1, <2>2, <2>3, <2>4, StaysOnce DEF RtInv
<1>12. RingMatch'
  BY <1>2, <1>3, <1>4, <1>6, <1>7, <1>8, ItemFacts, IdleJobs, StaysMatched
<1>13. ASSUME NEW s \in Sessions, NEW i \in Items, ses[s].sub = "live", <<s, i>> \notin excused'
       PROVE  Served(s, i)'
  <2>1. CASE i # m
    <3>1. <<s, i>> \notin excused
      BY <1>7, <1>13
    <3> QED
      BY <1>1, <1>2, <1>3, <1>6, <1>8, <1>13, <2>1, <3>1, RestServed
  <2>2. CASE i = m
    <3>1. /\ holds' = holds \cup {m}
          /\ r.at = "look" /\ r.doing = "message" /\ r.item = m
      BY <1>2, <1>4, <1>13, <2>2, ExcuseIs
    <3>2. m \in holds' /\ ~Over(m)'
      BY <3>1 DEF Over
    <3>3. OwedNew(UserOf[s], m)'
      BY <1>6, <3>1 DEF OwedNew, Owes, Begins
    <3> QED
      BY <2>2, <3>2, <3>3 DEF Served, EndOwed, LastWord
  <2> QED
    BY <2>1, <2>2
<1>14. AllServed'
  BY <1>3, <1>13 DEF AllServed
<1> QED
  BY <1>3, <1>4, <1>5, <1>7, <1>11, <1>12, <1>14, StepInv DEF RtInv, RtTypeOK

LEMMA ThenGoes ==
  ASSUME Job, NEW p \in Handlers, NEW to \in SUBSET Members, Then(p, to), h[p].at \in {"look", "remove"}
  PROVE  \E r : /\ RightJob(p, r) /\ h' = [h EXCEPT ![p] = r]
                /\ to = {} => r = Ended(p)
                /\ to # {} => r.item = h[p].item /\ r.doing = h[p].doing /\ r.at = "publish" /\ r.to = to
<1>1. CASE to = {}
  BY <1>1, IdleJobs DEF Then
<1>2. CASE to # {}
  <2>1. PICK r : r = [h[p] EXCEPT !.at = "publish", !.to = to]
    OBVIOUS
  <2>2. h[p] \in JobRecords
    BY DEF Job
  <2>3. /\ r \in JobRecords /\ r.item = h[p].item /\ r.doing = h[p].doing
        /\ r.at = "publish" /\ r.to = to
    BY <2>1, <2>2 DEF JobRecords
  <2>4. RightJob(p, r)
    BY <2>3 DEF Job, RightJob
  <2> QED
    BY <1>2, <2>1, <2>3, <2>4 DEF Then
<1> QED
  BY <1>1, <1>2

\* The answer is in: whoever is not told is excused, or hears of the call from
\* nobody since it is his own.
LEMMA FoundInv ==
  ASSUME RtInv, NEW p \in Handlers, NEW pts \in SUBSET Members, NEW to \in SUBSET Members,
         Found(p, pts, to), h[p].at = "look",
         to = pts \/ h[p].doing = "typing" \/ (h[p].doing = "hangup" /\ to = pts \ {Caller})
  PROVE  RtInv'
<1>1. PICK r : /\ RightJob(p, r) /\ h' = [h EXCEPT ![p] = r]
               /\ to = {} => r = Ended(p)
               /\ to # {} => r.item = h[p].item /\ r.doing = h[p].doing /\ r.at = "publish" /\ r.to = to
  BY ThenGoes DEF RtInv, Found
<1>2. PICK k : k = h[p].item
  OBVIOUS
<1>3. /\ UNCHANGED <<holds, spent, ses, told, throttled, announced>>
      /\ Excuse({s \in Sessions : UserOf[s] \notin pts}, k)
  BY <1>2 DEF Found, Missing
<1>4. k \in spent \cup {None} /\ (h[p].doing = "hangup" => k = Ring)
      /\ (h[p].doing \in Begins \cup Stops => k # None) /\ h[p].doing # "drop"
  BY <1>2, ItemFacts DEF RtInv, Job, RightJob, Begins, Stops
<1>5. excused \subseteq excused' /\ \A s \in Sessions :
        ses[s].sub = "live" /\ <<s, k>> \notin excused' /\ k # None => UserOf[s] \in pts
  BY <1>3, ExcuseIs
<1>6. ASSUME NEW s \in Sessions, ses[s].sub = "live", <<s, k>> \notin excused',
             h[p].doing \in Begins \cup Stops
      PROVE  UserOf[s] \in to
  <2>1. UserOf[s] \in pts /\ h[p].doing # "typing" /\ <<s, k>> \notin excused
    BY <1>4, <1>5, <1>6 DEF Begins, Stops
  <2>2. CASE h[p].doing = "hangup"
    <3>1. k = Ring /\ Ring \in spent
      BY <1>4, <2>2, ItemFacts
    <3>2. UserOf[s] # Caller
      BY <1>6, <2>1, <3>1 DEF RtInv, RingMatch
    <3> QED
      BY <2>1, <3>2
  <2> QED
    BY <2>1, <2>2
<1>7. \/ r.doing \in {"nothing", "done"} /\ r.item = None /\ r.at = "idle" /\ to = {}
      \/ to # {} /\ r.doing = h[p].doing /\ r.item = k /\ r.doing # "drop" /\ r.at = "publish" /\ r.to = to
  BY <1>1, <1>2, <1>4, IdleJobs
<1> QED
  BY <1>1, <1>2, <1>3, <1>4, <1>5, <1>6, <1>7, MoveInv

LEMMA LooksInv ==
  ASSUME RtInv, NEW p \in Handlers,
         LookMessage(p) \/ LookTyping(p) \/ LookDelete(p) \/ LookHangup(p)
  PROVE  RtInv'
<1>1. CASE LookMessage(p)
  BY <1>1, FoundInv DEF LookMessage, Looks, Participants
<1>2. CASE LookTyping(p)
  BY <1>2, FoundInv DEF LookTyping, Looks, Participants
<1>3. CASE LookDelete(p)
  BY <1>3, FoundInv DEF LookDelete, Looks, Participants
<1>4. CASE LookHangup(p)
  BY <1>4, FoundInv DEF LookHangup, Looks, CallParticipants, Participants
<1> QED
  BY <1>1, <1>2, <1>3, <1>4

LEMMA InviteInv ==
  ASSUME RtInv, NEW p \in Handlers, Invite(p)
  PROVE  RtInv'
<1>1. /\ h[p].at = "look" /\ h[p].doing = "invite"
      /\ UNCHANGED <<holds, spent, ses, told, announced>>
  BY DEF Invite, Looks
<1>2. h[p].item = Ring /\ Ring \in spent
  BY <1>1, ItemFacts DEF RtInv, Job, RightJob
<1>3. \E pts, to \in SUBSET Members :
        /\ Then(p, to) /\ Missing(pts, Ring)
        /\ to = pts \ {Caller}
  <2>1. CASE Then(p, {}) /\ Excuse(Sessions, Ring)
    <3>1. PICK pts \in SUBSET Members : pts = {}
      OBVIOUS
    <3>2. {s \in Sessions : UserOf[s] \notin pts} = Sessions /\ pts \ {Caller} = pts
      BY <3>1
    <3>3. Then(p, pts) /\ Missing(pts, Ring)
      BY <2>1, <3>1, <3>2 DEF Missing
    <3> QED
      BY <3>2, <3>3
  <2>2. CASE \E pts \in CallParticipants : Then(p, pts \ {Caller}) /\ Missing(pts, Ring)
    BY <2>2 DEF CallParticipants, Participants
  <2> QED
    BY <2>1, <2>2 DEF Invite
<1>4. PICK pts, to \in SUBSET Members :
        Then(p, to) /\ Excuse({s \in Sessions : UserOf[s] \notin pts}, Ring) /\ to = pts \ {Caller}
  BY <1>3 DEF Missing
<1>5. PICK r : /\ RightJob(p, r) /\ h' = [h EXCEPT ![p] = r]
               /\ to = {} => r = Ended(p)
               /\ to # {} => r.item = h[p].item /\ r.doing = h[p].doing /\ r.at = "publish" /\ r.to = to
  BY <1>1, <1>4, ThenGoes DEF RtInv
<1>6. excused \subseteq excused' /\ \A s \in Sessions :
        ses[s].sub = "live" /\ <<s, Ring>> \notin excused' => UserOf[s] \in to
  <2>1. excused \subseteq excused' /\ \A s \in Sessions :
          ses[s].sub = "live" /\ <<s, Ring>> \notin excused' => UserOf[s] \in pts
    BY <1>4, ItemFacts, ExcuseIs
  <2>2. \A s \in Sessions : ses[s].sub = "live" /\ <<s, Ring>> \notin excused => UserOf[s] # Caller
    BY <1>2 DEF RtInv, RingMatch
  <2> QED
    BY <1>4, <2>1, <2>2
<1>7. \/ r.doing \in {"nothing", "done"} /\ r.item = None /\ r.at = "idle" /\ to = {}
      \/ to # {} /\ r.doing = h[p].doing /\ r.item = Ring /\ r.at = "publish" /\ r.to = to
  BY <1>2, <1>5, IdleJobs
<1> QED
  BY <1>1, <1>2, <1>5, <1>6, <1>7, MoveInv

-----------------------------------------------------------------------------
(* Requests.                                                               *)

LEMMA SendMessageInv ==
  ASSUME RtInv, NEW p \in Requests, SendMessage(p)
  PROVE  RtInv'
<1>1. p \in Handlers /\ h[p] = Idle /\ UNCHANGED <<ses, told, throttled, announced>>
  BY DEF SendMessage, Free, Handlers
<1>2. PICK m \in Messages \ spent :
        holds' = holds \cup {m} /\ spent' = spent \cup {m} /\ Excuse(Sessions, m)
  BY DEF SendMessage
<1>3. PICK r : r = Ended(p)
  OBVIOUS
<1>4. /\ h' = [h EXCEPT ![p] = r] /\ RightJob(p, r) /\ h[p].item = None /\ h[p].at = "idle"
      /\ r.item = None /\ r.at = "idle" /\ r.doing \in {"nothing", "done"}
  BY <1>1, <1>3, IdleJobs DEF SendMessage
<1>5. h'[p] = r /\ \A q \in Handlers : q # p => h'[q] = h[q]
  BY <1>1, <1>2, <1>4, Turn DEF RtInv
<1>6. /\ m \in Items /\ m # None /\ m # Ring /\ m \notin holds
      /\ excused \subseteq excused' /\ \A s, j : j # m => (<<s, j>> \in excused' <=> <<s, j>> \in excused)
      /\ \A s \in Sessions : ses[s].sub = "live" => <<s, m>> \in excused'
  BY <1>2, ItemFacts, ExcuseIs DEF RtInv, OnceOnly
<1>7. \A i : i # m => (i \in holds' <=> i \in holds) /\ (Over(i)' <=> Over(i))
  <2>1. \A i : Unstored(i)' <=> Unstored(i)
    BY <1>1, <1>4, <1>5 DEF Unstored
  <2> QED
    BY <1>2, <2>1 DEF Over
<1>8. ~Over(m) /\ \A q \in Handlers : h'[q].at = "store" => h'[q].item # m
  <2>1. \A q \in Handlers : h[q].item # m
    BY <1>2, <1>6 DEF RtInv, Job
  <2> QED
    BY <1>2, <1>4, <1>5, <2>1 DEF Over
<1>9. OnceOnly'
  <2>1. holds' \subseteq spent'
    BY <1>2 DEF RtInv, OnceOnly
  <2>2. \A i \in holds' : i \in holds \/ \A q \in Handlers : h'[q].at = "store" => h'[q].item # i
    BY <1>2, <1>8
  <2> QED
    BY <1>1, <1>4, <1>5, <1>7, <1>8, <2>1, <2>2, StaysOnce DEF RtInv
<1>10. RingMatch'
  <2>1. Ring \in spent' <=> Ring \in spent
    BY <1>2, <1>6
  <2> QED
    BY <1>1, <1>4, <1>5, <1>6, <1>7, <2>1, ItemFacts, StaysMatched
<1>11. ASSUME NEW s \in Sessions, NEW i \in Items, ses[s].sub = "live", <<s, i>> \notin excused'
       PROVE  Served(s, i)'
  BY <1>1, <1>4, <1>5, <1>6, <1>7, <1>11, RestServed
<1>12. AllServed'
  BY <1>1, <1>11 DEF AllServed
<1>13. spent \subseteq spent' /\ spent' \subseteq Items
  BY <1>2, <1>6 DEF RtInv, RtTypeOK
<1> QED
  BY <1>1, <1>4, <1>6, <1>9, <1>10, <1>12, <1>13, StepInv

LEMMA DeleteMessageInv ==
  ASSUME RtInv, NEW p \in Requests, DeleteMessage(p)
  PROVE  RtInv'
<1>1. /\ p \in Handlers /\ h[p] = Idle
      /\ UNCHANGED <<spent, ses, told, throttled, announced>>
  BY DEF DeleteMessage, Free, Handlers
<1>2. PICK m \in Messages \cap holds :
        /\ holds' = holds \ {m}
        /\ \/ Begin(p, "look", "delete", m) /\ UNCHANGED excused
           \/ h' = [h EXCEPT ![p] = Ended(p)] /\ Excuse(Sessions, m)
  BY DEF DeleteMessage
<1>3. m \in spent /\ m \in Items /\ m # None /\ m # Ring
  BY <1>2, ItemFacts DEF RtInv, OnceOnly
<1>4. RightJob(p, [at |-> "look", doing |-> "delete", item |-> m, to |-> {}])
  BY <1>2, ItemFacts DEF RightJob, JobRecords, Begins, Stops
<1>5. PICK r : /\ RightJob(p, r) /\ h' = [h EXCEPT ![p] = r] /\ h'[p] = r
               /\ \A q \in Handlers : q # p => h'[q] = h[q]
               /\ \/ r.at = "look" /\ r.doing = "delete" /\ r.item = m /\ UNCHANGED excused
                  \/ /\ r.at = "idle" /\ r.doing \in {"nothing", "done"} /\ r.item = None
                     /\ Excuse(Sessions, m)
  <2>1. CASE Begin(p, "look", "delete", m) /\ UNCHANGED excused
    BY <1>1, <1>3, <1>4, <2>1, Began DEF RtInv
  <2>2. CASE h' = [h EXCEPT ![p] = Ended(p)] /\ Excuse(Sessions, m)
    <3>1. PICK r : r = Ended(p)
      OBVIOUS
    <3>2. RightJob(p, r) /\ r.at = "idle" /\ r.doing \in {"nothing", "done"} /\ r.item = None
      BY <3>1, IdleJobs
    <3>3. h' = [h EXCEPT ![p] = r]
      BY <2>2, <3>1
    <3>4. h'[p] = r /\ \A q \in Handlers : q # p => h'[q] = h[q]
      BY <1>1, <3>2, <3>3, Turn DEF RtInv
    <3> QED
      BY <2>2, <3>2, <3>3, <3>4
  <2> QED
    BY <1>2, <2>1, <2>2
<1>6. h[p].item = None /\ h[p].at = "idle"
  BY <1>1, IdleJobs
<1>7. \A i : Unstored(i)' <=> Unstored(i)
  BY <1>5, <1>6 DEF Unstored
<1>8. \A i : i # m => (i \in holds' <=> i \in holds) /\ (Over(i)' <=> Over(i))
  BY <1>1, <1>2, <1>7 DEF Over
<1>9. Over(m)' /\ ~Over(m)
  <2>1. ~Unstored(m)
    BY <1>2 DEF RtInv, OnceOnly, Unstored
  <2> QED
    BY <1>1, <1>2, <1>3, <1>7, <2>1 DEF Over
<1>10. OnceOnly'
  <2>1. holds' \subseteq spent' /\ holds' \subseteq holds
    BY <1>1, <1>2 DEF RtInv, OnceOnly
  <2> QED
    BY <1>1, <1>5, <1>8, <1>9, <2>1, StaysOnce DEF RtInv
<1>11. /\ excused \subseteq excused'
       /\ \A s, j : j # m => (<<s, j>> \in excused' <=> <<s, j>> \in excused)
  BY <1>5, ExcuseIs
<1>12. RingMatch'
  BY <1>1, <1>3, <1>5, <1>8, <1>11, ItemFacts, StaysMatched
<1>13. ASSUME NEW s \in Sessions, NEW i \in Items, ses[s].sub = "live", <<s, i>> \notin excused'
       PROVE  Served(s, i)'
  <2>1. CASE i # m
    BY <1>1, <1>3, <1>5, <1>6, <1>8, <1>11, <1>13, <2>1, RestServed
  <2>2. CASE i = m
    <3>1. r.at = "look" /\ r.doing = "delete" /\ r.item = m
      BY <1>3, <1>5, <1>13, <2>2, ExcuseIs
    <3>2. i \notin holds' /\ OwedGone(UserOf[s], i)'
      BY <1>1, <1>2, <1>5, <2>2, <3>1 DEF OwedGone, Owes, Stops
    <3> QED
      BY <3>2 DEF Served, EndOwed, LastWord
  <2> QED
    BY <2>1, <2>2
<1>14. AllServed'
  BY <1>1, <1>13 DEF AllServed
<1> QED
  BY <1>1, <1>3, <1>5, <1>10, <1>11, <1>12, <1>14, StepInv DEF RtInv, RtTypeOK

\* What the request does next is to tell `to', unless that is nobody.
LEMMA WillTellGoes ==
  ASSUME NEW p \in Handlers, NEW to \in SUBSET Members, WillTell(p, to)
  PROVE  \E r : /\ RightJob(p, r) /\ h' = [h EXCEPT ![p] = r] /\ r.item \in {Chat, None}
                /\ \/ /\ to = {} /\ r.at = "idle" /\ r.item = None
                      /\ r.doing \in {"nothing", "done"}
                   \/ to # {} /\ r.at = "publish" /\ r.doing = "create" /\ r.item = Chat /\ r.to = to
<1>1. CASE to = {}
  BY <1>1, IdleJobs DEF WillTell
<1>2. CASE to # {}
  <2>1. PICK r : r = [at |-> "publish", doing |-> "create", item |-> Chat, to |-> to]
    OBVIOUS
  <2>2. /\ RightJob(p, r) /\ r.at = "publish" /\ r.doing = "create" /\ r.item = Chat /\ r.to = to
    BY <2>1, ItemFacts DEF RightJob, JobRecords, Begins, Stops
  <2> QED
    BY <1>2, <2>1, <2>2 DEF WillTell
<1> QED
  BY <1>1, <1>2

LEMMA CreateInv ==
  ASSUME RtInv, NEW p \in Requests, NEW to \in SUBSET Members, Create(p, to)
  PROVE  RtInv'
<1>1. p \in Handlers /\ WillTell(p, to)
  BY DEF Create, Handlers
<1>2. PICK r : /\ RightJob(p, r) /\ h' = [h EXCEPT ![p] = r] /\ r.item \in {Chat, None}
               /\ \/ /\ to = {} /\ r.at = "idle" /\ r.item = None
                     /\ r.doing \in {"nothing", "done"}
                  \/ to # {} /\ r.at = "publish" /\ r.doing = "create" /\ r.item = Chat /\ r.to = to
  BY <1>1, WillTellGoes
<1>3. /\ h[p] = Idle /\ UNCHANGED <<ses, told, throttled, announced>>
      /\ Chat \notin spent /\ holds' = holds \cup {Chat} /\ spent' = spent \cup {Chat}
      /\ Excuse({s \in Sessions : UserOf[s] \notin to}, Chat)
  BY DEF Create, Free, Missing
<1>4. h'[p] = r /\ \A q \in Handlers : q # p => h'[q] = h[q]
  BY <1>1, <1>2, <1>3, Turn DEF RtInv
<1>5. h[p].item = None /\ h[p].at = "idle"
  BY <1>3, IdleJobs
<1>6. /\ excused \subseteq excused' /\ \A s, j : j # Chat => (<<s, j>> \in excused' <=> <<s, j>> \in excused)
      /\ \A s \in Sessions : ses[s].sub = "live" /\ <<s, Chat>> \notin excused' => UserOf[s] \in to
  BY <1>3, ItemFacts, ExcuseIs
<1>7. \A i : i # Chat => (i \in holds' <=> i \in holds) /\ (Over(i)' <=> Over(i))
  <2>1. \A i : Unstored(i)' <=> Unstored(i)
    BY <1>2, <1>4, <1>5 DEF Unstored
  <2> QED
    BY <1>3, <2>1 DEF Over
<1>8. /\ ~Over(Chat) /\ ~Over(Chat)'
      /\ \A q \in Handlers : h'[q].at = "store" => h'[q].item # Chat
  <2>1. \A q \in Handlers : h[q].item # Chat
    BY <1>3, ItemFacts DEF RtInv, Job
  <2> QED
    BY <1>2, <1>3, <1>4, <2>1 DEF Over
<1>9. OnceOnly'
  <2>1. holds' \subseteq spent'
    BY <1>3 DEF RtInv, OnceOnly
  <2>2. \A i \in holds' : i \in holds \/ \A q \in Handlers : h'[q].at = "store" => h'[q].item # i
    BY <1>3, <1>8
  <2> QED
    BY <1>1, <1>2, <1>3, <1>4, <1>7, <1>8, <2>1, <2>2, StaysOnce DEF RtInv
<1>10. RingMatch'
  <2>1. Ring \in spent' <=> Ring \in spent
    BY <1>3, ItemFacts
  <2> QED
    BY <1>1, <1>2, <1>3, <1>4, <1>5, <1>6, <1>7, <2>1, ItemFacts, StaysMatched
<1>11. ASSUME NEW s \in Sessions, NEW i \in Items, ses[s].sub = "live", <<s, i>> \notin excused'
       PROVE  Served(s, i)'
  <2>1. CASE i # Chat
    BY <1>1, <1>3, <1>4, <1>5, <1>6, <1>7, <1>11, <2>1, ItemFacts, RestServed
  <2>2. CASE i = Chat
    <3>1. UserOf[s] \in to
      BY <1>6, <1>11, <2>2
    <3>2. Chat \in holds' /\ OwedNew(UserOf[s], Chat)'
      BY <1>1, <1>2, <1>3, <1>4, <3>1 DEF OwedNew, Owes, Begins
    <3> QED
      BY <1>8, <2>2, <3>2 DEF Served, EndOwed, LastWord
  <2> QED
    BY <2>1, <2>2
<1>12. AllServed'
  BY <1>3, <1>11 DEF AllServed
<1>13. spent \subseteq spent' /\ spent' \subseteq Items /\ r.item \in spent' \cup {None}
  BY <1>2, <1>3, ItemFacts DEF RtInv, RtTypeOK
<1> QED
  BY <1>1, <1>2, <1>3, <1>6, <1>9, <1>10, <1>12, <1>13, StepInv

LEMMA CreateAgainInv ==
  ASSUME RtInv, NEW p \in Requests, NEW v \in Members, CreateAgain(p, v)
  PROVE  RtInv'
<1>1. PICK to \in SUBSET Members : to = {v}
  OBVIOUS
<1>2. /\ p \in Handlers /\ h[p] = Idle /\ Chat \in spent /\ WillTell(p, to)
      /\ UNCHANGED <<holds, spent, ses, told, throttled, excused, announced>>
  BY <1>1 DEF CreateAgain, Free, Handlers, RtInv, OnceOnly
<1>3. PICK r : /\ RightJob(p, r) /\ h' = [h EXCEPT ![p] = r] /\ r.item \in {Chat, None}
               /\ \/ r.at = "idle" /\ r.doing \in {"nothing", "done"}
                  \/ r.at = "publish" /\ r.doing = "create"
  BY <1>2, WillTellGoes
<1>4. h[p].item = None /\ h[p].at = "idle" /\ h[p].doing = "nothing"
  BY <1>2, IdleJobs
<1>5. \A s \in Sessions : ~Owes(p, UserOf[s])
  BY <1>4 DEF Owes
<1> QED
  BY <1>2, <1>3, <1>4, <1>5, MoveInv

LEMMA AskFirstInv ==
  ASSUME RtInv, NEW p \in Requests, NEW d \in {"drop", "clear"}, AskFirst(p, d)
  PROVE  RtInv'
<1>1. /\ p \in Handlers /\ h[p] = Idle /\ Chat \in spent
      /\ UNCHANGED <<holds, spent, ses, told, throttled, excused, announced>>
  BY DEF AskFirst, Free, Handlers, RtInv, OnceOnly
<1>2. PICK pts \in Participants :
        h' = [h EXCEPT ![p] = [at |-> "remove", doing |-> d, item |-> Chat, to |-> pts]]
  BY DEF AskFirst
<1>3. PICK r : r = [at |-> "remove", doing |-> d, item |-> Chat, to |-> pts]
  OBVIOUS
<1>4. pts \in SUBSET Members
  BY DEF Participants
<1>5. /\ RightJob(p, r) /\ r.at = "remove" /\ r.item = Chat /\ r.doing = d
      /\ h' = [h EXCEPT ![p] = r]
  BY <1>2, <1>3, <1>4, ItemFacts DEF RightJob, JobRecords, Begins, Stops
<1>6. h[p].item = None /\ h[p].at = "idle" /\ h[p].doing = "nothing"
  BY <1>1, IdleJobs
<1>7. \A s \in Sessions : ~Owes(p, UserOf[s])
  BY <1>6 DEF Owes
<1> QED
  BY <1>1, <1>5, <1>6, <1>7, MoveInv

\* The chat is gone; those who took part will be told, and no one else.
LEMMA DeleteInv ==
  ASSUME RtInv, NEW p \in Handlers, Delete(p)
  PROVE  RtInv'
<1>1. /\ h[p].at = "remove" /\ h[p].doing = "drop" /\ holds' = holds \ {Chat}
      /\ UNCHANGED <<spent, ses, told, throttled, announced>>
  BY DEF Delete
<1>2. h[p].item = Chat /\ Chat \in spent /\ h[p].to \in SUBSET Members
  BY <1>1, ItemFacts DEF RtInv, Job, RightJob, JobRecords
<1>3. PICK to \in {h[p].to, {}} : Then(p, to) /\ Missing(to, Chat)
  BY DEF Delete
<1>4. to \in SUBSET Members /\ Then(p, to) /\ Excuse({s \in Sessions : UserOf[s] \notin to}, Chat)
  BY <1>2, <1>3 DEF Missing
<1>5. PICK r : /\ RightJob(p, r) /\ h' = [h EXCEPT ![p] = r]
               /\ to = {} => r = Ended(p)
               /\ to # {} => r.item = h[p].item /\ r.doing = h[p].doing /\ r.at = "publish" /\ r.to = to
  BY <1>1, <1>4, ThenGoes DEF RtInv
<1>6. \/ r.doing \in {"nothing", "done"} /\ r.item = None /\ r.at = "idle" /\ to = {}
      \/ to # {} /\ r.doing = "drop" /\ r.item = Chat /\ r.at = "publish" /\ r.to = to
  BY <1>1, <1>2, <1>5, IdleJobs
<1>7. h'[p] = r /\ \A q \in Handlers : q # p => h'[q] = h[q]
  BY <1>1, <1>2, <1>5, <1>6, Turn DEF RtInv
<1>8. /\ excused \subseteq excused' /\ \A s, j : j # Chat => (<<s, j>> \in excused' <=> <<s, j>> \in excused)
      /\ \A s \in Sessions : ses[s].sub = "live" /\ <<s, Chat>> \notin excused' => UserOf[s] \in to
  BY <1>4, ItemFacts, ExcuseIs
<1>9. \A i : Unstored(i)' <=> Unstored(i)
  BY <1>1, <1>6, <1>7 DEF Unstored
<1>10. \A i : i # Chat => (i \in holds' <=> i \in holds) /\ (Over(i)' <=> Over(i))
  BY <1>1, <1>9 DEF Over
<1>11. Over(Chat)'
  <2>1. ~Unstored(Chat)
    BY ItemFacts DEF RtInv, Job, RightJob, Unstored
  <2> QED
    BY <1>1, <1>2, <1>9, <2>1 DEF Over
<1>12. OnceOnly'
  <2>1. holds' \subseteq spent' /\ holds' \subseteq holds
    BY <1>1 DEF RtInv, OnceOnly
  <2> QED
    BY <1>1, <1>6, <1>7, <1>10, <1>11, <2>1, StaysOnce DEF RtInv
<1>13. RingMatch'
  BY <1>1, <1>6, <1>7, <1>8, <1>10, ItemFacts, StaysMatched
<1>14. ASSUME NEW s \in Sessions, NEW i \in Items, ses[s].sub = "live", <<s, i>> \notin excused'
       PROVE  Served(s, i)'
  <2>1. CASE i # Chat
    BY <1>1, <1>2, <1>7, <1>8, <1>10, <1>14, <2>1, ItemFacts, RestServed
  <2>2. CASE i = Chat
    <3>1. UserOf[s] \in to
      BY <1>8, <1>14, <2>2
    <3>2. r.doing = "drop" /\ r.item = Chat /\ r.at = "publish" /\ UserOf[s] \in r.to
      BY <1>6, <3>1
    <3>3. Chat \notin holds' /\ OwedGone(UserOf[s], Chat)'
      BY <1>1, <1>7, <3>2 DEF OwedGone, Owes, Stops
    <3> QED
      BY <2>2, <3>3 DEF Served, EndOwed, LastWord
  <2> QED
    BY <2>1, <2>2
<1>15. AllServed'
  BY <1>1, <1>14 DEF AllServed
<1> QED
  BY <1>1, <1>2, <1>5, <1>6, <1>8, <1>12, <1>13, <1>15, StepInv DEF RtInv, RtTypeOK

LEMMA ClearInv ==
  ASSUME RtInv, NEW p \in Handlers, Clear(p)
  PROVE  RtInv'
<1>1. /\ h[p].at = "remove" /\ h[p].doing = "clear"
      /\ UNCHANGED <<holds, spent, ses, told, throttled, excused, announced>>
  BY DEF Clear
<1>2. h[p].item = Chat /\ Chat \in spent /\ h[p].to \in SUBSET Members
  BY <1>1, ItemFacts DEF RtInv, Job, RightJob, JobRecords
<1>3. PICK to \in SUBSET Members : to = h[p].to
  BY <1>2
<1>4. PICK r : /\ RightJob(p, r) /\ h' = [h EXCEPT ![p] = r]
               /\ to = {} => r = Ended(p)
               /\ to # {} => r.item = h[p].item /\ r.doing = h[p].doing /\ r.at = "publish" /\ r.to = to
  BY <1>1, <1>3, ThenGoes DEF RtInv, Clear
<1>5. r.at # "store" /\ r.item \in spent \cup {None} /\ r.doing \in {"nothing", "done", "clear"}
  BY <1>1, <1>2, <1>4, IdleJobs
<1>6. \A s \in Sessions : ~Owes(p, UserOf[s])
  BY <1>1 DEF Owes
<1> QED
  BY <1>1, <1>4, <1>5, <1>6, MoveInv

LEMMA RefusedInv ==
  ASSUME RtInv, NEW p \in Handlers, Refused(p)
  PROVE  RtInv'
<1>1. /\ h[p].at = "remove" /\ h' = [h EXCEPT ![p] = Ended(p)]
      /\ UNCHANGED <<holds, spent, ses, told, throttled, excused, announced>>
  BY DEF Refused
<1>2. \A s \in Sessions : ~Owes(p, UserOf[s])
  BY <1>1 DEF Owes
<1> QED
  BY <1>1, <1>2, IdleJobs, MoveInv

-----------------------------------------------------------------------------
(* The steps of a session.                                                 *)

LEMMA Unworked ==
  ASSUME UNCHANGED <<holds, spent, h, announced>>
  PROVE  /\ \A i : Over(i)' <=> Over(i)
         /\ \A u, i : (OwedNew(u, i)' <=> OwedNew(u, i)) /\ (OwedGone(u, i)' <=> OwedGone(u, i))
         /\ Job => Job'
         /\ OnceOnly => OnceOnly'
<1>1. \A i : Over(i)' <=> Over(i)
  BY DEF Over, Unstored
<1>2. \A u, i : (OwedNew(u, i)' <=> OwedNew(u, i)) /\ (OwedGone(u, i)' <=> OwedGone(u, i))
  BY DEF OwedNew, OwedGone, Owes
<1>3. Job => Job'
  BY DEF Job
<1>4. OnceOnly => OnceOnly'
  BY DEF OnceOnly, Over, Unstored
<1> QED
  BY <1>1, <1>2, <1>3, <1>4

\* What a step of session s leaves to show: nothing of the others.
LEMMA SessionInv ==
  ASSUME RtInv, UNCHANGED <<holds, spent, h, announced>>,
         NEW s \in Sessions, NEW r \in SesRecords, ses' = [ses EXCEPT ![s] = r],
         told' \in [Sessions -> [Items -> {"none", "new", "gone"}]],
         \A q \in Sessions : q # s => told'[q] = told[q],
         \A q, i : q # s /\ <<q, i>> \in excused => <<q, i>> \in excused',
         r.conn # "none",
         r.sub = "asked" => r.inbox = <<>> /\ \A i \in Items : told'[s][i] # "new",
         r.sub = "live" =>
           /\ <<s, Ring>> \notin excused' => <<s, Ring>> \notin excused /\ (Ring \in spent => ses[s].sub = "live")
           /\ \A i \in Messages : <<s, i>> \notin excused' =>
                \A k \in DOMAIN r.inbox : r.inbox[k].is # "clear"
           /\ \A i \in Items : <<s, i>> \notin excused' => Served(s, i)'
  PROVE  RtInv'
<1>1. ses'[s] = r /\ \A q \in Sessions : q # s => ses'[q] = ses[q]
  BY DEF RtInv, RtTypeOK
<1>2. RtTypeOK' /\ Job' /\ OnceOnly'
  BY Unworked DEF RtInv, RtTypeOK
<1>3. Fresh'
  BY <1>1 DEF RtInv, Fresh
<1>4. RingMatch'
  <2>1. ASSUME NEW q \in Sessions, ses'[q].sub = "live", <<q, Ring>> \notin excused'
        PROVE  /\ <<q, Ring>> \notin excused
               /\ ses[q].sub = "live" \/ Ring \notin spent
    BY <1>1, <2>1
  <2>2. ASSUME NEW q \in Sessions, ses'[q].sub = "live", <<q, Ring>> \notin excused',
               NEW p \in Handlers, h[p].item = Ring
        PROVE  ses[q].sub = "live"
    BY <2>1, <2>2, ItemFacts DEF RtInv, Job
  <2> QED
    BY <2>1, <2>2 DEF RtInv, RingMatch
<1>5. NoClear'
  BY <1>1 DEF RtInv, NoClear
<1>6. ASSUME NEW q \in Sessions, NEW i \in Items, ses'[q].sub = "live", <<q, i>> \notin excused'
      PROVE  Served(q, i)'
  <2>1. CASE q = s
    BY <1>1, <1>6, <2>1
  <2>2. CASE q # s
    <3>1. Served(q, i)
      BY <1>1, <1>6, <2>2 DEF RtInv, AllServed
    <3> QED
      BY <1>1, <2>2, <3>1, Unworked, StaysServed
  <2> QED
    BY <2>1, <2>2
<1>7. AllServed'
  BY <1>6 DEF AllServed
<1> QED
  BY <1>2, <1>3, <1>4, <1>5, <1>7 DEF RtInv

LEMMA UpgradeInv ==
  ASSUME RtInv, NEW s \in Sessions, Upgrade(s)
  PROVE  RtInv'
<1>1. PICK r : r = [conn |-> "open", sub |-> "asked", reader |-> "reading", writer |-> "waiting",
                    inbox |-> <<>>]
  OBVIOUS
<1>2. /\ ses[s].conn = "none" /\ ses' = [ses EXCEPT ![s] = r]
      /\ UNCHANGED <<holds, spent, told, throttled, h, excused, announced>>
  BY <1>1 DEF Upgrade, Set
<1>3. r \in SesRecords /\ r.conn = "open" /\ r.sub = "asked" /\ r.inbox = <<>>
  BY <1>1 DEF SesRecords
<1>4. \A i \in Items : told[s][i] # "new"
  BY <1>2 DEF RtInv, Fresh
<1>5. told \in [Sessions -> [Items -> {"none", "new", "gone"}]]
  BY DEF RtInv, RtTypeOK
<1> QED
  BY <1>2, <1>3, <1>4, <1>5, SessionInv

\* The client knows nothing, and whatever exists already is excused.
LEMMA SubscribedInv ==
  ASSUME RtInv, NEW s \in Sessions, Subscribed(s)
  PROVE  RtInv'
<1>1. PICK r : r = [ses[s] EXCEPT !.sub = "live"]
  OBVIOUS
<1>2. /\ ses[s].sub = "asked" /\ ses' = [ses EXCEPT ![s] = r]
      /\ excused' = excused \cup ({s} \X spent)
      /\ UNCHANGED <<holds, spent, told, throttled, h, announced>>
  BY <1>1 DEF Subscribed, Set
<1>3. ses[s] \in SesRecords /\ told \in [Sessions -> [Items -> {"none", "new", "gone"}]]
  BY DEF RtInv, RtTypeOK
<1>4. ses[s].inbox = <<>> /\ ses[s].conn # "none" /\ \A i \in Items : told[s][i] # "new"
  BY <1>2 DEF RtInv, Fresh, Closed
<1>5. /\ r \in SesRecords /\ r.sub = "live" /\ r.conn # "none" /\ r.inbox = <<>>
      /\ ses'[s].inbox = <<>>
  BY <1>1, <1>2, <1>3, <1>4 DEF SesRecords, RtInv, RtTypeOK
<1>6. ASSUME NEW i \in Items, <<s, i>> \notin excused' PROVE Served(s, i)' /\ i \notin spent
  <2>1. i \notin spent /\ i \notin holds'
    BY <1>2, <1>6 DEF RtInv, OnceOnly
  <2>2. EndOwed(s, i)'
    BY <1>2, <2>1 DEF EndOwed, Over
  <2>3. EndsOld(ses[s].inbox, told[s][i], i)'
    BY <1>2, <1>4, <1>5 DEF EndsOld
  <2>4. LastWord(s, i)'
    BY <2>1, <2>3 DEF LastWord
  <2> QED
    BY <2>1, <2>2, <2>4 DEF Served
<1>7. /\ <<s, Ring>> \notin excused' => <<s, Ring>> \notin excused /\ Ring \notin spent
      /\ \A i \in Messages, k \in DOMAIN r.inbox : r.inbox[k].is # "clear"
      /\ \A q, i : q # s /\ <<q, i>> \in excused => <<q, i>> \in excused'
  BY <1>2, <1>5, <1>6, ItemFacts
<1> QED
  BY <1>2, <1>3, <1>5, <1>6, <1>7, SessionInv

\* A step after which the session hears no more than before.
LEMMA HushInv ==
  ASSUME RtInv, NEW s \in Sessions, NEW r \in SesRecords, ses' = [ses EXCEPT ![s] = r],
         UNCHANGED <<holds, spent, told, h, excused, announced>>,
         r.inbox = ses[s].inbox, r.conn \in {ses[s].conn, "broken"}, r.conn # "none",
         r.sub \in {ses[s].sub, "closed"}
  PROVE  RtInv'
<1>1. told \in [Sessions -> [Items -> {"none", "new", "gone"}]] /\ ses'[s] = r
  BY DEF RtInv, RtTypeOK
<1>2. r.sub = "asked" => r.inbox = <<>> /\ \A i \in Items : told[s][i] # "new"
  BY DEF RtInv, Fresh
<1>3. r.sub = "live" => \A i \in Messages : <<s, i>> \notin excused =>
        \A k \in DOMAIN r.inbox : r.inbox[k].is # "clear"
  BY DEF RtInv, NoClear
<1>4. ASSUME r.sub = "live", NEW i \in Items, <<s, i>> \notin excused PROVE Served(s, i)'
  <2>1. Served(s, i)
    BY <1>4 DEF RtInv, AllServed
  <2>2. ses'[s].inbox = ses[s].inbox /\ (ses'[s].conn = "open" => ses[s].conn = "open")
    BY <1>1
  <2> QED
    BY <2>1, <2>2, Unworked, StaysServed
<1> QED
  BY <1>1, <1>2, <1>3, <1>4, SessionInv

LEMMA BreakInv ==
  ASSUME RtInv, NEW s \in Sessions, Break(s)
  PROVE  RtInv'
<1>1. PICK r : r = [ses[s] EXCEPT !.conn = "broken"]
  OBVIOUS
<1>2. /\ ses' = [ses EXCEPT ![s] = r] /\ ses[s] \in SesRecords
      /\ UNCHANGED <<holds, spent, told, h, excused, announced>>
  BY <1>1 DEF Break, Set, RtInv, RtTypeOK
<1>3. r \in SesRecords /\ r.conn = "broken" /\ r.inbox = ses[s].inbox /\ r.sub = ses[s].sub
  BY <1>1, <1>2 DEF SesRecords
<1> QED
  BY <1>2, <1>3, HushInv

LEMMA ReadFailsInv ==
  ASSUME RtInv, NEW s \in Sessions, ReadFails(s)
  PROVE  RtInv'
<1>1. PICK r : r = [ses[s] EXCEPT !.reader = "ended", !.sub = "closed"]
  OBVIOUS
<1>2. /\ ses' = [ses EXCEPT ![s] = r] /\ ses[s] \in SesRecords /\ ses[s].reader = "reading"
      /\ UNCHANGED <<holds, spent, told, h, excused, announced>>
  BY <1>1 DEF ReadFails, Set, RtInv, RtTypeOK
<1>3. r.conn = ses[s].conn /\ r.inbox = ses[s].inbox /\ r.sub = "closed"
  BY <1>1, <1>2 DEF SesRecords
<1>4. r \in SesRecords
  BY <1>1, <1>2 DEF SesRecords
<1>5. ses[s].conn # "none"
  BY <1>2 DEF RtInv, Fresh, Closed
<1> QED
  BY <1>2, <1>3, <1>4, <1>5, HushInv

LEMMA WriterEndsInv ==
  ASSUME RtInv, NEW s \in Sessions, WriterEnds(s)
  PROVE  RtInv'
<1>1. PICK r : r = [ses[s] EXCEPT !.writer = "ended", !.sub = "closed", !.conn = "closed",
                                  !.inbox = <<>>]
  OBVIOUS
<1>2. /\ ses' = [ses EXCEPT ![s] = r] /\ ses[s] \in SesRecords
      /\ UNCHANGED <<holds, spent, h, announced>>
      /\ told' = [q \in Sessions |-> IF q \in {s} THEN [i \in Items |-> "none"] ELSE told[q]]
      /\ excused' = excused \ ({s} \X Items)
  BY <1>1 DEF WriterEnds, Forget, Set, RtInv, RtTypeOK
<1>3. r \in SesRecords /\ r.conn = "closed" /\ r.inbox = <<>> /\ r.sub = "closed"
  <2>1. <<>> \in Seq(Events)
    OBVIOUS
  <2>2. r \in SesRecords
    BY <1>1, <1>2, <2>1 DEF SesRecords
  <2>3. r.conn = "closed" /\ r.inbox = <<>> /\ r.sub = "closed"
    BY <1>1, <1>2 DEF SesRecords
  <2> QED
    BY <2>2, <2>3
<1>4. /\ told' \in [Sessions -> [Items -> {"none", "new", "gone"}]]
      /\ \A q \in Sessions : q # s => told'[q] = told[q]
  BY <1>2 DEF RtInv, RtTypeOK
<1>5. \A q, i : q # s /\ <<q, i>> \in excused => <<q, i>> \in excused'
  BY <1>2
<1> QED
  BY <1>2, <1>3, <1>4, <1>5, SessionInv

LEMMA ApplyType ==
  ASSUME NEW n \in Events, NEW t \in [Items -> {"none", "new", "gone"}]
  PROVE  Apply(n, t) \in [Items -> {"none", "new", "gone"}]
<1>1. n.is \in Kinds
  BY DEF Events
<1> QED
  BY <1>1 DEF Kinds, Apply

\* The first event of the queue reaches the client.
LEMMA DeliverInv ==
  ASSUME RtInv, NEW s \in Sessions, Deliver(s)
  PROVE  RtInv'
<1>1. PICK r, b : r = [ses[s] EXCEPT !.inbox = Tail(ses[s].inbox)] /\ b = ses[s].inbox
  OBVIOUS
<1>2. /\ ses' = [ses EXCEPT ![s] = r] /\ ses[s] \in SesRecords /\ b # <<>>
      /\ UNCHANGED <<holds, spent, h, excused, announced>>
      /\ told' = IF ses[s].conn = "open" THEN [told EXCEPT ![s] = Apply(Head(b), told[s])] ELSE told
  BY <1>1 DEF Deliver, Set, RtInv, RtTypeOK
<1>3. b \in Seq(Events) /\ Head(b) \in Events /\ Tail(b) \in Seq(Events)
  BY <1>1, <1>2 DEF SesRecords
<1>4. /\ r \in SesRecords /\ r.conn = ses[s].conn /\ r.inbox = Tail(b) /\ r.sub = ses[s].sub
      /\ ses'[s] = r
  BY <1>1, <1>2, <1>3 DEF SesRecords, RtInv, RtTypeOK
<1>5. told \in [Sessions -> [Items -> {"none", "new", "gone"}]]
  BY DEF RtInv, RtTypeOK
<1>6. /\ told' \in [Sessions -> [Items -> {"none", "new", "gone"}]]
      /\ \A q \in Sessions : q # s => told'[q] = told[q]
      /\ ses[s].conn = "open" => told'[s] = Apply(Head(b), told[s])
  BY <1>2, <1>3, <1>5, ApplyType
<1>7. r.conn # "none" /\ r.sub # "asked"
  BY <1>1, <1>2, <1>4 DEF RtInv, Fresh
<1>8. ASSUME r.sub = "live", NEW i \in Messages, <<s, i>> \notin excused
      PROVE  \A k \in DOMAIN b : b[k].is # "clear"
  BY <1>1, <1>4, <1>8 DEF RtInv, NoClear
<1>9. ASSUME r.sub = "live", NEW i \in Messages, <<s, i>> \notin excused
      PROVE  Head(b).is # "clear" /\ \A k \in DOMAIN Tail(b) : Tail(b)[k].is # "clear"
  BY <1>2, <1>3, <1>8, <1>9
<1>10. ASSUME r.sub = "live", NEW i \in Items, <<s, i>> \notin excused PROVE Served(s, i)'
  <2>1. Served(s, i)
    BY <1>4, <1>10 DEF RtInv, AllServed
  <2>2. EndOwed(s, i)'
    BY <1>2, <2>1, Unworked DEF Served, EndOwed
  <2>3. ASSUME r.conn = "open" PROVE LastWord(s, i)'
    <3>1. LastWord(s, i)
      BY <1>4, <2>1, <2>3 DEF Served
    <3>2. PICK t, x : t = told[s] /\ x = Apply(Head(b), t)[i]
      OBVIOUS
    <3>3. /\ EndsNew(b, t[i], i) => EndsNew(Tail(b), x, i)
          /\ EndsOld(b, t[i], i) => EndsOld(Tail(b), x, i)
      BY <1>2, <1>3, <1>5, <1>9, <1>10, <3>2, TailEnds
    <3>4. PICK c : c = Tail(b)
      OBVIOUS
    <3>5. ses'[s].inbox = c /\ told'[s][i] = x
      BY <1>4, <1>6, <2>3, <3>2, <3>4
    <3>6. /\ i \in holds => EndsNew(c, x, i) \/ OwedNew(UserOf[s], i)
          /\ i \notin holds => EndsOld(c, x, i) \/ OwedGone(UserOf[s], i)
      BY <1>1, <3>1, <3>2, <3>3, <3>4 DEF LastWord
    <3> QED
      BY <1>2, <3>5, <3>6, Unworked DEF LastWord
  <2> QED
    BY <1>4, <2>2, <2>3 DEF Served
<1>11. r.sub = "live" =>
         /\ \A i \in Messages : <<s, i>> \notin excused' =>
              \A k \in DOMAIN r.inbox : r.inbox[k].is # "clear"
         /\ \A i \in Items : <<s, i>> \notin excused' => Served(s, i)'
  BY <1>2, <1>4, <1>9, <1>10
<1>12. /\ r.sub = "live" => ses[s].sub = "live" /\ (<<s, Ring>> \notin excused' => <<s, Ring>> \notin excused)
       /\ \A q, i : <<q, i>> \in excused => <<q, i>> \in excused'
  BY <1>2, <1>4
<1> QED
  BY <1>2, <1>4, <1>6, <1>7, <1>11, <1>12, SessionInv

\* No session is left to be told anything.
LEMMA CrashInv ==
  ASSUME RtInv, Crash
  PROVE  RtInv'
<1>1. PICK r : r = [conn |-> "closed", sub |-> "closed", reader |-> "ended", writer |-> "ended",
                    inbox |-> <<>>]
  OBVIOUS
<1>2. /\ ses' = [s \in Sessions |-> IF ses[s].conn = "none" THEN Closed ELSE r]
      /\ h' = [p \in Handlers |-> IF h[p].at = "idle" THEN h[p] ELSE Ended(p)]
      /\ told' = [s \in Sessions |-> IF s \in Sessions THEN [i \in Items |-> "none"] ELSE told[s]]
      /\ UNCHANGED <<holds, spent, throttled, announced>>
  BY <1>1 DEF Crash, Forget
<1>3. /\ r \in SesRecords /\ r.conn = "closed" /\ r.sub = "closed"
      /\ Closed \in SesRecords /\ Closed.conn = "none" /\ Closed.sub = "none" /\ Closed.inbox = <<>>
  BY <1>1 DEF SesRecords, Closed
<1>4. RtTypeOK'
  BY <1>2, <1>3 DEF RtInv, RtTypeOK
<1>5. Fresh'
  BY <1>2, <1>3 DEF Fresh
<1>6. \A s \in Sessions : ses'[s].sub # "live"
  BY <1>2, <1>3
<1>7. \A p \in Handlers :
        /\ RightJob(p, h'[p]) /\ h'[p].item = None /\ h'[p].at = "idle"
        /\ h'[p].doing \in {"nothing", "done"}
  BY <1>2, IdleJobs DEF RtInv, Job, RightJob
<1>8. Job'
  BY <1>2, <1>7 DEF Job, RightJob
<1>9. OnceOnly'
  <2>1. \A i : Over(i) => Over(i)'
    BY <1>2, <1>7 DEF Over, Unstored
  <2>2. \A u, i : <<u, i>> \in announced' => i # Ring /\ Over(i)'
    BY <1>2, <2>1 DEF RtInv, OnceOnly
  <2>3. holds' \subseteq spent'
    BY <1>2 DEF RtInv, OnceOnly
  <2>4. ASSUME NEW p \in Handlers, NEW q \in Handlers, h'[p].doing = "message"
        PROVE  p = q
    BY <1>7, <2>4
  <2> QED
    BY <1>7, <2>2, <2>3, <2>4 DEF OnceOnly
<1> QED
  BY <1>4, <1>5, <1>6, <1>8, <1>9 DEF RtInv, RingMatch, NoClear, AllServed

-----------------------------------------------------------------------------
(* Publishing.                                                             *)

LEMMA EventIs ==
  ASSUME Job, NEW p \in Handlers, h[p].at = "publish"
  PROVE  /\ Event(p) \in Events /\ Event(p).item = h[p].item
         /\ Event(p).is = "new" <=> h[p].doing \in Begins
         /\ Event(p).is = "gone" <=> h[p].doing \in Stops
         /\ Event(p).is = "clear" <=> h[p].doing = "clear"
<1>1. h[p].doing \in Begins \cup Stops \cup {"typing", "clear"} /\ h[p].item \in Items \cup {None}
  BY DEF Job, RightJob, JobRecords, Begins, Stops
<1>2. PICK n : n = Event(p)
  OBVIOUS
<1>3. n.item = h[p].item
  BY <1>2 DEF Event
<1>4. CASE h[p].doing \in Begins
  <2>1. n = [is |-> "new", item |-> h[p].item]
    BY <1>2, <1>4 DEF Event, Begins
  <2> QED
    BY <1>1, <1>2, <1>4, <2>1 DEF Events, Kinds, Begins, Stops
<1>5. CASE h[p].doing \in Stops
  <2>1. n = [is |-> "gone", item |-> h[p].item]
    BY <1>2, <1>5 DEF Event, Stops
  <2> QED
    BY <1>1, <1>2, <1>5, <2>1 DEF Events, Kinds, Begins, Stops
<1>6. CASE h[p].doing \in {"typing", "clear"}
  <2>1. n = [is |-> h[p].doing, item |-> h[p].item]
    BY <1>2, <1>6 DEF Event
  <2> QED
    BY <1>1, <1>2, <1>6, <2>1 DEF Events, Kinds, Begins, Stops
<1> QED
  BY <1>1, <1>4, <1>5, <1>6

\* One event goes to the sessions of one user.
PublishTo(p, r, n, u, R) ==
  /\ h[p].at = "publish" /\ u \in h[p].to /\ n = Event(p)
  /\ h' = [h EXCEPT ![p] = r]
  /\ r = IF h[p].to = {u} THEN Ended(p) ELSE [h[p] EXCEPT !.to = h[p].to \ {u}]
  /\ R \subseteq {s \in Of(u) : ses[s].sub = "live"}
  /\ ses' = [s \in Sessions |->
               IF s \in R THEN [ses[s] EXCEPT !.inbox = Append(ses[s].inbox, n)] ELSE ses[s]]
  /\ UNCHANGED <<holds, spent, told, throttled>>
  /\ n.is = "clear" => excused' = excused \cup (R \X Messages)
  /\ n.is # "clear" =>
       Excuse(IF n.is = "new" /\ n.item # Ring /\ <<u, n.item>> \in announced THEN Of(u) ELSE Of(u) \ R,
              n.item)
  /\ announced' = IF n.is = "gone" /\ n.item # Ring THEN announced \cup {<<u, n.item>>} ELSE announced

LEMMA PublishIs ==
  ASSUME NEW p \in Handlers, Publish(p)
  PROVE  \E r, n, u, R : PublishTo(p, r, n, u, R)
<1>1. PICK n : n = Event(p)
  OBVIOUS
<1>2. PICK u \in h[p].to, ok \in BOOLEAN :
       LET reached == {s \in Of(u) : ok /\ Hears(s)}
           late == n.is = "new" /\ n.item # Ring /\ <<u, n.item>> \in announced IN
       /\ ses' = [s \in Sessions |->
                   IF s \in reached THEN [ses[s] EXCEPT !.inbox = Append(ses[s].inbox, n)]
                   ELSE ses[s]]
       /\ IF n.is = "clear" THEN excused' = excused \cup (reached \X Messages)
          ELSE Excuse(IF late THEN Of(u) ELSE Of(u) \ reached, n.item)
       /\ announced' = IF n.is = "gone" /\ n.item # Ring
                       THEN announced \cup {<<u, n.item>>} ELSE announced
       /\ h' = [h EXCEPT ![p] = IF h[p].to = {u} THEN Ended(p)
                                ELSE [h[p] EXCEPT !.to = h[p].to \ {u}]]
  BY <1>1 DEF Publish
<1>3. PICK R, r : /\ R = {s \in Of(u) : ok /\ Hears(s)}
                  /\ r = IF h[p].to = {u} THEN Ended(p) ELSE [h[p] EXCEPT !.to = h[p].to \ {u}]
  OBVIOUS
<1>4. R \subseteq {s \in Of(u) : ses[s].sub = "live"}
  BY <1>3 DEF Hears
<1>5. PublishTo(p, r, n, u, R)
  BY <1>1, <1>2, <1>3, <1>4 DEF PublishTo, Publish
<1> QED
  BY <1>5

\* What that means for the handler, and for the sessions.
Turned(p, r, n, u) ==
  /\ n \in Events /\ n.item = h[p].item /\ n.item \in spent \cup {None}
  /\ n.is = "new" <=> h[p].doing \in Begins
  /\ n.is = "gone" <=> h[p].doing \in Stops
  /\ n.is = "clear" => n.item = Chat
  /\ RightJob(p, r) /\ r.item \in spent \cup {None}
  /\ \/ r.at = "idle" /\ r.item = None /\ r.doing \in {"nothing", "done"} /\ h[p].to = {u}
     \/ /\ r.at = "publish" /\ r.item = h[p].item /\ r.doing = h[p].doing
        /\ r.to = h[p].to \ {u}
  /\ h'[p] = r /\ \A q \in Handlers : q # p => h'[q] = h[q]
  /\ Job'

Reached(n, u, R) ==
  /\ R \subseteq Sessions /\ \A s \in R : UserOf[s] = u /\ ses[s].sub = "live"
  /\ ses' \in [Sessions -> SesRecords]
  /\ \A s \in Sessions : /\ ses'[s].conn = ses[s].conn /\ ses'[s].sub = ses[s].sub
                         /\ s \in R => ses'[s].inbox = Append(ses[s].inbox, n)
                         /\ s \notin R => ses'[s] = ses[s]
  /\ excused \subseteq excused'
  /\ n.is = "clear" => \A s \in R, i \in Messages : <<s, i>> \in excused'
  /\ \A s \in Of(u) : /\ ses[s].sub = "live" /\ n.is # "clear" /\ n.item # None
                      /\ <<s, n.item>> \notin excused'
                      => /\ s \in R
                         /\ n.is = "new" /\ n.item # Ring => <<u, n.item>> \notin announced

LEMMA PublishFacts ==
  ASSUME RtInv, NEW p \in Handlers, NEW r, NEW n, NEW u, NEW R, PublishTo(p, r, n, u, R)
  PROVE  Turned(p, r, n, u)
<1>1. /\ h[p] \in JobRecords /\ h[p].at = "publish" /\ h[p].item \in spent \cup {None}
      /\ RightJob(p, h[p])
  BY DEF PublishTo, RtInv, Job
<1>2. /\ n \in Events /\ n.item = h[p].item
      /\ n.is = "new" <=> h[p].doing \in Begins
      /\ n.is = "gone" <=> h[p].doing \in Stops
      /\ n.is = "clear" <=> h[p].doing = "clear"
  BY EventIs DEF PublishTo, RtInv
<1>3. n.is = "clear" => n.item = Chat
  BY <1>1, <1>2 DEF RightJob
<1>4. CASE h[p].to = {u}
  <2>1. r = Ended(p)
    BY <1>4 DEF PublishTo
  <2>2. RightJob(p, r) /\ r.at = "idle" /\ r.item = None /\ r.doing \in {"nothing", "done"}
    BY <2>1, IdleJobs
  <2>3. Job' /\ h'[p] = r /\ \A q \in Handlers : q # p => h'[q] = h[q]
    BY <2>2, Turn DEF PublishTo, RtInv
  <2> QED
    BY <1>1, <1>2, <1>3, <1>4, <2>2, <2>3 DEF Turned
<1>5. CASE h[p].to # {u}
  <2>1. r = [h[p] EXCEPT !.to = h[p].to \ {u}]
    BY <1>5 DEF PublishTo
  <2>2. /\ r \in JobRecords /\ r.at = "publish" /\ r.item = h[p].item /\ r.doing = h[p].doing
        /\ r.to = h[p].to \ {u}
    BY <1>1, <2>1 DEF JobRecords
  <2>3. RightJob(p, r)
    BY <1>1, <2>2 DEF RightJob
  <2>4. Job' /\ h'[p] = r /\ \A q \in Handlers : q # p => h'[q] = h[q]
    BY <1>1, <2>2, <2>3, Turn DEF PublishTo, RtInv
  <2> QED
    BY <1>1, <1>2, <1>3, <2>2, <2>3, <2>4 DEF Turned
<1> QED
  BY <1>4, <1>5

LEMMA PublishSessions ==
  ASSUME RtInv, NEW p \in Handlers, NEW r, NEW n, NEW u, NEW R, PublishTo(p, r, n, u, R)
  PROVE  Reached(n, u, R)
<1>1. n \in Events
  BY PublishFacts DEF Turned
<1>2. R \subseteq Sessions /\ \A s \in R : UserOf[s] = u /\ ses[s].sub = "live"
  BY DEF PublishTo, Of
<1>3. ASSUME NEW s \in Sessions
      PROVE  /\ ses'[s] \in SesRecords /\ ses'[s].conn = ses[s].conn /\ ses'[s].sub = ses[s].sub
             /\ s \in R => ses'[s].inbox = Append(ses[s].inbox, n)
             /\ s \notin R => ses'[s] = ses[s]
  <2>1. ses[s] \in SesRecords
    BY DEF RtInv, RtTypeOK
  <2>2. CASE s \notin R
    BY <2>1, <2>2 DEF PublishTo
  <2>3. CASE s \in R
    <3>1. PICK b : b = Append(ses[s].inbox, n)
      OBVIOUS
    <3>2. b \in Seq(Events)
      BY <1>1, <2>1, <3>1 DEF SesRecords
    <3>3. ses'[s] = [ses[s] EXCEPT !.inbox = b]
      BY <2>3, <3>1 DEF PublishTo
    <3>4. ses'[s] \in SesRecords
      BY <2>1, <3>2, <3>3 DEF SesRecords
    <3>5. ses'[s].conn = ses[s].conn /\ ses'[s].sub = ses[s].sub /\ ses'[s].inbox = b
      BY <2>1, <3>3 DEF SesRecords
    <3> QED
      BY <2>3, <3>1, <3>4, <3>5
  <2> QED
    BY <2>2, <2>3
<1>4. ses' \in [Sessions -> SesRecords]
  BY <1>3 DEF PublishTo
<1>5. CASE n.is = "clear"
  <2>1. excused' = excused \cup (R \X Messages)
    BY <1>5 DEF PublishTo
  <2> QED
    BY <1>2, <1>3, <1>4, <1>5, <2>1 DEF Reached
<1>6. CASE n.is # "clear"
  <2>1. PICK who :
          /\ who = IF n.is = "new" /\ n.item # Ring /\ <<u, n.item>> \in announced THEN Of(u) ELSE Of(u) \ R
          /\ Excuse(who, n.item)
    BY <1>6 DEF PublishTo
  <2>2. /\ excused \subseteq excused'
        /\ \A s \in Sessions : s \in who /\ ses[s].sub = "live" /\ n.item # None => <<s, n.item>> \in excused'
    BY <2>1, ExcuseIs
  <2>3. Of(u) \subseteq Sessions
    BY DEF Of
  <2> QED
    BY <1>2, <1>3, <1>4, <1>6, <2>1, <2>2, <2>3 DEF Reached
<1> QED
  BY <1>5, <1>6

\* The event is no news of i: the session hears nothing of it.
LEMMA OtherNews ==
  ASSUME RtInv, NEW p \in Handlers, NEW r, NEW n, NEW u, NEW R, PublishTo(p, r, n, u, R),
         \A i : Over(i)' <=> Over(i),
         NEW s \in Sessions, NEW i \in Items, Served(s, i),
         UserOf[s] # u \/ (~IsNew(n, i) /\ ~IsGone(n, i))
  PROVE  Served(s, i)'
<1>0. Turned(p, r, n, u) /\ Reached(n, u, R)
  BY PublishFacts, PublishSessions
<1>1. /\ n \in Events /\ n.item = h[p].item
      /\ n.is = "new" <=> h[p].doing \in Begins
      /\ n.is = "gone" <=> h[p].doing \in Stops
      /\ \/ r.at = "idle" /\ h[p].to = {u}
         \/ r.at = "publish" /\ r.item = h[p].item /\ r.doing = h[p].doing /\ r.to = h[p].to \ {u}
      /\ h'[p] = r /\ \A q \in Handlers : q # p => h'[q] = h[q]
      /\ h[p].at = "publish"
  BY <1>0 DEF PublishTo, Turned
<1>2. ASSUME h[p].item = i, Owes(p, UserOf[s]), h[p].doing \in Begins \cup Stops
      PROVE  h'[p].item = i /\ h'[p].doing = h[p].doing /\ h'[p].at = "publish" /\ UserOf[s] \in h'[p].to
  <2>1. UserOf[s] \in h[p].to
    BY <1>1, <1>2 DEF Owes
  <2>2. UserOf[s] # u
    BY <1>1, <1>2 DEF IsNew, IsGone
  <2> QED
    BY <1>1, <1>2, <2>1, <2>2
<1>3. /\ OwedNew(UserOf[s], i) => OwedNew(UserOf[s], i)'
      /\ OwedGone(UserOf[s], i) => OwedGone(UserOf[s], i)'
  BY <1>1, <1>2, StaysOwed
<1>4. EndOwed(s, i)'
  <2>1. <<UserOf[s], i>> \in announced => <<UserOf[s], i>> \in announced'
    BY DEF PublishTo
  <2> QED
    BY <1>3, <2>1 DEF Served, EndOwed
<1>5. ASSUME ses'[s].conn = "open" PROVE LastWord(s, i)'
  <2>1. LastWord(s, i) /\ ses[s].inbox \in Seq(Events)
    BY <1>0, <1>5 DEF Reached, Served, RtInv, RtTypeOK, SesRecords
  <2>2. PICK b, c, x : b = ses[s].inbox /\ c = ses'[s].inbox /\ x = told[s][i]
    OBVIOUS
  <2>3. /\ EndsNew(b, x, i) => EndsNew(c, x, i)
        /\ EndsOld(b, x, i) => EndsOld(c, x, i)
    <3>1. CASE s \in R
      <4>1. UserOf[s] = u /\ c = Append(b, n)
        BY <1>0, <2>2, <3>1 DEF Reached
      <4> QED
        BY <1>1, <2>1, <2>2, <4>1, AppendEnds
    <3>2. CASE s \notin R
      BY <1>0, <2>2, <3>2 DEF Reached
    <3> QED
      BY <3>1, <3>2
  <2>4. /\ i \in holds => EndsNew(c, x, i) \/ OwedNew(UserOf[s], i)'
        /\ i \notin holds => EndsOld(c, x, i) \/ OwedGone(UserOf[s], i)'
    BY <1>3, <2>1, <2>2, <2>3 DEF LastWord
  <2>5. holds' = holds /\ told'[s][i] = x /\ ses'[s].inbox = c
    BY <2>2 DEF PublishTo
  <2> QED
    BY <2>4, <2>5 DEF LastWord
<1> QED
  BY <1>4, <1>5 DEF Served

\* The event is news of i to a session that is not excused: it is queued, and
\* it says what holds or somebody else still has the last word.
LEMMA News ==
  ASSUME RtInv, NEW p \in Handlers, NEW r, NEW n, NEW u, NEW R, PublishTo(p, r, n, u, R),
         \A i : Over(i)' <=> Over(i),
         NEW s \in Sessions, NEW i \in Items, Served(s, i),
         ses[s].sub = "live", <<s, i>> \notin excused, <<s, i>> \notin excused',
         UserOf[s] = u, IsNew(n, i) \/ IsGone(n, i)
  PROVE  Served(s, i)'
<1>0. Turned(p, r, n, u) /\ Reached(n, u, R)
  BY PublishFacts, PublishSessions
<1>1. /\ n \in Events /\ n.item = h[p].item /\ i \in spent
      /\ n.is = "new" <=> h[p].doing \in Begins
      /\ n.is = "gone" <=> h[p].doing \in Stops
      /\ h'[p] = r /\ \A q \in Handlers : q # p => h'[q] = h[q]
      /\ h[p].at = "publish" /\ n.item = i /\ i # None
  BY <1>0, ItemFacts DEF Turned, PublishTo, IsNew, IsGone
<1>2. s \in R /\ (n.is = "new" /\ i # Ring => <<u, i>> \notin announced)
  BY <1>0, <1>1 DEF Reached, Of, IsNew, IsGone
<1>3. PICK b, x : b = ses[s].inbox /\ x = told[s][i]
  OBVIOUS
<1>4. b \in Seq(Events)
  BY <1>3 DEF RtInv, RtTypeOK, SesRecords
<1>5. ses'[s].inbox = Append(b, n) /\ told'[s][i] = x /\ holds' = holds
  BY <1>0, <1>2, <1>3 DEF Reached, PublishTo
<1>6. PICK c : c = Append(b, n)
  OBVIOUS
<1>7. RightJob(p, h[p])
  BY DEF RtInv, Job
<1>8. i = Ring => IF Ring \in holds THEN h[p].doing = "invite" ELSE h[p].doing = "hangup"
  BY <1>1 DEF RtInv, RingMatch
<1>9. CASE IsGone(n, i)
  <2>1. i \notin holds
    <3>1. CASE i = Ring
      BY <1>1, <1>8, <1>9, <3>1 DEF IsGone, Stops
    <3>2. CASE i # Ring
      <4>1. h[p].doing \in {"delete", "drop"}
        BY <1>1, <1>7, <1>9, <3>2 DEF IsGone, Stops, RightJob
      <4>2. Over(i)
        BY <1>1, <4>1 DEF RtInv, OnceOnly
      <4> QED
        BY <4>2 DEF Over
    <3> QED
      BY <3>1, <3>2
  <2>2. EndsOld(c, x, i)
    BY <1>1, <1>4, <1>6, <1>9, AppendEnds
  <2>3. i # Ring => <<UserOf[s], i>> \in announced'
    BY <1>1, <1>9 DEF PublishTo, IsGone
  <2>4. EndOwed(s, i)'
    BY <2>3 DEF EndOwed
  <2>5. LastWord(s, i)'
    BY <1>5, <1>6, <2>1, <2>2 DEF LastWord
  <2> QED
    BY <2>4, <2>5 DEF Served
<1>10. CASE IsNew(n, i) /\ i \in holds
  <2>1. EndsNew(c, x, i)
    BY <1>1, <1>4, <1>6, <1>10, AppendEnds
  <2>2. ~Over(i)'
    BY <1>10 DEF Over
  <2>3. EndOwed(s, i)'
    BY <2>2 DEF EndOwed
  <2>4. LastWord(s, i)'
    BY <1>5, <1>6, <1>10, <2>1 DEF LastWord
  <2> QED
    BY <2>3, <2>4 DEF Served
<1>11. CASE IsNew(n, i) /\ i \notin holds
  <2>1. h[p].doing \in {"message", "create"} /\ i # Ring
    BY <1>1, <1>7, <1>8, <1>11, ItemFacts DEF IsNew, Begins, RightJob
  <2>2. ~Unstored(i)
    <3>1. ASSUME NEW q \in Handlers, h[q].at = "store", h[q].item = i PROVE FALSE
      <4>1. h[q].doing = "message" /\ i \in Messages
        BY <3>1 DEF RtInv, Job, RightJob
      <4>2. h[p].doing = "message"
        BY <1>1, <1>7, <2>1, <4>1, ItemFacts DEF RightJob
      <4>3. p = q
        BY <1>1, <3>1, <4>1, <4>2 DEF RtInv, OnceOnly
      <4> QED
        BY <1>1, <3>1, <4>3
    <3> QED
      BY <3>1 DEF Unstored
  <2>3. Over(i)
    BY <1>1, <1>11, <2>2 DEF Over
  <2>4. OwedGone(UserOf[s], i)
    BY <1>2, <1>11, <2>1, <2>3 DEF Served, EndOwed, IsNew
  <2>5. h[p].doing \notin Stops
    BY <2>1 DEF Stops
  <2>6. OwedGone(UserOf[s], i)'
    <3>1. PICK q \in Handlers : h[q].item = i /\ h[q].doing \in Stops /\ Owes(q, UserOf[s])
      BY <2>4 DEF OwedGone
    <3>2. h'[q] = h[q]
      BY <1>1, <2>5, <3>1
    <3> QED
      BY <3>1, <3>2 DEF OwedGone, Owes
  <2> QED
    BY <1>5, <1>11, <2>6 DEF Served, EndOwed, LastWord
<1> QED
  BY <1>9, <1>10, <1>11

LEMMA PublishInv ==
  ASSUME RtInv, NEW p \in Handlers, Publish(p)
  PROVE  RtInv'
<1>1. PICK r, n, u, R : PublishTo(p, r, n, u, R)
  BY PublishIs
<1>0. Turned(p, r, n, u) /\ Reached(n, u, R)
  BY <1>1, PublishFacts, PublishSessions
<1>2. /\ h[p].at = "publish"
      /\ UNCHANGED <<holds, spent, told>>
      /\ announced' = IF n.is = "gone" /\ n.item # Ring THEN announced \cup {<<u, n.item>>} ELSE announced
  BY <1>1 DEF PublishTo
<1>3. /\ n \in Events /\ n.item = h[p].item
      /\ n.is = "gone" <=> h[p].doing \in Stops
      /\ n.is = "clear" => n.item = Chat
      /\ \/ r.at = "idle" /\ r.item = None /\ r.doing \in {"nothing", "done"}
         \/ r.at = "publish" /\ r.item = h[p].item /\ r.doing = h[p].doing
      /\ h'[p] = r /\ \A q \in Handlers : q # p => h'[q] = h[q]
      /\ Job'
  BY <1>0 DEF Turned
<1>4. /\ R \subseteq Sessions
      /\ ses' \in [Sessions -> SesRecords]
      /\ \A s \in Sessions : /\ ses'[s].conn = ses[s].conn /\ ses'[s].sub = ses[s].sub
                             /\ s \in R => ses'[s].inbox = Append(ses[s].inbox, n) /\ ses[s].sub = "live"
                             /\ s \notin R => ses'[s] = ses[s]
      /\ excused \subseteq excused'
      /\ n.is = "clear" => \A s \in R, i \in Messages : <<s, i>> \in excused'
  BY <1>0 DEF Reached
<1>5. \A i : Over(i)' <=> Over(i)
  <2>1. \A i : Unstored(i)' <=> Unstored(i)
    BY <1>2, <1>3 DEF Unstored
  <2> QED
    BY <1>2, <2>1 DEF Over
<1>6. RtTypeOK'
  BY <1>2, <1>4 DEF RtInv, RtTypeOK
<1>7. Fresh'
  <2>1. ASSUME NEW s \in Sessions, s \in R PROVE ses[s].conn # "none" /\ ses[s].sub = "live"
    BY <1>4, <2>1 DEF RtInv, Fresh, Closed
  <2> QED
    BY <1>2, <1>4, <2>1 DEF RtInv, Fresh
<1>8. OnceOnly'
  <2>1. ASSUME n.is = "gone", n.item # Ring PROVE Over(n.item)
    <3>1. h[p].doing \in {"delete", "drop"}
      BY <1>3, <2>1 DEF RtInv, Job, RightJob, Stops
    <3> QED
      BY <1>2, <1>3, <3>1 DEF RtInv, OnceOnly
  <2>2. PICK j : j = n.item
    OBVIOUS
  <2>3. n.is = "gone" /\ j # Ring => Over(j)'
    BY <1>5, <2>1, <2>2
  <2>4. \A v, i : <<v, i>> \in announced' => <<v, i>> \in announced \/ (i # Ring /\ Over(i)')
    <3>1. ASSUME NEW v, NEW i, <<v, i>> \in announced', <<v, i>> \notin announced
          PROVE  i # Ring /\ Over(i)'
      <4>1. i = j /\ n.is = "gone" /\ j # Ring
        BY <1>2, <2>2, <3>1
      <4>2. Over(i)
        BY <2>1, <2>2, <4>1
      <4> QED
        BY <1>5, <4>1, <4>2
    <3> QED
      BY <3>1
  <2>5. r.doing = "message" => \A q \in Handlers : q # p /\ h[q].doing = "message" => h[q].item # r.item
    BY <1>3 DEF RtInv, OnceOnly
  <2>6. r.doing = "delete" \/ (r.doing = "drop" /\ r.at = "publish") => Over(r.item)'
    <3>1. r.doing = "delete" \/ (r.doing = "drop" /\ r.at = "publish") => Over(r.item)
      BY <1>2, <1>3 DEF RtInv, OnceOnly
    <3> QED
      BY <1>5, <3>1
  <2>7. holds' \subseteq spent' /\ r.at # "store"
    BY <1>2, <1>3 DEF RtInv, OnceOnly
  <2> QED
    BY <1>2, <1>3, <1>5, <2>4, <2>5, <2>6, <2>7, StaysOnce DEF RtInv
<1>9. RingMatch'
  <2>1. r.item = Ring => h[p].item = Ring /\ r.doing = h[p].doing
    BY <1>3, ItemFacts
  <2> QED
    BY <1>2, <1>3, <1>4, <2>1, StaysMatched
<1>10. NoClear'
  <2>1. ASSUME NEW s \in Sessions, NEW i \in Messages, ses'[s].sub = "live", <<s, i>> \notin excused',
               NEW k \in DOMAIN ses'[s].inbox
        PROVE  ses'[s].inbox[k].is # "clear"
    <3>1. /\ \A m \in DOMAIN ses[s].inbox : ses[s].inbox[m].is # "clear"
          /\ ses[s].inbox \in Seq(Events)
      BY <1>4, <2>1 DEF RtInv, NoClear, RtTypeOK, SesRecords
    <3>2. CASE s \in R
      <4>1. n.is # "clear" /\ ses'[s].inbox = Append(ses[s].inbox, n)
        BY <1>4, <2>1, <3>2
      <4>2. k \in DOMAIN ses[s].inbox \/ k = Len(ses[s].inbox) + 1
        BY <1>3, <2>1, <3>1, <4>1
      <4> QED
        BY <1>3, <2>1, <3>1, <4>1, <4>2
    <3>3. CASE s \notin R
      BY <1>4, <2>1, <3>1, <3>3
    <3> QED
      BY <3>2, <3>3
  <2> QED
    BY <2>1 DEF NoClear
<1>11. ASSUME NEW s \in Sessions, NEW i \in Items, ses'[s].sub = "live", <<s, i>> \notin excused'
       PROVE  Served(s, i)'
  <2>1. ses[s].sub = "live" /\ <<s, i>> \notin excused /\ Served(s, i)
    BY <1>4, <1>11 DEF RtInv, AllServed
  <2>2. CASE UserOf[s] = u /\ (IsNew(n, i) \/ IsGone(n, i))
    BY <1>1, <1>5, <1>11, <2>1, <2>2, News
  <2>3. CASE UserOf[s] # u \/ (~IsNew(n, i) /\ ~IsGone(n, i))
    BY <1>1, <1>5, <2>1, <2>3, OtherNews
  <2> QED
    BY <2>2, <2>3
<1>12. AllServed'
  BY <1>11 DEF AllServed
<1> QED
  BY <1>3, <1>6, <1>7, <1>8, <1>9, <1>10, <1>12 DEF RtInv

-----------------------------------------------------------------------------

LEMMA RtInitInv == RtInit => RtInv
<1> SUFFICES ASSUME RtInit PROVE RtInv
  OBVIOUS
<1>1. /\ holds \in {{}, {Chat}} /\ spent = holds /\ excused = {} /\ announced = {}
      /\ ses = [s \in Sessions |-> Closed]
      /\ told = [s \in Sessions |-> [i \in Items |-> "none"]]
      /\ h = [p \in Handlers |-> Idle]
  BY DEF RtInit
<1>2. /\ Closed \in SesRecords /\ Closed.sub = "none" /\ Closed.inbox = <<>>
  BY DEF Closed, SesRecords
<1>3. RtTypeOK
  BY <1>1, <1>2, ItemFacts DEF RtTypeOK
<1>4. Job
  <2>1. \A p \in Handlers : RightJob(p, h[p]) /\ h[p].item = None
    BY <1>1, IdleJobs
  <2> QED
    BY <1>1, <2>1 DEF Job, RightJob
<1>5. Fresh
  BY <1>1, <1>2 DEF Fresh
<1>6. OnceOnly
  BY <1>1, IdleJobs DEF OnceOnly
<1>7. RingMatch /\ NoClear /\ AllServed
  BY <1>1, <1>2 DEF RingMatch, NoClear, AllServed
<1> QED
  BY <1>3, <1>4, <1>5, <1>6, <1>7 DEF RtInv

LEMMA RtNextInv == RtInv /\ [RtNext]_rtvars => RtInv'
<1> SUFFICES ASSUME RtInv, [RtNext]_rtvars PROVE RtInv'
  OBVIOUS
<1>1. ASSUME NEW s \in Sessions, Session(s) PROVE RtInv'
  BY <1>1, UpgradeInv, SubscribedInv, BreakInv, ReadFailsInv, DeliverInv, WriterEndsInv,
     ReadMessageInv, ReadTypingInv, ReadCallInv DEF Session, Writer
<1>2. ASSUME NEW p \in Requests, Request(p) PROVE RtInv'
  <2>1. CASE CreateChat(p)
    <3>1. PICK v \in Members : Create(p, {v}) \/ Create(p, {}) \/ CreateAgain(p, v)
      BY <2>1 DEF CreateChat
    <3>2. {v} \in SUBSET Members /\ {} \in SUBSET Members
      OBVIOUS
    <3> QED
      BY <1>2, <3>1, <3>2, CreateInv, CreateAgainInv
  <2>2. CASE CreateGroup(p)
    BY <1>2, <2>2, CreateInv DEF CreateGroup
  <2> QED
    BY <1>2, <2>1, <2>2, SendMessageInv, DeleteMessageInv, AskFirstInv DEF Request
<1>3. ASSUME NEW p \in Handlers, Handle(p) PROVE RtInv'
  BY <1>3, StoreInv, LooksInv, InviteInv, DeleteInv, ClearInv, RefusedInv, PublishInv DEF Handle
<1>4. CASE ThrottleExpires \/ UNCHANGED rtvars
  <2>1. UNCHANGED <<holds, spent, ses, told, h, excused, announced>>
    BY <1>4 DEF ThrottleExpires, rtvars
  <2>2. Job' /\ OnceOnly'
    BY <2>1, Unworked DEF RtInv
  <2>3. RtTypeOK' /\ Fresh' /\ RingMatch' /\ NoClear'
    BY <2>1 DEF RtInv, RtTypeOK, Fresh, RingMatch, NoClear
  <2>4. ASSUME NEW s \in Sessions, NEW i \in Items, ses[s].sub = "live", <<s, i>> \notin excused
        PROVE  Served(s, i)'
    <3>1. Served(s, i)
      BY <2>4 DEF RtInv, AllServed
    <3> QED
      BY <2>1, <3>1, Unworked, StaysServed
  <2>5. AllServed'
    BY <2>1, <2>4 DEF AllServed
  <2> QED
    BY <2>2, <2>3, <2>5 DEF RtInv
<1> QED
  BY <1>1, <1>2, <1>3, <1>4, CrashInv DEF RtNext

\* For any users, sessions, handlers, messages and queues: however readers,
\* requests, publications, deliveries and failures interleave, a client of whom
\* nothing is owed knows of an item just when it exists, except for the reasons
\* that SettledSessionsAgree names.
THEOREM SessionsAgree == RtSpec => []SettledSessionsAgree
<1>1. RtInv => SettledSessionsAgree
  <2> SUFFICES ASSUME RtInv, NEW s \in Sessions, NEW i \in Items, Quiet(s, i), <<s, i>> \notin excused
               PROVE  told[s][i] = "new" <=> i \in holds
    BY DEF SettledSessionsAgree
  <2>1. /\ ses[s].conn = "open" /\ ses[s].sub = "live" /\ ses[s].inbox = <<>>
        /\ \A p \in Handlers : h[p].at # "idle" => h[p].item # i
    BY DEF Quiet
  <2>2. LastWord(s, i)
    BY <2>1 DEF RtInv, AllServed, Served
  <2>3. ~OwedNew(UserOf[s], i) /\ ~OwedGone(UserOf[s], i)
    BY <2>1 DEF OwedNew, OwedGone, Owes
  <2>4. /\ EndsNew(ses[s].inbox, told[s][i], i) => told[s][i] = "new"
        /\ EndsOld(ses[s].inbox, told[s][i], i) => told[s][i] # "new"
    BY <2>1 DEF EndsNew, EndsOld
  <2> QED
    BY <2>2, <2>3, <2>4 DEF LastWord
<1> QED
  BY <1>1, RtInitInv, RtNextInv, PTL DEF RtSpec

-----------------------------------------------------------------------------
(* The start of a client.                                                  *)

LoadTypeOK ==
  /\ at \in {"chats", "groups", "friends", "requests", "sent", "done", "failed"}
  /\ seen = [l \in Lists |-> seen[l]] /\ short \in BOOLEAN
  /\ \A u, v \in Users : <<u, v>> \in asked => u # v

\* Lists that are still to be read are empty.
Unread ==
  /\ at \in {"chats", "groups", "friends", "requests"} => seen["requests"] = {}
  /\ at \in {"chats", "groups", "friends", "requests", "sent"} => seen["sent"] = {}

\* The lists of requests that are still to be read.
Ahead == IF at = "requests" THEN {"requests", "sent"} ELSE IF at = "sent" THEN {"sent"} ELSE {}

\* Once the friends are read: whoever stays is in a list, has become a friend
\* since, or is no friend and stands in a list to come.
Accounted(v) ==
  \/ \E l \in Lists : v \in seen[l]
  \/ v \in agreed
  \/ v \notin Stored("friends") /\ \E l \in Ahead : v \in Stored(l)

LoadInv ==
  /\ LoadTypeOK /\ Unread
  /\ at \in {"chats", "groups", "friends"} => steady \subseteq Related
  /\ at \in {"requests", "sent", "done"} /\ ~short => \A v \in steady : Accounted(v)

LEMMA StoredIs ==
  /\ Stored("friends") = {v \in Users \ {Me} : {Me, v} \in friends}
  /\ Stored("requests") = {v \in Users : <<v, Me>> \in asked}
  /\ Stored("sent") = {v \in Users : <<Me, v>> \in asked}
  /\ Related = Stored("friends") \cup Stored("requests") \cup Stored("sent")
<1>1. /\ Stored("friends") = {v \in Users \ {Me} : {Me, v} \in friends}
      /\ Stored("requests") = {v \in Users : <<v, Me>> \in asked}
      /\ Stored("sent") = {v \in Users : <<Me, v>> \in asked}
  BY DEF Stored
<1>2. Related = Stored("friends") \cup Stored("requests") \cup Stored("sent")
  BY DEF Related, Lists
<1> QED
  BY <1>1, <1>2

\* A step of others: whoever leaves a list without becoming a friend is not
\* steady, and new friends have agreed.
LEMMA OthersInv ==
  ASSUME LoadInv, LoadTypeOK', Keeps, agreed \subseteq agreed',
         \A v \in Stored("friends")' \ Stored("friends") : v \in agreed'
  PROVE  LoadInv'
<1>1. /\ at' = at /\ seen' = seen /\ short' = short /\ Ahead' = Ahead
      /\ steady' \subseteq steady
      /\ \A v \in steady', l \in Lists : v \in Stored(l) => v \in Stored(l)' \/ v \in Stored("friends")'
  BY DEF Keeps, Track, Ahead
<1>2. Ahead \subseteq Lists /\ {"friends", "requests", "sent"} = Lists
  BY DEF Ahead, Lists
<1>3. ASSUME at \in {"chats", "groups", "friends"}, NEW v \in steady' PROVE v \in Related'
  <2>1. PICK l \in Lists : v \in Stored(l)
    BY <1>1, <1>3 DEF LoadInv, Related
  <2>2. v \in Stored(l)' \/ v \in Stored("friends")'
    BY <1>1, <2>1
  <2> QED
    BY <1>2, <2>2 DEF Related
<1>4. ASSUME at \in {"requests", "sent", "done"}, ~short, NEW v \in steady' PROVE Accounted(v)'
  <2>1. Accounted(v)
    BY <1>1, <1>4 DEF LoadInv
  <2>2. CASE (\E l \in Lists : v \in seen[l]) \/ v \in agreed
    BY <1>1, <2>2 DEF Accounted
  <2>3. CASE v \notin Stored("friends") /\ \E l \in Ahead : v \in Stored(l)
    <3>1. PICK l \in Ahead : v \in Stored(l)
      BY <2>3
    <3>2. v \in Stored(l)' \/ v \in Stored("friends")'
      BY <1>1, <1>2, <3>1
    <3>3. CASE v \in Stored("friends")'
      BY <2>3, <3>3 DEF Accounted
    <3>4. CASE v \notin Stored("friends")'
      BY <1>1, <3>1, <3>2, <3>4 DEF Accounted
    <3> QED
      BY <3>3, <3>4
  <2> QED
    BY <2>1, <2>2, <2>3 DEF Accounted
<1> QED
  BY <1>1, <1>3, <1>4 DEF LoadInv, Unread

LEMMA FriendHandlersInv ==
  ASSUME LoadInv, NEW u \in Users, NEW v \in Users,
         \/ SendFriendRequest(u, v) \/ AcceptFriendRequest(u, v) \/ DeclineFriendRequest(u, v)
         \/ CancelFriendRequest(u, v) \/ DeleteFriend(u, v)
  PROVE  LoadInv'
<1>1. Keeps /\ (agreed' = agreed \/ AcceptFriendRequest(u, v))
  BY DEF SendFriendRequest, AcceptFriendRequest, DeclineFriendRequest, CancelFriendRequest, DeleteFriend
<1>2. Ask(u, v) \/ Agree(u, v) \/ Withdraw(u, v) \/ Part(u, v)
  BY DEF SendFriendRequest, AcceptFriendRequest, DeclineFriendRequest, CancelFriendRequest, DeleteFriend
<1>3. asked' \subseteq asked \/ (u # v /\ asked' = asked \cup {<<u, v>>})
  BY <1>2 DEF Ask, Agree, Withdraw, Part
<1>4. LoadTypeOK'
  BY <1>1, <1>3 DEF Keeps, LoadInv, LoadTypeOK
<1>5. CASE AcceptFriendRequest(u, v)
  <2>1. /\ <<u, v>> \in asked /\ friends' = friends \cup {{u, v}}
        /\ agreed' = IF Me \in {u, v} THEN agreed \cup ({u, v} \ {Me}) ELSE agreed
    BY <1>5 DEF AcceptFriendRequest, Agree
  <2>2. u # v
    BY <2>1 DEF LoadInv, LoadTypeOK
  <2>3. ASSUME NEW w \in Stored("friends")' \ Stored("friends") PROVE w \in agreed'
    <3>1. w \in Users \ {Me} /\ {Me, w} \in friends' /\ {Me, w} \notin friends
      BY <2>3 DEF Stored
    <3>2. {Me, w} = {u, v}
      BY <2>1, <3>1
    <3>3. Me \in {u, v} /\ w \in {u, v} \ {Me}
      BY <3>1, <3>2
    <3> QED
      BY <2>1, <3>3
  <2>4. agreed \subseteq agreed'
    BY <2>1
  <2> QED
    BY <1>1, <1>4, <2>3, <2>4, OthersInv
<1>6. CASE ~AcceptFriendRequest(u, v)
  <2>1. friends' \subseteq friends
    BY <1>6 DEF SendFriendRequest, DeclineFriendRequest, CancelFriendRequest, DeleteFriend,
                Ask, Withdraw, Part
  <2>2. Stored("friends")' \subseteq Stored("friends")
    BY <2>1 DEF Stored
  <2> QED
    BY <1>1, <1>4, <1>6, <2>2, OthersInv
<1> QED
  BY <1>5, <1>6

\* Reading a list whole accounts for those who stand in it.
LEMMA ReadInv ==
  ASSUME LoadInv, GetFriends \/ GetFriendRequests \/ GetSentRequests
  PROVE  LoadInv'
<1>1. PICK l \in Lists, next \in {"requests", "sent", "done"} :
        /\ at = l /\ at' = next
        /\ \E got \in SUBSET Stored(l) :
             seen' = [seen EXCEPT ![l] = got] /\ short' = (short \/ got # Stored(l))
        /\ UNCHANGED <<friends, asked, steady>>
        /\ \/ l = "friends" /\ next = "requests"
           \/ l = "requests" /\ next = "sent" /\ agreed' = agreed
           \/ l = "sent" /\ next = "done" /\ agreed' = agreed
  BY DEF GetFriends, GetFriendRequests, GetSentRequests, Read, Lists
<1>2. PICK got \in SUBSET Stored(l) :
        seen' = [seen EXCEPT ![l] = got] /\ short' = (short \/ got # Stored(l))
  BY <1>1
<1>3. /\ seen' = [k \in Lists |-> seen'[k]] /\ seen'[l] = got
      /\ \A k \in Lists \ {l} : seen'[k] = seen[k]
  BY <1>2 DEF LoadInv, LoadTypeOK
<1>4. LoadTypeOK'
  BY <1>1, <1>2, <1>3 DEF LoadInv, LoadTypeOK
<1>5. \A k : Stored(k)' = Stored(k)
  BY <1>1 DEF Stored
<1>6. ASSUME ~short', NEW v \in steady' PROVE Accounted(v)'
  <2>1. ~short /\ got = Stored(l) /\ v \in steady
    BY <1>1, <1>2, <1>6
  <2>2. CASE v \in Stored(l)
    BY <1>3, <2>1, <2>2 DEF Accounted
  <2>3. CASE v \notin Stored(l)
    <3>1. CASE l = "friends"
      <4>1. v \in Related
        BY <1>1, <2>1, <3>1 DEF LoadInv
      <4>2. v \notin Stored("friends") /\ (v \in Stored("requests") \/ v \in Stored("sent"))
        BY <2>3, <3>1, <4>1, StoredIs
      <4>3. Ahead' = {"requests", "sent"}
        BY <1>1, <3>1 DEF Ahead
      <4> QED
        BY <1>5, <4>2, <4>3 DEF Accounted
    <3>2. CASE l # "friends"
      <4>1. Accounted(v) /\ agreed' = agreed
        BY <1>1, <2>1, <3>2 DEF LoadInv, Lists
      <4>2. Ahead = Ahead' \cup {l}
        BY <1>1, <3>2 DEF Ahead, Lists
      <4>3. CASE \E k \in Lists : v \in seen[k]
        <5>1. PICK k \in Lists : v \in seen[k]
          BY <4>3
        <5>2. k # l
          BY <1>1, <3>2, <5>1 DEF LoadInv, Unread
        <5> QED
          BY <1>3, <5>1, <5>2 DEF Accounted
      <4>4. CASE v \in agreed
        BY <4>1, <4>4 DEF Accounted
      <4>5. CASE v \notin Stored("friends") /\ \E k \in Ahead : v \in Stored(k)
        <5>1. PICK k \in Ahead' : v \in Stored(k)
          BY <2>3, <4>2, <4>5
        <5> QED
          BY <1>5, <4>5, <5>1 DEF Accounted
      <4> QED
        BY <4>1, <4>3, <4>4, <4>5 DEF Accounted
    <3> QED
      BY <3>1, <3>2
  <2> QED
    BY <2>2, <2>3
<1>7. Unread'
  BY <1>1, <1>3 DEF LoadInv, Unread, Lists
<1> QED
  BY <1>1, <1>4, <1>6, <1>7 DEF LoadInv

LEMMA LoadRestInv ==
  ASSUME LoadInv, Start \/ ReadChats \/ ReadGroups \/ LoadFails \/ UNCHANGED loadvars
  PROVE  LoadInv'
<1>1. CASE Start
  <2>1. /\ at' = "chats" /\ seen' = [l \in Lists |-> {}] /\ short' = FALSE
        /\ steady' = Related /\ UNCHANGED <<friends, asked>>
    BY <1>1 DEF Start
  <2>2. Related' = Related
    BY <2>1, StoredIs DEF Related, Stored
  <2> QED
    BY <2>1, <2>2 DEF LoadInv, LoadTypeOK, Unread, Lists
<1>2. CASE ReadChats \/ ReadGroups \/ LoadFails
  <2>1. /\ UNCHANGED <<friends, asked, seen, short, steady, agreed>>
        /\ \/ at \in {"chats", "groups"} /\ at' \in {"groups", "friends"}
           \/ at' = "failed"
    BY <1>2 DEF ReadChats, ReadGroups, LoadFails
  <2>2. Related' = Related
    BY <2>1 DEF Related, Stored
  <2> QED
    BY <2>1, <2>2 DEF LoadInv, LoadTypeOK, Unread
<1>3. CASE UNCHANGED loadvars
  <2>1. UNCHANGED <<friends, asked, at, seen, short, steady, agreed>>
    BY <1>3 DEF loadvars
  <2>2. Related' = Related /\ \A v : Accounted(v)' <=> Accounted(v)
    BY <2>1 DEF Related, Accounted, Ahead, Stored
  <2> QED
    BY <2>1, <2>2 DEF LoadInv, LoadTypeOK, Unread
<1> QED
  BY <1>1, <1>2, <1>3

\* For any users, and however others ask, accept, decline, cancel and part
\* while the five lists are read: the answer leaves out nobody who stayed,
\* except those SnapshotExplained names.
THEOREM SnapshotsAreExplained == LoadSpec => []SnapshotExplained
<1>1. LoadInit => LoadInv
  BY DEF LoadInit, LoadInv, LoadTypeOK, Unread, Init
<1>2. LoadInv /\ [LoadNext]_loadvars => LoadInv'
  BY FriendHandlersInv, ReadInv, LoadRestInv DEF LoadNext
<1>3. LoadInv => SnapshotExplained
  BY DEF LoadInv, SnapshotExplained, Accounted, Ahead
<1> QED
  BY <1>1, <1>2, <1>3, PTL DEF LoadSpec
==============================================================================
