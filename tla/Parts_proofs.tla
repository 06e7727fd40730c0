---------------------------- MODULE Parts_proofs ----------------------------
(***************************************************************************)
(* The parts that stand by themselves, for any number of registrations,    *)
(* logins, files, speakers and packets: what is registered is whole and    *)
(* found, what is deleted is gone, what a voice room lists can be reached, *)
(* and no lost packet goes uncounted.                                      *)
(***************************************************************************)
EXTENDS Accounts, Files, UdpRooms, PacketLoss, FiniteSetTheorems, TLAPS

-----------------------------------------------------------------------------
(* Accounts.                                                               *)

LoginState ==
  [at: {"idle", "found", "in", "refused", "failed"}, id: Registrations \cup {None},
   name: {f.name : f \in Forms} \cup {None},
   password: {f.password : f \in Forms} \cup {None}]

AcTypeOK ==
  /\ form \in [Registrations -> Forms \cup {None}]
  /\ register \in [Registrations -> {"new", "inserted", "undo", "ok", "refused"}]
  /\ users \in [Registrations -> Forms \cup {None}]
  /\ hash \in [Registrations -> {f.password : f \in Forms} \cup {None}]
  /\ login \in [Logins -> LoginState]
  /\ owners \in [Logins -> SUBSET Registrations]

\* What the two tables hold at each stage of a registration.
Staged(r) ==
  /\ users[r] # None => users[r] = form[r] /\ register[r] # "new"
  /\ register[r] = "new" => hash[r] = None /\ r \notin broken
  /\ register[r] = "inserted" => users[r] = form[r] /\ form[r] \in Forms /\ hash[r] = None
  /\ register[r] = "undo" /\ r \notin broken => hash[r] = None
  /\ register[r] = "ok" =>
       /\ users[r] = form[r] /\ form[r] \in Forms /\ hash[r] = form[r].password
  /\ register[r] = "refused" /\ r \notin broken => users[r] = None /\ hash[r] = None

AllStaged == \A r \in Registrations : Staged(r)

UniqueNames == \A r, q \in Rows : users[r].name = users[q].name => r = q

\* The owners of a login are registered with its name and password.
Owned(l) ==
  \A r \in owners[l] : /\ register[r] = "ok"
                       /\ form[r].name = login[l].name
                       /\ form[r].password = login[l].password

\* The user a login has found has its name, give or take the case; only then
\* does it miss the owner.
FoundByName(l) ==
  /\ login[l].id \in Registrations /\ register[login[l].id] # "new"
  /\ Folded(form[login[l].id].name) = Folded(login[l].name)
  /\ form[login[l].id].name = login[l].name => login[l].id \in owners[l]

Explained(l) ==
  /\ Owned(l)
  /\ login[l].at = "idle" => owners[l] = {}
  /\ login[l].at = "found" /\ owners[l] # {} => FoundByName(l)
  /\ login[l].at = "found" => login[l].id \in Registrations
  /\ login[l].at = "refused" /\ owners[l] # {} =>
       FoundByName(l) /\ login[l].id \notin owners[l]

AllExplained == \A l \in Logins : Explained(l)

AcInv == AcTypeOK /\ AllStaged /\ UniqueNames /\ AllExplained

LEMMA AcInitInv == AcInit => AcInv
<1> SUFFICES ASSUME AcInit PROVE AcInv
  OBVIOUS
<1>1. AcTypeOK
  BY DEF AcInit, AcTypeOK, LoginState
<1>2. AllStaged /\ UniqueNames
  BY DEF AcInit, AllStaged, Staged, UniqueNames, Rows
<1>3. AllExplained
  BY DEF AcInit, AllExplained, Explained, Owned
<1> QED
  BY <1>1, <1>2, <1>3 DEF AcInv

\* What a login knows stays true while registrations go on: a registration
\* that is done stays done, and forms do not change.
LEMMA LoginsUndisturbed ==
  ASSUME AcTypeOK, AllExplained, NEW r \in Registrations, register[r] # "ok",
         UNCHANGED <<login, owners>>,
         \A q \in Registrations : register[q] # "new" => form'[q] = form[q],
         \A q \in Registrations : q # r => register'[q] = register[q],
         register'[r] # "new"
  PROVE  AllExplained'
<1> SUFFICES ASSUME NEW l \in Logins PROVE Explained(l)'
  BY DEF AllExplained
<1>1. Explained(l) /\ owners[l] \in SUBSET Registrations
  BY DEF AllExplained, AcTypeOK
<1>2. Owned(l)'
  BY <1>1 DEF Explained, Owned
<1>3. FoundByName(l) => FoundByName(l)'
  BY DEF FoundByName
<1> QED
  BY <1>1, <1>2, <1>3 DEF Explained

LEMMA RegisterInv ==
  ASSUME AcInv, NEW r \in Registrations, HandleRegister(r)
  PROVE  AcInv'
<1> USE NoneAssumption DEF AcInv, Goes
<1>1. register[r] \notin {"ok", "refused"} /\ UNCHANGED <<login, owners>>
  BY DEF HandleRegister, Register, Insert, SetCredentials, SetCredentialsFails, DeleteUser,
         DeleteUserFails, AbortRegister
<1>2. /\ AcTypeOK'
      /\ \A q \in Registrations : q # r =>
           /\ register'[q] = register[q] /\ form'[q] = form[q]
           /\ users'[q] = users[q] /\ hash'[q] = hash[q]
           /\ q \in broken' <=> q \in broken
      /\ register[r] # "new" => form'[r] = form[r]
      /\ register'[r] # "new"
  <2>1. CASE Register(r)
    BY <2>1 DEF Register, Insert, AcTypeOK
  <2>2. CASE SetCredentials(r)
    <3>1. form[r] \in Forms
      BY <2>2 DEF SetCredentials, AllStaged, Staged
    <3> QED
      BY <2>2, <3>1 DEF SetCredentials, AcTypeOK
  <2>3. CASE SetCredentialsFails(r) \/ DeleteUser(r) \/ DeleteUserFails(r) \/ AbortRegister(r)
    BY <2>3 DEF SetCredentialsFails, DeleteUser, DeleteUserFails, AbortRegister, AcTypeOK
  <2> QED
    BY <2>1, <2>2, <2>3 DEF HandleRegister
<1>3. Staged(r)'
  <2>0. Staged(r)
    BY DEF AllStaged
  <2>1. CASE Register(r)
    BY <2>0, <2>1 DEF Register, Insert, AcTypeOK, Staged
  <2>2. CASE SetCredentials(r)
    BY <2>0, <2>2 DEF SetCredentials, AcTypeOK, Staged
  <2>3. CASE SetCredentialsFails(r)
    BY <2>0, <2>3 DEF SetCredentialsFails, AcTypeOK, Staged
  <2>4. CASE DeleteUser(r)
    BY <2>0, <2>4 DEF DeleteUser, AcTypeOK, Staged
  <2>5. CASE DeleteUserFails(r) \/ AbortRegister(r)
    BY <2>0, <2>5 DEF DeleteUserFails, AbortRegister, AcTypeOK, Staged
  <2> QED
    BY <2>1, <2>2, <2>3, <2>4, <2>5 DEF HandleRegister
<1>4. AllStaged'
  <2> SUFFICES ASSUME NEW q \in Registrations PROVE Staged(q)'
    BY DEF AllStaged
  <2>1. CASE q = r
    BY <1>3, <2>1
  <2>2. CASE q # r
    <3>1. Staged(q)
      BY DEF AllStaged
    <3> QED
      BY <1>2, <2>2, <3>1 DEF Staged
  <2> QED
    BY <2>1, <2>2
<1>5. UniqueNames'
  <2>1. CASE users'[r] = users[r]
    BY <1>2, <2>1 DEF UniqueNames, Rows
  <2>2. CASE users'[r] = None
    BY <1>2, <2>2 DEF UniqueNames, Rows
  <2>3. ASSUME NEW f \in Forms, Insert(r, f), users'[r] = f
        PROVE  UniqueNames'
    <3>1. \A q \in Rows : users[q].name # f.name
      BY <2>3 DEF Insert, Taken
    <3>2. \A q \in Rows' : q # r => q \in Rows /\ users'[q] = users[q]
      BY <1>2 DEF Rows
    <3> QED
      BY <2>3, <3>1, <3>2 DEF UniqueNames
  <2> QED
    BY <2>1, <2>2, <2>3
       DEF HandleRegister, Register, Insert, SetCredentials, SetCredentialsFails, DeleteUser,
           DeleteUserFails, AbortRegister, AcTypeOK
<1>6. AllExplained'
  BY <1>1, <1>2, LoginsUndisturbed
<1> QED
  BY <1>2, <1>4, <1>5, <1>6

LEMMA LoginInv ==
  ASSUME AcInv, NEW l \in Logins, HandleLogin(l)
  PROVE  AcInv'
<1> USE NoneAssumption DEF AcInv
<1>1. /\ UNCHANGED <<form, register, users, hash, broken>>
      /\ \A k \in Logins : k # l => login'[k] = login[k] /\ owners'[k] = owners[k]
  BY DEF HandleLogin, LookUp, Asks, Authenticate, LoginFails, AcTypeOK
<1>2. AllStaged' /\ UniqueNames'
  BY <1>1 DEF AllStaged, Staged, UniqueNames, Rows
<1>3. AcTypeOK' /\ Explained(l)'
  <2>0. Explained(l) /\ owners[l] \in SUBSET Registrations /\ login[l] \in LoginState
    BY DEF AllExplained, AcTypeOK
  <2>1. CASE LookUp(l)
    <3>1. PICK f \in Forms :
            /\ \/ \E id \in Named(f.name) : Asks(l, f, "found", id)
               \/ Named(f.name) = {} /\ Asks(l, f, "refused", None)
            /\ owners' = [owners EXCEPT ![l] =
                 {r \in Registrations : /\ register[r] = "ok"
                                        /\ form[r].name = f.name /\ form[r].password = f.password}]
      BY <2>1 DEF LookUp
    <3>2. owners'[l] \in SUBSET Registrations /\ owners' \in [Logins -> SUBSET Registrations]
      BY <3>1 DEF AcTypeOK
    <3>3. \A r \in owners'[l] : register[r] = "ok" /\ form[r].name = f.name
                               /\ form[r].password = f.password
      BY <3>1 DEF AcTypeOK
    <3>4. \A r \in owners'[l] : r \in Rows /\ users[r] = form[r]
      BY <3>2, <3>3 DEF AllStaged, Staged, Rows
    <3>5. ASSUME NEW id \in Named(f.name), Asks(l, f, "found", id)
          PROVE  AcTypeOK' /\ Explained(l)'
      <4>1. /\ id \in Registrations /\ id \in Rows /\ users[id] = form[id]
            /\ register[id] # "new" /\ Folded(form[id].name) = Folded(f.name)
        BY DEF Named, Rows, AllStaged, Staged
      <4>2. login'[l] = [at |-> "found", id |-> id, name |-> f.name, password |-> f.password]
            /\ login' \in [Logins -> LoginState]
        BY <3>5, <4>1 DEF Asks, AcTypeOK, LoginState
      <4>3. owners'[l] # {} /\ form[id].name = f.name => id \in owners'[l]
        BY <3>3, <3>4, <4>1 DEF UniqueNames
      <4>4. Owned(l)'
        BY <1>1, <3>3, <4>2 DEF Owned
      <4>5. owners'[l] # {} => FoundByName(l)'
        BY <1>1, <4>1, <4>2, <4>3 DEF FoundByName
      <4> QED
        BY <1>1, <3>2, <4>1, <4>2, <4>4, <4>5 DEF AcTypeOK, Explained
    <3>6. CASE Named(f.name) = {} /\ Asks(l, f, "refused", None)
      <4>1. login'[l] = [at |-> "refused", id |-> None, name |-> f.name, password |-> f.password]
            /\ login' \in [Logins -> LoginState]
        BY <3>6 DEF Asks, AcTypeOK, LoginState
      <4>2. owners'[l] = {}
        BY <3>3, <3>4, <3>6 DEF Named
      <4> QED
        BY <1>1, <3>2, <4>1, <4>2 DEF AcTypeOK, Explained, Owned
    <3> QED
      BY <3>1, <3>5, <3>6
  <2>2. CASE Authenticate(l)
    <3>1. /\ login[l].at = "found" /\ owners' = owners
          /\ login' \in [Logins -> LoginState]
          /\ login'[l].id = login[l].id /\ login'[l].name = login[l].name
          /\ login'[l].password = login[l].password
          /\ login'[l].at = IF hash[login[l].id] = login[l].password THEN "in" ELSE "refused"
      BY <2>2 DEF Authenticate, AcTypeOK, LoginState
    <3>2. Owned(l)' /\ (FoundByName(l) => FoundByName(l)')
      BY <1>1, <2>0, <3>1 DEF Explained, Owned, FoundByName
    <3>3. login[l].id \in owners[l] => hash[login[l].id] = login[l].password
      BY <2>0 DEF Explained, Owned, AllStaged, Staged
    <3>4. Explained(l)'
      BY <2>0, <3>1, <3>2, <3>3 DEF Explained
    <3> QED
      BY <1>1, <3>1, <3>4 DEF AcTypeOK
  <2>3. CASE LoginFails(l)
    <3>1. /\ owners' = owners /\ login' \in [Logins -> LoginState]
          /\ login'[l].name = login[l].name /\ login'[l].password = login[l].password
          /\ login'[l].at = "failed"
      BY <2>3 DEF LoginFails, AcTypeOK, LoginState
    <3> QED
      BY <1>1, <2>0, <3>1 DEF AcTypeOK, Explained, Owned
  <2> QED
    BY <2>1, <2>2, <2>3 DEF HandleLogin
<1>4. AllExplained'
  <2> SUFFICES ASSUME NEW k \in Logins, k # l PROVE Explained(k)'
    BY <1>3 DEF AllExplained
  <2>1. Explained(k)
    BY DEF AllExplained
  <2> QED
    BY <1>1, <2>1 DEF Explained, Owned, FoundByName
<1> QED
  BY <1>2, <1>3, <1>4

LEMMA AcInvariance == AcSpec => []AcInv
<1>1. AcInv /\ [AcNext]_acvars => AcInv'
  <2> SUFFICES ASSUME AcInv, [AcNext]_acvars PROVE AcInv'
    OBVIOUS
  <2>1. CASE AcNext
    BY <2>1, RegisterInv, LoginInv DEF AcNext
  <2>2. CASE UNCHANGED acvars
    BY <2>2 DEF acvars, AcInv, AcTypeOK, AllStaged, Staged, UniqueNames, Rows, AllExplained,
                Explained, Owned, FoundByName
  <2> QED
    BY <2>1, <2>2
<1> QED
  BY <1>1, AcInitInv, PTL DEF AcSpec

\* A registration whose calls did not fail behind its back leaves the user
\* and the credentials, or neither: handleRegister and its compensation.
THEOREM RegistrationsAreWhole == AcSpec => []RegisteredWhole
<1>1. AcInv => RegisteredWhole
  <2> SUFFICES ASSUME AcInv, NEW r \in Registrations, r \notin broken,
                      register[r] \in {"ok", "refused"}
               PROVE  /\ (users[r] # None) <=> (register[r] = "ok")
                      /\ (hash[r] # None) <=> (register[r] = "ok")
    BY DEF RegisteredWhole
  <2>1. Staged(r)
    BY DEF AcInv, AllStaged
  <2> QED
    BY <2>1, NoneAssumption DEF Staged
<1> QED
  BY <1>1, AcInvariance, PTL

\* A registered user whose password is right is refused only for the sake of
\* another whose name differs in case: HandleLogin and GetUserByUsername.
THEOREM RefusalsAreExplained == AcSpec => []RefusedExplained
<1>1. AcInv => RefusedExplained
  <2> SUFFICES ASSUME AcInv, NEW l \in Logins, login[l].at = "refused", owners[l] # {}
               PROVE  /\ login[l].id # None /\ login[l].id \notin owners[l]
                      /\ form[login[l].id].name # login[l].name
                      /\ Folded(form[login[l].id].name) = Folded(login[l].name)
    BY DEF RefusedExplained
  <2>1. FoundByName(l) /\ login[l].id \notin owners[l]
    BY DEF AcInv, AllExplained, Explained
  <2> QED
    BY <2>1, NoneAssumption DEF FoundByName
<1> QED
  BY <1>1, AcInvariance, PTL

-----------------------------------------------------------------------------
(* Files.                                                                  *)

FlTypeOK ==
  /\ deletion \in [Deletions -> [at: {"idle", "row", "done"}, key: Keys \cup {NoKey}]]
  /\ view = [v \in Views |-> view[v]]
  /\ posted \in [Messages -> FileKeys \cup {NoKey}]

\* A deletion under way has cleared its key's row.
UnderWay == \A d \in Deletions : deletion[d].at = "row" => deletion[d].key \in cleared

FlInv == FlTypeOK /\ UnderWay /\ stored \subseteq objects \cup cleared /\ DeletedFilesGone

LEMMA FlInitInv == FlInit => FlInv
<1> SUFFICES ASSUME FlInit PROVE FlInv
  OBVIOUS
<1>1. FlTypeOK
  <2>1. [at |-> "idle", key |-> NoKey] \in [at: {"idle", "row", "done"}, key: Keys \cup {NoKey}]
    OBVIOUS
  <2> QED
    BY <2>1 DEF FlInit, FlTypeOK
<1> QED
  BY <1>1 DEF FlInit, FlInv, UnderWay, DeletedFilesGone

\* Steps that store, delete or clear nothing: links, rows that are made, views.
LEMMA ElsewhereInv ==
  ASSUME FlInv, view' = [v \in Views |-> view'[v]],
         posted' \in [Messages -> FileKeys \cup {NoKey}],
         UNCHANGED <<objects, deletion, stored, cleared, loose>>
  PROVE  FlInv'
  BY DEF FlInv, FlTypeOK, UnderWay, DeletedFilesGone

LEMMA StoreInv ==
  ASSUME FlInv, NEW k, Store(k)
  PROVE  FlInv'
  BY DEF Store, FlInv, FlTypeOK, UnderWay, DeletedFilesGone

LEMMA RowDeletedInv ==
  ASSUME FlInv, NEW d \in Deletions, NEW k \in Keys, RowDeleted(d, k),
         posted' \in [Messages -> FileKeys \cup {NoKey}]
  PROVE  FlInv'
<1>1. PICK stage \in {"row", "done"} :
        /\ deletion' = [deletion EXCEPT ![d] = [at |-> stage, key |-> k]]
        /\ loose' = IF stage = "row" THEN loose ELSE loose \cup {k}
  BY DEF RowDeleted
<1>2. /\ deletion[d].at = "idle" /\ cleared' = cleared \cup {k}
      /\ UNCHANGED <<objects, view, stored>>
  BY DEF RowDeleted
<1>3. /\ deletion'[d] = [at |-> stage, key |-> k]
      /\ \A e \in Deletions \ {d} : deletion'[e] = deletion[e]
  BY <1>1 DEF FlInv, FlTypeOK
<1>4. FlTypeOK'
  BY <1>1, <1>2 DEF FlInv, FlTypeOK
<1>5. UnderWay'
  BY <1>2, <1>3 DEF FlInv, UnderWay
<1>6. ASSUME NEW j \in cleared' \cap objects'
      PROVE  j \in loose' \/ \E e \in Deletions : deletion'[e] = [at |-> "row", key |-> j]
  <2>1. CASE j = k
    BY <1>1, <1>3, <2>1
  <2>2. CASE j # k
    <3>1. j \in loose \/ \E e \in Deletions : deletion[e] = [at |-> "row", key |-> j]
      BY <1>2, <2>2 DEF FlInv, DeletedFilesGone
    <3> QED
      BY <1>1, <1>2, <1>3, <3>1
  <2> QED
    BY <2>1, <2>2
<1> QED
  BY <1>2, <1>4, <1>5, <1>6 DEF FlInv, DeletedFilesGone

\* The second half of a deletion.
LEMMA DeletionDoneInv ==
  ASSUME FlInv, NEW d \in Deletions, DeleteFile(d) \/ DeleteFileFails(d)
  PROVE  FlInv'
<1> DEFINE k == deletion[d].key
           next == [deletion[d] EXCEPT !.at = "done"]
<1>1. /\ deletion[d].at = "row" /\ deletion' = [deletion EXCEPT ![d] = next]
      /\ UNCHANGED <<view, posted, stored, cleared>>
      /\ \/ objects' = objects \ {k} /\ loose' = loose
         \/ objects' = objects /\ loose' = loose \cup {k}
  BY DEF DeleteFile, DeleteFileFails, FlInv, FlTypeOK
<1>2. next \in [at: {"idle", "row", "done"}, key: Keys \cup {NoKey}] /\ next.at = "done"
  BY DEF FlInv, FlTypeOK
<1>3. k \in cleared
  BY <1>1 DEF FlInv, UnderWay
<1> HIDE DEF next
<1>4. deletion'[d].at = "done" /\ \A e \in Deletions \ {d} : deletion'[e] = deletion[e]
  BY <1>1, <1>2 DEF FlInv, FlTypeOK
<1>5. FlTypeOK'
  BY <1>1, <1>2 DEF FlInv, FlTypeOK
<1>6. UnderWay' /\ (stored \subseteq objects \cup cleared)'
  BY <1>1, <1>3, <1>4 DEF FlInv, UnderWay
<1>7. PICK key : key = k
  OBVIOUS
<1> HIDE DEF k
<1>8. ASSUME NEW j \in cleared' \cap objects'
      PROVE  j \in loose' \/ \E e \in Deletions : deletion'[e] = [at |-> "row", key |-> j]
  <2>1. CASE j = key
    BY <1>1, <1>7, <2>1
  <2>2. CASE j # key
    <3>1. j \in loose \/ \E e \in Deletions : deletion[e] = [at |-> "row", key |-> j]
      BY <1>1 DEF FlInv, DeletedFilesGone
    <3>2. deletion[d] # [at |-> "row", key |-> j]
      BY <1>7, <2>2 DEF k
    <3> QED
      BY <1>1, <1>4, <3>1, <3>2
  <2> QED
    BY <2>1, <2>2
<1> QED
  BY <1>5, <1>6, <1>8 DEF FlInv, DeletedFilesGone

\* What a step of a view makes of the views.
LEMMA SeesIs ==
  ASSUME FlInv, NEW v \in Views, NEW stage, NEW m, NEW k, Sees(v, stage, m, k)
  PROVE  /\ view' = [w \in Views |-> view'[w]]
         /\ view'[v].at = stage /\ \A w \in Views \ {v} : view'[w] = view[w]
         /\ UNCHANGED <<objects, deletion, posted, stored, cleared, loose>>
  BY DEF Sees, FlInv, FlTypeOK

\* Only ProxyS3 answers a view that an object is missing.
Answer(v) ==
  view[v].at = "key" /\ view'[v].at = "missing" => view[v].key \notin objects

LEMMA ViewStep ==
  ASSUME FlInv, NEW v \in Views,
         GetAvatars(v) \/ HandleAvatar(v) \/ GetMessages(v) \/ HandleFile(v) \/ ViewFails(v)
  PROVE  FlInv' /\ \A w \in Views : Answer(w)
<1>1. ASSUME NEW stage, NEW m, NEW k, Sees(v, stage, m, k),
             stage = "missing" => view[v].key \notin objects
      PROVE  FlInv' /\ \A w \in Views : Answer(w)
  <2>1. FlInv'
    BY <1>1, SeesIs, ElsewhereInv DEF FlInv, FlTypeOK
  <2>2. ASSUME NEW w \in Views PROVE Answer(w)
    BY <1>1, SeesIs DEF Answer
  <2> QED
    BY <2>1, <2>2
<1>2. CASE GetAvatars(v)
  <2>1. PICK k \in AvatarRows : Sees(v, "key", NoKey, k)
    BY <1>2 DEF GetAvatars
  <2> QED
    BY <2>1, <1>1
<1>3. CASE HandleAvatar(v)
  <2>1. Sees(v, "not found", NoKey, NoKey) \/ Sees(v, "key", NoKey, GetUserInfo)
    BY <1>3 DEF HandleAvatar
  <2> QED
    BY <2>1, <1>1
<1>4. CASE GetMessages(v)
  <2>1. PICK m \in Messages : Sees(v, "listed", m, NoKey)
    BY <1>4 DEF GetMessages
  <2> QED
    BY <2>1, <1>1
<1>5. CASE GetFileInfo(v)
  <2>1. \E m, k : Sees(v, "not found", m, k) \/ Sees(v, "info", m, k)
    BY <1>5 DEF GetFileInfo
  <2> QED
    BY <2>1, <1>1
<1>6. CASE CheckMember(v)
  <2>1. \E m, k : Sees(v, "key", m, k) \/ Sees(v, "not found", m, k)
    BY <1>6 DEF CheckMember
  <2> QED
    BY <2>1, <1>1
<1>7. CASE ProxyS3(v)
  <2>1. CASE view[v].key \in objects
    <3>1. \E m, k : Sees(v, "shown", m, k)
      BY <1>7, <2>1 DEF ProxyS3
    <3> QED
      BY <3>1, <1>1
  <2>2. CASE view[v].key \notin objects
    <3>1. \E m, k : Sees(v, "missing", m, k)
      BY <1>7, <2>2 DEF ProxyS3
    <3> QED
      BY <3>1, <2>2, <1>1
  <2> QED
    BY <2>1, <2>2
<1>8. CASE ViewFails(v)
  <2>1. \E m, k : Sees(v, "failed", m, k)
    BY <1>8 DEF ViewFails
  <2> QED
    BY <2>1, <1>1
<1> QED
  BY <1>2, <1>3, <1>4, <1>5, <1>6, <1>7, <1>8 DEF HandleFile

LEMMA FlStep ==
  ASSUME FlInv, [FlNext]_flvars
  PROVE  FlInv' /\ \A w \in Views : Answer(w)
<1>1. ASSUME view' = view, FlInv' PROVE FlInv' /\ \A w \in Views : Answer(w)
  BY <1>1 DEF Answer
<1>2. ASSUME UNCHANGED <<objects, deletion, view, stored, cleared, loose>>,
             posted' \in [Messages -> FileKeys \cup {NoKey}]
      PROVE  FlInv' /\ \A w \in Views : Answer(w)
  <2>1. FlInv'
    BY <1>2 DEF FlInv, FlTypeOK, UnderWay, DeletedFilesGone
  <2> QED
    BY <2>1, <1>2, <1>1
<1>3. CASE UNCHANGED flvars
  BY <1>3, <1>2 DEF flvars, FlInv, FlTypeOK
<1>4. CASE GetAvatarUploadURL \/ GetFileUploadURL
  BY <1>4, <1>2 DEF GetAvatarUploadURL, GetFileUploadURL, GetUploadUrl, FlInv, FlTypeOK
<1>5. ASSUME NEW k \in Keys, Put(k) \/ UploadFile(k)
      PROVE  FlInv' /\ \A w \in Views : Answer(w)
  <2>1. Store(k)
    BY <1>5 DEF Put, UploadFile
  <2> QED
    BY <2>1, StoreInv, <1>1 DEF Store
<1>6. ASSUME NEW k \in Keys, LinkExpires(k) \/ SetAvatar(k)
      PROVE  FlInv' /\ \A w \in Views : Answer(w)
  BY <1>6, <1>2 DEF LinkExpires, SetAvatar, FlInv, FlTypeOK
<1>7. ASSUME NEW m \in Messages, NEW k \in Keys, Post(m, k)
      PROVE  FlInv' /\ \A w \in Views : Answer(w)
  BY <1>7, <1>2 DEF Post, FlInv, FlTypeOK
<1>8. ASSUME NEW d \in Deletions, DeleteAvatar(d)
      PROVE  FlInv' /\ \A w \in Views : Answer(w)
  <2>1. PICK k \in AvatarKeys : RowDeleted(d, k) /\ posted' = posted
    BY <1>8 DEF DeleteAvatar, DeleteAvatarRow
  <2>2. k \in Keys /\ view' = view /\ posted' \in [Messages -> FileKeys \cup {NoKey}]
    BY <2>1 DEF Keys, RowDeleted, FlInv, FlTypeOK
  <2> QED
    BY <2>1, <2>2, RowDeletedInv, <1>1
<1>9. ASSUME NEW d \in Deletions, DeleteMessage(d)
      PROVE  FlInv' /\ \A w \in Views : Answer(w)
  <2>1. PICK m \in Messages : /\ posted[m] # NoKey /\ RowDeleted(d, posted[m])
                             /\ posted' = [posted EXCEPT ![m] = NoKey]
    BY <1>9 DEF DeleteMessage, DeleteMessageRow
  <2>2. posted[m] \in Keys /\ view' = view /\ posted' \in [Messages -> FileKeys \cup {NoKey}]
    BY <2>1 DEF Keys, RowDeleted, FlInv, FlTypeOK
  <2> QED
    BY <2>1, <2>2, RowDeletedInv, <1>1
<1>10. ASSUME NEW d \in Deletions, DeleteFile(d) \/ DeleteFileFails(d)
       PROVE  FlInv' /\ \A w \in Views : Answer(w)
  BY <1>10, DeletionDoneInv, <1>1 DEF DeleteFile, DeleteFileFails
<1>11. CASE \E v \in Views : \/ GetAvatars(v) \/ HandleAvatar(v) \/ GetMessages(v)
                             \/ HandleFile(v) \/ ViewFails(v)
  BY <1>11, ViewStep
<1> QED
  BY <1>3, <1>4, <1>5, <1>6, <1>7, <1>8, <1>9, <1>10, <1>11 DEF FlNext

\* For any keys, messages, deletions and views: an object outlives the
\* deletion of its row only for the reasons DeletedFilesGone names.
THEOREM DeletedFilesAreGone == FlSpec => []DeletedFilesGone
<1>1. FlInv /\ [FlNext]_flvars => FlInv'
  BY FlStep
<1>2. FlInv => DeletedFilesGone
  BY DEF FlInv
<1> QED
  BY <1>1, <1>2, FlInitInv, PTL DEF FlSpec

\* The same of the steps that answer a view: an object that is missing was
\* never stored or has been deleted.
THEOREM MissingIsExplained == FlSpec => MissingExplained
<1>1. FlInv /\ [FlNext]_flvars => FlInv'
  BY FlStep
<1>2. FlInv /\ [FlNext]_flvars =>
        \A v \in Views : view[v].at = "key" /\ view'[v].at = "missing" =>
          view[v].key \notin stored \/ view[v].key \in cleared
  BY FlStep DEF FlInv, Answer
<1> QED
  BY <1>1, <1>2, FlInitInv, PTL DEF FlSpec, MissingExplained
-----------------------------------------------------------------------------
(* The legacy server's voice rooms.                                        *)

RmTypeOK ==
  /\ rooms \in [Rooms -> [Speakers -> Addrs \cup {NoAddr}]]
  /\ addrToUser \in [Addrs -> Speakers \cup {NoUser}]
  /\ userToRoom \in [Speakers -> Rooms \cup {NoRoom}]

\* A user who has not changed rooms is listed in its own room only.
ListedAtHome ==
  \A r \in Rooms, u \in Speakers \ moved : rooms[r][u] # NoAddr => userToRoom[u] = r

\* Its address is known, unless another user was listed with it.
KnownByAddr ==
  \A r \in Rooms, u \in Speakers \ moved :
    rooms[r][u] # NoAddr /\ rooms[r][u] \notin shared => addrToUser[rooms[r][u]] = u

\* Two users listed with one address make it shared.
OneUserEach ==
  \A r, q \in Rooms, u, v \in Speakers :
    u # v /\ rooms[r][u] # NoAddr /\ rooms[r][u] = rooms[q][v] => rooms[r][u] \in shared

\* An address that is known leads to the entry of its user.
AddrLeadsHome ==
  \A a \in Addrs : addrToUser[a] # NoUser /\ addrToUser[a] \notin moved =>
    userToRoom[addrToUser[a]] # NoRoom /\ rooms[userToRoom[addrToUser[a]]][addrToUser[a]] = a

MapsAgree == ListedAtHome /\ KnownByAddr /\ OneUserEach /\ AddrLeadsHome

RmInv == RmTypeOK /\ MapsAgree /\ CrashOnlyAfterMove

\* What AddUser makes of the maps: one entry, one room, and two addresses.
LEMMA HelloIs ==
  ASSUME RmTypeOK, NEW c \in Conns, NEW r \in Rooms, NEW u \in Speakers, Hello(c, r, u),
         NEW a, a = AddrOf[c]
  PROVE  /\ a \in Addrs /\ RmTypeOK'
         /\ rooms'[r][u] = a /\ userToRoom'[u] = r /\ addrToUser'[a] = u
         /\ \A q \in Rooms, v \in Speakers : q # r \/ v # u => rooms'[q][v] = rooms[q][v]
         /\ \A v \in Speakers \ {u} : userToRoom'[v] = userToRoom[v]
         /\ \A d \in Addrs \ {a} :
              addrToUser'[d] = IF d = OldAddr(u) THEN NoUser ELSE addrToUser[d]
         /\ moved' = IF \E q \in Rooms \ {r} : rooms[q][u] # NoAddr THEN moved \cup {u} ELSE moved
         /\ shared' = IF \E q \in Rooms, v \in Speakers \ {u} : rooms[q][v] = a
                      THEN shared \cup {a} ELSE shared \ {a}
         /\ crashed' = crashed
<1>1. /\ rooms' = [rooms EXCEPT ![r][u] = a] /\ userToRoom' = [userToRoom EXCEPT ![u] = r]
      /\ addrToUser' = [d \in Addrs |-> CASE d = a -> u
                                          [] d # a /\ d = OldAddr(u) -> NoUser
                                          [] OTHER -> addrToUser[d]]
  BY DEF Hello, AddUser
<1>7. a \in Addrs
  BY AddrOfType
<1>2. /\ \A d \in Addrs \ {a} : addrToUser'[d] = IF d = OldAddr(u) THEN NoUser ELSE addrToUser[d]
      /\ addrToUser'[a] = u
  BY <1>1, <1>7
<1>3. addrToUser' = [d \in Addrs |-> addrToUser'[d]]
  BY <1>1
<1>4. addrToUser' \in [Addrs -> Speakers \cup {NoUser}]
  BY <1>2, <1>3 DEF RmTypeOK
<1>5. /\ rooms' \in [Rooms -> [Speakers -> Addrs \cup {NoAddr}]]
      /\ rooms'[r][u] = a
      /\ \A q \in Rooms, v \in Speakers : q # r \/ v # u => rooms'[q][v] = rooms[q][v]
  BY <1>1, <1>7 DEF RmTypeOK
<1>6. /\ userToRoom' \in [Speakers -> Rooms \cup {NoRoom}] /\ userToRoom'[u] = r
      /\ \A v \in Speakers \ {u} : userToRoom'[v] = userToRoom[v]
  BY <1>1 DEF RmTypeOK
<1> QED
  BY <1>2, <1>4, <1>5, <1>6, <1>7 DEF Hello, RmTypeOK

LEMMA HelloInv ==
  ASSUME RmInv, NEW c \in Conns, NEW r \in Rooms, NEW u \in Speakers, Hello(c, r, u),
         NEW a, a = AddrOf[c]
  PROVE  RmInv'
<1> USE NilAssumption DEF RmInv
<1>1. RmTypeOK /\ RmTypeOK'
  BY HelloIs
<1>2. /\ moved \subseteq moved' /\ \A d \in shared : d # a => d \in shared'
      /\ u \notin moved' => \A q \in Rooms \ {r} : rooms[q][u] = NoAddr
      /\ a \notin shared' => \A q \in Rooms, v \in Speakers \ {u} : rooms[q][v] # a
      /\ CrashOnlyAfterMove'
  BY HelloIs DEF CrashOnlyAfterMove
<1>3. ListedAtHome'
  BY <1>2, HelloIs DEF MapsAgree, ListedAtHome
<1>4. ASSUME NEW q \in Rooms, NEW v \in Speakers \ {u}, OldAddr(u) # NoAddr, rooms[q][v] = OldAddr(u)
      PROVE  OldAddr(u) \in shared
  BY <1>1, <1>4 DEF MapsAgree, OneUserEach, OldAddr, RmTypeOK
<1>5. KnownByAddr'
  <2> SUFFICES ASSUME NEW q \in Rooms, NEW v \in Speakers \ moved',
                      rooms'[q][v] # NoAddr, rooms'[q][v] \notin shared'
               PROVE  addrToUser'[rooms'[q][v]] = v
    BY DEF KnownByAddr
  <2>1. CASE v = u
    BY <1>2, <2>1, HelloIs
  <2>2. CASE v # u
    <3>1. /\ rooms'[q][v] = rooms[q][v] /\ rooms[q][v] \in Addrs \ {a}
          /\ rooms[q][v] # OldAddr(u)
      BY <1>1, <1>2, <1>4, <2>2, HelloIs DEF RmTypeOK
    <3>2. addrToUser[rooms[q][v]] = v
      BY <1>2, <3>1 DEF MapsAgree, KnownByAddr
    <3> QED
      BY <3>1, <3>2, HelloIs
  <2> QED
    BY <2>1, <2>2
<1>6. OneUserEach'
  <2> SUFFICES ASSUME NEW q \in Rooms, NEW p \in Rooms, NEW v \in Speakers, NEW w \in Speakers,
                      v # w, rooms'[q][v] # NoAddr, rooms'[q][v] = rooms'[p][w]
               PROVE  rooms'[q][v] \in shared'
    BY DEF OneUserEach
  <2>1. CASE q = r /\ v = u
    BY <1>2, <2>1, HelloIs
  <2>2. CASE p = r /\ w = u
    BY <1>2, <2>2, HelloIs
  <2>3. CASE (q # r \/ v # u) /\ (p # r \/ w # u)
    <3>1. rooms'[q][v] = rooms[q][v] /\ rooms'[p][w] = rooms[p][w]
      BY <2>3, HelloIs
    <3> QED
      BY <1>2, <3>1 DEF MapsAgree, OneUserEach
  <2> QED
    BY <2>1, <2>2, <2>3
<1>7. AddrLeadsHome'
  <2> SUFFICES ASSUME NEW d \in Addrs, NEW v, v = addrToUser'[d], v # NoUser, v \notin moved'
               PROVE  userToRoom'[v] # NoRoom /\ rooms'[userToRoom'[v]][v] = d
    BY DEF AddrLeadsHome
  <2>1. CASE d = a
    BY <2>1, HelloIs
  <2>2. CASE d # a
    <3>1. d # OldAddr(u) /\ addrToUser[d] = v /\ v \in Speakers /\ v \notin moved
      BY <1>1, <1>2, <2>2, HelloIs DEF RmTypeOK
    <3>2. userToRoom[v] # NoRoom /\ rooms[userToRoom[v]][v] = d
      BY <3>1 DEF MapsAgree, AddrLeadsHome
    <3>3. v # u
      BY <3>1, <3>2 DEF OldAddr
    <3>4. userToRoom[v] \in Rooms
      BY <1>1, <3>1, <3>2 DEF RmTypeOK
    <3> QED
      BY <3>1, <3>2, <3>3, <3>4, HelloIs
  <2> QED
    BY <2>1, <2>2
<1> QED
  BY <1>1, <1>2, <1>3, <1>5, <1>6, <1>7 DEF MapsAgree

LEMMA HandleEndInv ==
  ASSUME RmInv, NEW c \in Conns, HandleEnd(c)
  PROVE  RmInv'
<1> USE NilAssumption DEF RmInv
<1>1. UNCHANGED <<crashed, moved, shared>>
  BY DEF HandleEnd
<1>4. PICK a \in Addrs : a = AddrOf[c]
  BY AddrOfType
<1>2. CASE addrToUser[a] = NoUser
  <2>1. UNCHANGED <<rooms, addrToUser, userToRoom>>
    BY <1>2, <1>4 DEF HandleEnd, RemoveUserByAddr, UserAt
  <2> QED
    BY <1>1, <2>1 DEF RmTypeOK, MapsAgree, ListedAtHome, KnownByAddr, OneUserEach, AddrLeadsHome,
                      CrashOnlyAfterMove
<1>3. CASE addrToUser[a] # NoUser
  <2>1. PICK u \in Speakers : u = addrToUser[a]
    BY <1>3 DEF RmTypeOK
  <2>2. /\ addrToUser' = [addrToUser EXCEPT ![a] = NoUser]
        /\ userToRoom' = [userToRoom EXCEPT ![u] = NoRoom]
        /\ rooms' = [r \in Rooms |-> IF r = userToRoom[u] THEN [rooms[r] EXCEPT ![u] = NoAddr]
                                                           ELSE rooms[r]]
    BY <1>3, <1>4, <2>1 DEF HandleEnd, RemoveUserByAddr, UserAt
  <2>3. RmTypeOK'
    BY <2>2 DEF RmTypeOK
  <2>4. /\ \A d \in Addrs \ {a} : addrToUser'[d] = addrToUser[d]
        /\ addrToUser'[a] = NoUser
        /\ \A v \in Speakers \ {u} : userToRoom'[v] = userToRoom[v]
        /\ \A r \in Rooms, v \in Speakers : v # u => rooms'[r][v] = rooms[r][v]
        /\ \A r \in Rooms : rooms'[r][u] = IF r = userToRoom[u] THEN NoAddr ELSE rooms[r][u]
    BY <2>2 DEF RmTypeOK
  <2>5. u \notin moved => \A r \in Rooms : rooms'[r][u] = NoAddr
    BY <2>4 DEF MapsAgree, ListedAtHome
  <2>6. ListedAtHome'
    BY <1>1, <2>4, <2>5 DEF MapsAgree, ListedAtHome
  <2>7. KnownByAddr'
    <3> SUFFICES ASSUME NEW r \in Rooms, NEW v \in Speakers \ moved,
                        rooms'[r][v] # NoAddr, rooms'[r][v] \notin shared
                 PROVE  addrToUser'[rooms'[r][v]] = v
      BY <1>1 DEF KnownByAddr
    <3>1. v # u /\ rooms'[r][v] = rooms[r][v]
      BY <2>4, <2>5
    <3>2. rooms[r][v] \in Addrs /\ addrToUser[rooms[r][v]] = v
      BY <3>1 DEF MapsAgree, KnownByAddr, RmTypeOK
    <3> QED
      BY <2>1, <2>4, <3>1, <3>2
  <2>8. OneUserEach'
    <3>1. \A r \in Rooms, v \in Speakers : rooms'[r][v] \in {NoAddr, rooms[r][v]}
      BY <2>4
    <3> QED
      BY <1>1, <3>1 DEF MapsAgree, OneUserEach
  <2>9. AddrLeadsHome'
    <3> SUFFICES ASSUME NEW d \in Addrs, NEW v, v = addrToUser'[d], v # NoUser, v \notin moved
                 PROVE  userToRoom'[v] # NoRoom /\ rooms'[userToRoom'[v]][v] = d
      BY <1>1 DEF AddrLeadsHome
    <3>1. d # a /\ addrToUser[d] = v /\ v \in Speakers
      BY <2>4 DEF RmTypeOK
    <3>2. userToRoom[v] # NoRoom /\ rooms[userToRoom[v]][v] = d
      BY <3>1 DEF MapsAgree, AddrLeadsHome
    <3>3. v # u
      <4>1. v = u => rooms[userToRoom[v]][v] = a
        BY <1>3, <2>1 DEF MapsAgree, AddrLeadsHome
      <4> QED
        BY <3>1, <3>2, <4>1
    <3>4. userToRoom[v] \in Rooms
      BY <3>1, <3>2 DEF RmTypeOK
    <3> QED
      BY <2>4, <3>1, <3>2, <3>3, <3>4
  <2> QED
    BY <1>1, <2>3, <2>6, <2>7, <2>8, <2>9 DEF MapsAgree, CrashOnlyAfterMove
<1> QED
  BY <1>2, <1>3

LEMMA CleanupInv ==
  ASSUME RmInv, Cleanup
  PROVE  RmInv'
<1> USE NilAssumption DEF RmInv
<1> DEFINE Silent(r, u) == r \in Rooms /\ u \in Speakers /\ rooms[r][u] # NoAddr /\ <<r, u>> \notin fresh
<1>1. /\ UNCHANGED <<crashed, moved, shared>>
      /\ addrToUser' = [a \in Addrs |-> IF \E r \in Rooms, u \in Speakers : Silent(r, u) /\ rooms[r][u] = a
                                        THEN NoUser ELSE addrToUser[a]]
      /\ userToRoom' = [u \in Speakers |-> IF \E r \in Rooms : Silent(r, u)
                                        THEN NoRoom ELSE userToRoom[u]]
      /\ rooms' = [r \in Rooms |-> [u \in Speakers |-> IF Silent(r, u) THEN NoAddr ELSE rooms[r][u]]]
  <2> DEFINE silent == {e \in Rooms \X Speakers : rooms[e[1]][e[2]] # NoAddr /\ e \notin fresh}
  <2>1. \A r \in Rooms, u \in Speakers : <<r, u>> \in silent <=> Silent(r, u)
    OBVIOUS
  <2>2. \A e \in silent : e[1] \in Rooms /\ e[2] \in Speakers /\ e = <<e[1], e[2]>>
    OBVIOUS
  <2>3. /\ UNCHANGED <<crashed, moved, shared>>
        /\ addrToUser' = [a \in Addrs |-> IF \E e \in silent : rooms[e[1]][e[2]] = a
                                          THEN NoUser ELSE addrToUser[a]]
        /\ userToRoom' = [u \in Speakers |-> IF \E e \in silent : e[2] = u
                                          THEN NoRoom ELSE userToRoom[u]]
        /\ rooms' = [r \in Rooms |-> [u \in Speakers |-> IF <<r, u>> \in silent THEN NoAddr ELSE rooms[r][u]]]
    BY DEF Cleanup
  <2> HIDE DEF silent, Silent
  <2>4. \A a \in Addrs : (\E e \in silent : rooms[e[1]][e[2]] = a)
                         <=> \E r \in Rooms, u \in Speakers : Silent(r, u) /\ rooms[r][u] = a
    BY <2>1, <2>2
  <2>5. \A u \in Speakers : (\E e \in silent : e[2] = u) <=> \E r \in Rooms : Silent(r, u)
    BY <2>1, <2>2
  <2> QED
    BY <2>1, <2>3, <2>4, <2>5
<1>2. RmTypeOK'
  BY <1>1 DEF RmTypeOK
<1>3. /\ \A r \in Rooms, u \in Speakers : rooms'[r][u] = IF Silent(r, u) THEN NoAddr ELSE rooms[r][u]
      /\ \A u \in Speakers : userToRoom'[u] = IF \E r \in Rooms : Silent(r, u) THEN NoRoom ELSE userToRoom[u]
      /\ \A a \in Addrs : addrToUser'[a] = IF \E r \in Rooms, u \in Speakers : Silent(r, u) /\ rooms[r][u] = a
                                           THEN NoUser ELSE addrToUser[a]
  BY <1>1
<1>4. \A r \in Rooms, u \in Speakers : Silent(r, u) => rooms[r][u] # NoAddr
  OBVIOUS
<1> HIDE DEF Silent
<1>5. ListedAtHome'
  BY <1>1, <1>3, <1>4 DEF MapsAgree, ListedAtHome
<1>6. KnownByAddr'
  <2> SUFFICES ASSUME NEW r \in Rooms, NEW u \in Speakers \ moved,
                      rooms'[r][u] # NoAddr, rooms'[r][u] \notin shared
               PROVE  addrToUser'[rooms'[r][u]] = u
    BY <1>1 DEF KnownByAddr
  <2>1. ~Silent(r, u) /\ rooms'[r][u] = rooms[r][u] /\ rooms[r][u] \in Addrs
    BY <1>3 DEF RmTypeOK
  <2>2. addrToUser[rooms[r][u]] = u
    BY <2>1 DEF MapsAgree, KnownByAddr
  <2>3. ASSUME NEW q \in Rooms, NEW v \in Speakers, Silent(q, v), rooms[q][v] = rooms[r][u]
        PROVE  FALSE
    <3>1. CASE v = u
      <4>1. userToRoom[u] = q /\ userToRoom[u] = r
        BY <1>4, <2>1, <2>3, <3>1 DEF MapsAgree, ListedAtHome
      <4> QED
        BY <2>1, <2>3, <3>1, <4>1
    <3>2. CASE v # u
      BY <1>4, <2>1, <2>3, <3>2 DEF MapsAgree, OneUserEach
    <3> QED
      BY <3>1, <3>2
  <2> QED
    BY <1>3, <2>1, <2>2, <2>3
<1>7. OneUserEach'
  <2>1. \A r \in Rooms, v \in Speakers : rooms'[r][v] \in {NoAddr, rooms[r][v]}
    BY <1>3
  <2> QED
    BY <1>1, <2>1 DEF MapsAgree, OneUserEach
<1>8. AddrLeadsHome'
  <2> SUFFICES ASSUME NEW a \in Addrs, NEW u, u = addrToUser'[a], u # NoUser, u \notin moved
               PROVE  userToRoom'[u] # NoRoom /\ rooms'[userToRoom'[u]][u] = a
    BY <1>1 DEF AddrLeadsHome
  <2>1. /\ addrToUser[a] = u /\ u \in Speakers
        /\ ~ \E r \in Rooms, v \in Speakers : Silent(r, v) /\ rooms[r][v] = a
    BY <1>3 DEF RmTypeOK
  <2>2. userToRoom[u] # NoRoom /\ rooms[userToRoom[u]][u] = a /\ userToRoom[u] \in Rooms
    BY <2>1 DEF MapsAgree, AddrLeadsHome, RmTypeOK
  <2>3. ~Silent(userToRoom[u], u)
    BY <2>1, <2>2
  <2>4. \A r \in Rooms : ~Silent(r, u)
    BY <1>4, <2>1, <2>3 DEF MapsAgree, ListedAtHome
  <2> QED
    BY <1>3, <2>1, <2>2, <2>3, <2>4
<1> QED
  BY <1>1, <1>2, <1>5, <1>6, <1>7, <1>8 DEF MapsAgree, CrashOnlyAfterMove

\* The entry that is dereferenced is there, unless its user changed rooms.
LEMMA NilOnlyAfterMove ==
  ASSUME RmInv, NEW c \in Conns, UserAt(c) # NoUser, Nil(UserAt(c))
  PROVE  moved # {}
  BY NilAssumption, AddrOfType DEF RmInv, MapsAgree, AddrLeadsHome, Nil, OldAddr, UserAt

LEMMA RmStep == RmInv /\ [RmNext]_rmvars => RmInv'
<1> SUFFICES ASSUME RmInv, [RmNext]_rmvars PROVE RmInv'
  OBVIOUS
<1>1. ASSUME UNCHANGED <<rooms, addrToUser, userToRoom, moved, shared>>, crashed' => crashed \/ moved # {}
      PROVE  RmInv'
  BY <1>1 DEF RmInv, RmTypeOK, MapsAgree, ListedAtHome, KnownByAddr, OneUserEach, AddrLeadsHome,
              CrashOnlyAfterMove
<1>2. ASSUME NEW c \in Conns, GetParticipants(c) \/ Accept(c)
      PROVE  RmInv'
  BY <1>1, <1>2 DEF GetParticipants, Accept
<1>3. ASSUME NEW c \in Conns, UpdateActivity(c)
      PROVE  RmInv'
  <2>1. crashed' => crashed \/ (UserAt(c) # NoUser /\ Nil(UserAt(c)))
    BY <1>3 DEF UpdateActivity, Note
  <2> QED
    BY <1>1, <1>3, <2>1, NilOnlyAfterMove DEF UpdateActivity
<1>4. ASSUME NEW c \in Conns, Analyze(c)
      PROVE  RmInv'
  BY <1>1, <1>4, NilOnlyAfterMove DEF Analyze
<1>5. ASSUME NEW r \in Rooms, NEW u \in Speakers, FallSilent(r, u)
      PROVE  RmInv'
  BY <1>1, <1>5 DEF FallSilent
<1>6. CASE UNCHANGED rmvars
  BY <1>1, <1>6 DEF rmvars
<1> QED
  BY <1>2, <1>3, <1>4, <1>5, <1>6, HelloInv, HandleEndInv, CleanupInv DEF RmNext

\* For any speakers, rooms, addresses and connections: only a user who changed
\* rooms brings the server down, and whoever a room lists is known by its
\* address, however Cleanup, the three calls of a packet and the goroutines of
\* several connections from one address interleave; the users who changed rooms
\* and the addresses that two users were listed with are excepted.
THEOREM RoomsAreSound == RmSpec => []RoomsSound
<1>1. RmInit => RmInv
  BY NilAssumption DEF RmInit, RmInv, RmTypeOK, MapsAgree, ListedAtHome, KnownByAddr, OneUserEach,
                       AddrLeadsHome, CrashOnlyAfterMove
<1>2. RmInv => RoomsSound
  BY DEF RmInv, MapsAgree, ListedAtHome, KnownByAddr, RoomsSound, ListedIsReachable
<1> QED
  BY <1>1, <1>2, RmStep, PTL DEF RmSpec

-----------------------------------------------------------------------------
(* The legacy server's estimate of packet loss.                            *)

PlTypeOK ==
  /\ got \in SUBSET (Nat \ {0}) /\ first \in Nat
  /\ lastSeq \in Nat /\ lostPackets \in Nat /\ totalPackets \in Nat
  /\ inOrder \in BOOLEAN

IsNewest(m) == m \in got /\ \A k \in got : k <= m

\* lastSeq is the number of a packet that arrived, the newest if they came in
\* order.
Remembered(l) ==
  l \in got /\ lastSeq = l % Word /\ (inOrder => \A k \in got : k <= l)

PlInv ==
  /\ PlTypeOK
  /\ got = {} => lastSeq = 0 /\ lostPackets = 0
  /\ got # {} => first \in got /\ (\E l \in got : Remembered(l)) /\ \E m \in got : IsNewest(m)
  /\ LossCovered

LEMMA DivMod ==
  ASSUME NEW w \in Nat \ {0}, NEW n \in Nat
  PROVE  n = w * (n \div w) + (n % w) /\ n % w \in 0..(w - 1) /\ n \div w \in Nat
  OBVIOUS

LEMMA SmallMod ==
  ASSUME NEW w \in Nat \ {0}, NEW n \in 0..(w - 1)
  PROVE  n % w = n
  OBVIOUS

LEMMA IntMod ==
  ASSUME NEW w \in Nat \ {0}, NEW n \in Int
  PROVE  n % w \in 0..(w - 1)
  OBVIOUS

LEMMA NewestIs ==
  ASSUME PlTypeOK, NEW m \in got, IsNewest(m)
  PROVE  Newest = m
<1>1. m \in got /\ \A k \in got : k <= m
  BY DEF IsNewest
<1>2. \A n \in got : (\A k \in got : k <= n) => n = m
  BY <1>1 DEF PlTypeOK
<1> QED
  BY <1>1, <1>2, Zenon DEF Newest

\* The loss counted never falls until a verdict.
LEMMA LostGrows ==
  ASSUME PlTypeOK, NEW n \in Nat
  PROVE  Lost(n % Word) \in Nat /\ Lost(n % Word) >= lostPackets
<1>1. n % Word \in Nat
  BY DivMod, CountsAssumption
<1>2. (n % Word) - lastSeq - 1 \in Int
  BY <1>1 DEF PlTypeOK
<1>3. Skipped(n % Word) \in Nat
  BY <1>2, IntMod, CountsAssumption DEF Skipped
<1> QED
  BY <1>3 DEF Lost, PlTypeOK

\* Without a wrap, the gap behind the packet before is counted whole.
LEMMA GapCounted ==
  ASSUME PlTypeOK, NEW l \in Nat, NEW n \in Nat, lastSeq = l % Word, l < n,
         l \div Word = n \div Word, l % Word # 0
  PROVE  Lost(n % Word) = lostPackets + (n - l - 1)
<1> DEFINE a == l % Word
           b == n % Word
<1>1. /\ a \in 0..(Word - 1) /\ b \in 0..(Word - 1) /\ a # 0
      /\ b = a + (n - l)
  <2>1. /\ l = Word * (l \div Word) + a /\ a \in 0..(Word - 1)
        /\ n = Word * (n \div Word) + b /\ b \in 0..(Word - 1)
    BY DivMod, CountsAssumption
  <2>2. l \div Word \in Nat /\ Word * (l \div Word) \in Nat
    BY DivMod, CountsAssumption
  <2> HIDE DEF a, b
  <2>3. a # 0
    BY DEF a
  <2> QED
    BY <2>1, <2>2, <2>3
<1>2. lastSeq = a
  OBVIOUS
<1> HIDE DEF a, b
<1>3. a + 1 \in 0..(Word - 1) /\ b - a - 1 \in 0..(Word - 1)
  BY <1>1, CountsAssumption
<1>4. (a + 1) % Word = a + 1 /\ (b - a - 1) % Word = b - a - 1
  BY <1>3, SmallMod, CountsAssumption
<1>5. Lost(b) = IF b > a + 1 THEN lostPackets + (b - a - 1) ELSE lostPackets
  BY <1>1, <1>2, <1>4 DEF Lost, Jump, Skipped
<1>6. Lost(b) = lostPackets + (n - l - 1)
  BY <1>1, <1>5 DEF PlTypeOK
<1> QED
  BY <1>6 DEF b

\* What is missing of f..m.
Lacks(old, f, m, set) == old \subseteq f..m /\ \A x \in f..m : x \in old <=> x \notin set

\* What is missing once a newer packet than m, the newest, has arrived.
LEMMA MissingGrows ==
  ASSUME NEW set \in SUBSET Nat, NEW f \in Nat, NEW m \in Nat, NEW n \in Nat, f <= m, m < n,
         \A k \in set : k <= m,
         NEW old, Lacks(old, f, m, set), NEW new, Lacks(new, f, n, set \cup {n})
  PROVE  Cardinality(old) \in Nat /\ Cardinality(new) = Cardinality(old) + (n - 1 - m)
<1> DEFINE gap == (m + 1)..(n - 1)
<1>1. new = old \cup gap /\ old \cap gap = {}
  <2>1. ASSUME NEW x \in new PROVE x \in old \cup gap
    BY <2>1 DEF Lacks
  <2>2. ASSUME NEW x \in old PROVE x \in new /\ x \notin gap
    BY <2>2 DEF Lacks
  <2>3. ASSUME NEW x \in gap PROVE x \in new
    BY <2>3 DEF Lacks
  <2> QED
    BY <2>1, <2>2, <2>3
<1>2. IsFiniteSet(f..m) /\ old \in SUBSET (f..m)
  BY FS_Interval DEF Lacks
<1>3. IsFiniteSet(gap) /\ Cardinality(gap) = n - 1 - m
  <2>1. Cardinality(gap) = IF m + 1 > n - 1 THEN 0 ELSE (n - 1) - (m + 1) + 1
    BY FS_Interval
  <2> QED
    BY <2>1, FS_Interval
<1>4. IsFiniteSet(old)
  BY <1>2, FS_Subset
<1> HIDE DEF gap
<1>5. Cardinality(old) \in Nat
  BY <1>4, FS_CardinalityType
<1>6. Cardinality(new) = Cardinality(old) + Cardinality(gap) - 0
  BY <1>1, <1>3, <1>4, FS_Union, FS_EmptySet
<1> QED
  BY <1>3, <1>5, <1>6

\* And once an older one has.
LEMMA MissingShrinks ==
  ASSUME NEW set, NEW f \in Nat, NEW m \in Nat, NEW n,
         NEW old, Lacks(old, f, m, set), NEW new, Lacks(new, f, m, set \cup {n})
  PROVE  /\ Cardinality(old) \in Nat /\ Cardinality(new) \in Nat
         /\ Cardinality(new) <= Cardinality(old)
<1>1. IsFiniteSet(f..m) /\ old \in SUBSET (f..m) /\ new \in SUBSET old
  BY FS_Interval DEF Lacks
<1>2. IsFiniteSet(old)
  BY <1>1, FS_Subset
<1>3. IsFiniteSet(new) /\ Cardinality(new) <= Cardinality(old)
  BY <1>1, <1>2, FS_Subset
<1> QED
  BY <1>2, <1>3, FS_CardinalityType

\* A packet that is the only one: nothing is missing.
LEMMA OnlyInv ==
  ASSUME PlTypeOK', NEW n \in Nat \ {0}, got' = {n}, first' = n, lastSeq' = n % Word, lostPackets' = 0
  PROVE  PlInv'
<1>1. IsNewest(n)' /\ Remembered(n)'
  BY DEF IsNewest, Remembered
<1>2. Newest' = n
  <2>1. \A k \in got' : k <= n
    OBVIOUS
  <2>2. \A j \in got' : j = n
    OBVIOUS
  <2> QED
    BY <2>1, <2>2, Zenon DEF Newest
<1>3. Missing' = {}
  BY <1>2 DEF Missing
<1>4. LossCovered'
  BY <1>3, FS_EmptySet DEF LossCovered
<1> QED
  BY <1>1, <1>4 DEF PlInv

\* A packet more.
LEMMA ArrivalInv ==
  ASSUME PlInv, PlTypeOK', NEW n \in Nat \ {0}, got # {},
         lastSeq' = n % Word, lostPackets' = Lost(n % Word), got' = got \cup {n}, first' = first,
         inOrder' = (inOrder /\ \A k \in got : k < n)
  PROVE  PlInv'
<1>1. PICK l \in got : Remembered(l)
  BY DEF PlInv
<1>2. PICK m \in got : IsNewest(m)
  BY DEF PlInv
<1>3. /\ l \in Nat /\ m \in Nat /\ first \in got /\ first \in Nat /\ first <= m /\ l <= m
      /\ lastSeq = l % Word /\ (inOrder => l = m) /\ \A k \in got : k \in Nat /\ k <= m
  BY <1>1, <1>2 DEF PlInv, PlTypeOK, Remembered, IsNewest
<1>4. Newest = m
  BY <1>2, NewestIs DEF PlInv
<1>5. Lacks(Missing, first, m, got)
  BY <1>4 DEF Missing, Lacks
<1>6. NoWrap' => NoWrap
  BY DEF NoWrap
<1>7. Remembered(n)'
  <2>1. inOrder' => \A k \in got : k < n
    OBVIOUS
  <2>2. inOrder' => \A k \in got' : k <= n
    BY <1>3, <2>1
  <2> QED
    BY <2>2 DEF Remembered
<1>8. CASE m < n
  <2>1. IsNewest(n)'
    BY <1>3, <1>8 DEF IsNewest
  <2>2. Newest' = n
    <3>1. n \in got' /\ \A k \in got' : k <= n
      BY <2>1 DEF IsNewest
    <3>2. \A j \in got' : (\A k \in got' : k <= j) => j = n
      BY <1>3, <1>8, <3>1
    <3> QED
      BY <3>1, <3>2, Zenon DEF Newest
  <2>3. Lacks(Missing', first, n, got \cup {n})
    BY <2>2 DEF Missing, Lacks
  <2>4. Cardinality(Missing) \in Nat /\ Cardinality(Missing') = Cardinality(Missing) + (n - 1 - m)
    <3>1. got \in SUBSET Nat
      BY <1>3
    <3> QED
      BY <1>3, <1>5, <1>8, <2>3, <3>1, MissingGrows
  <2>5. ASSUME NoWrap' PROVE lostPackets' = lostPackets + (n - l - 1)
    <3>1. l \div Word = n \div Word /\ l % Word # 0
      BY <2>5 DEF NoWrap
    <3> QED
      BY <1>3, <1>8, <3>1, GapCounted DEF PlInv
  <2>6. LossCovered'
    <3> SUFFICES ASSUME NoWrap'
                 PROVE  /\ lostPackets' >= Cardinality(Missing')
                        /\ inOrder' => lostPackets' = Cardinality(Missing')
      BY DEF LossCovered
    <3>1. /\ lostPackets >= Cardinality(Missing) /\ (inOrder => lostPackets = Cardinality(Missing))
          /\ lostPackets \in Nat
      BY <1>6 DEF PlInv, LossCovered, PlTypeOK
    <3>2. inOrder' => inOrder
      OBVIOUS
    <3> HIDE DEF Missing
    <3> QED
      BY <1>3, <1>8, <2>4, <2>5, <3>1, <3>2
  <2> QED
    BY <1>7, <2>1, <2>6 DEF PlInv
<1>9. CASE ~ (m < n)
  <2>1. IsNewest(m)' /\ m \in got'
    BY <1>3, <1>9 DEF IsNewest
  <2>2. Newest' = m
    <3>1. m \in got' /\ \A k \in got' : k <= m
      BY <2>1 DEF IsNewest
    <3>2. \A j \in got' : (\A k \in got' : k <= j) => j = m
      BY <1>3, <3>1
    <3> QED
      BY <3>1, <3>2, Zenon DEF Newest
  <2>3. Lacks(Missing', first, m, got \cup {n})
    BY <2>2 DEF Missing, Lacks
  <2>4. /\ Cardinality(Missing) \in Nat /\ Cardinality(Missing') \in Nat
        /\ Cardinality(Missing') <= Cardinality(Missing)
    BY <1>3, <1>5, <2>3, MissingShrinks
  <2>5. lostPackets' >= lostPackets /\ lostPackets' \in Nat /\ lostPackets \in Nat
    BY LostGrows DEF PlInv, PlTypeOK
  <2>6. ~inOrder'
    BY <1>2, <1>3, <1>9
  <2>7. LossCovered'
    <3> SUFFICES ASSUME NoWrap' PROVE lostPackets' >= Cardinality(Missing')
      BY <2>6 DEF LossCovered
    <3>1. lostPackets >= Cardinality(Missing)
      BY <1>6 DEF PlInv, LossCovered
    <3> QED
      BY <2>4, <2>5, <3>1
  <2> QED
    BY <1>7, <2>1, <2>7 DEF PlInv
<1> QED
  BY <1>8, <1>9

LEMMA AnalyzeInv ==
  ASSUME PlInv, NEW n \in 1..MaxSent, AnalyzePacketLoss(n)
  PROVE  PlInv'
<1>1. n \in Nat \ {0} /\ n % Word \in Nat /\ Lost(n % Word) \in Nat
  BY DivMod, LostGrows, CountsAssumption DEF PlInv
<1>2. PlTypeOK'
  <2>1. got' \in SUBSET (Nat \ {0}) /\ first' \in Nat
    BY <1>1 DEF AnalyzePacketLoss, PlInv, PlTypeOK
  <2>2. lastSeq' \in Nat /\ lostPackets' \in Nat /\ totalPackets' \in Nat
    BY <1>1 DEF AnalyzePacketLoss, PlInv, PlTypeOK
  <2>3. inOrder' \in BOOLEAN
    BY DEF AnalyzePacketLoss
  <2> QED
    BY <2>1, <2>2, <2>3 DEF PlTypeOK
<1>3. CASE totalPackets + 1 < Quota
  <2>1. CASE got = {}
    <3>1. Lost(n % Word) = 0
      BY <2>1 DEF Lost, PlInv
    <3> QED
      BY <1>1, <1>2, <1>3, <2>1, <3>1, OnlyInv DEF AnalyzePacketLoss
  <2>2. CASE got # {}
    BY <1>1, <1>2, <1>3, <2>2, ArrivalInv DEF AnalyzePacketLoss
  <2> QED
    BY <2>1, <2>2
<1>4. CASE ~ (totalPackets + 1 < Quota)
  BY <1>1, <1>2, <1>4, OnlyInv DEF AnalyzePacketLoss
<1> QED
  BY <1>3, <1>4

\* Before the first packet nothing is missing.
LEMMA FreshInv ==
  ASSUME got = {}, lastSeq = 0, lostPackets = 0, totalPackets = 0, first = 0, inOrder = TRUE
  PROVE  PlInv
<1>1. Missing = {}
  BY DEF Missing
<1>2. LossCovered
  BY <1>1, FS_EmptySet DEF LossCovered
<1> QED
  BY <1>2 DEF PlInv, PlTypeOK

\* For any word, quota and network: no packet of a run without a wrap is lost
\* uncounted, and what AnalyzePacketLoss counts of packets that come in order
\* is exact.
THEOREM LossIsCovered == PlSpec => []LossCovered
<1>1. PlInit => PlInv
  BY FreshInv DEF PlInit
<1>2. PlInv /\ [PlNext]_plvars => PlInv'
  <2> SUFFICES ASSUME PlInv, [PlNext]_plvars PROVE PlInv'
    OBVIOUS
  <2>1. CASE Renew
    <3>1. Missing' = {}
      BY <2>1 DEF Renew, Missing
    <3>2. LossCovered'
      BY <2>1, <3>1, FS_EmptySet DEF Renew, LossCovered
    <3> QED
      BY <2>1, <3>2 DEF Renew, PlInv, PlTypeOK
  <2>2. CASE UNCHANGED plvars
    BY <2>2 DEF plvars, PlInv, PlTypeOK, Remembered, IsNewest, LossCovered, NoWrap, Missing, Newest
  <2> QED
    BY <2>1, <2>2, AnalyzeInv DEF PlNext
<1>3. PlInv => LossCovered
  BY DEF PlInv
<1> QED
  BY <1>1, <1>2, <1>3, PTL DEF PlSpec


=============================================================================
