------------------------------ MODULE Accounts ------------------------------
(***************************************************************************)
(* Registration and login across the gateway, user-service and             *)
(* auth-service.  handleRegister inserts the user, then its credentials in *)
(* another service's database, and deletes the user again if that fails;   *)
(* every call may fail before or after it took effect.  HandleLogin finds  *)
(* the user whatever the case of the name, then compares the password.     *)
(***************************************************************************)
EXTENDS Naturals

CONSTANTS
  Registrations,   \* POST /register requests; each makes a user id of its own
  Logins,          \* POST /login requests
  Forms,           \* what they can be filled in with: [name, email, phone, password]
  Folded(_),       \* LOWER of a name
  None

ASSUME NoneAssumption ==
  None \notin Registrations \cup Forms \cup {f.password : f \in Forms}

VARIABLES
  form,      \* what a registration was filled in with, None before it arrives
  register,  \* where its handler is
  users,     \* table users: id -> form or None
  hash,      \* table credentials: id -> password or None
  login,     \* a login: its stage, form, and the id it found
  \* History, read by no guard:
  broken,    \* registrations one of whose calls ended in an error after it took
             \* effect, or that were not undone
  owners     \* registrations a login's form belongs to when it arrived

acvars == <<form, register, users, hash, login, broken, owners>>

-----------------------------------------------------------------------------
AcInit ==
  /\ form = [r \in Registrations |-> None]
  /\ register = [r \in Registrations |-> "new"]
  /\ users = [r \in Registrations |-> None]
  /\ hash = [r \in Registrations |-> None]
  /\ login = [l \in Logins |-> [at |-> "idle", id |-> None, name |-> None, password |-> None]]
  /\ broken = {}
  /\ owners = [l \in Logins |-> {}]

Rows == {r \in Registrations : users[r] # None}

\* The three UNIQUE constraints; names are compared with their case.
Taken(f) ==
  \E r \in Rows : \/ users[r].name = f.name
                  \/ users[r].email = f.email
                  \/ users[r].phone = f.phone

Goes(r, stage) == register' = [register EXCEPT ![r] = stage]

\* Mutation of Insert: nothing is unique.
InsertAny(r, f) ==
  /\ users' = [users EXCEPT ![r] = f]
  /\ \/ Goes(r, "inserted") /\ UNCHANGED broken
     \/ Goes(r, "refused") /\ broken' = broken \cup {r}

\* user-service inserts the row.  If its answer is lost the gateway refuses
\* the registration and leaves the row.
Insert(r, f) ==
  /\ ~Taken(f)
  /\ users' = [users EXCEPT ![r] = f]
  /\ \/ Goes(r, "inserted") /\ UNCHANGED broken
     \/ Goes(r, "refused") /\ broken' = broken \cup {r}

\* 409 also when the call did not reach the database.
Register(r) ==
  /\ register[r] = "new"
  /\ \E f \in Forms :
       /\ form' = [form EXCEPT ![r] = f]
       /\ \/ Insert(r, f)
          \/ Goes(r, "refused") /\ UNCHANGED <<users, broken>>
  /\ UNCHANGED <<hash, login, owners>>

\* auth-service stores the hash; if the answer is lost the gateway undoes the
\* registration and the credentials stay.
SetCredentials(r) ==
  /\ register[r] = "inserted"
  /\ hash' = [hash EXCEPT ![r] = form[r].password]
  /\ \/ Goes(r, "ok") /\ UNCHANGED broken
     \/ Goes(r, "undo") /\ broken' = broken \cup {r}
  /\ UNCHANGED <<form, users, login, owners>>

\* Mutation of SetCredentialsFails: the user is not deleted again.
SetCredentialsGivesUp(r) ==
  /\ register[r] = "inserted" /\ Goes(r, "refused")
  /\ UNCHANGED <<form, users, hash, login, broken, owners>>

\* A password that cannot be hashed, or a database that does not answer.
SetCredentialsFails(r) ==
  /\ register[r] = "inserted" /\ Goes(r, "undo")
  /\ UNCHANGED <<form, users, hash, login, broken, owners>>

\* The compensation.
DeleteUser(r) ==
  /\ register[r] = "undo"
  /\ users' = [users EXCEPT ![r] = None]
  /\ Goes(r, "refused")
  /\ UNCHANGED <<form, hash, login, broken, owners>>

\* It is called with the context of the request: when the client has gone, or
\* the database still does not answer, the error is logged and the row stays.
DeleteUserFails(r) ==
  /\ register[r] = "undo" /\ Goes(r, "refused")
  /\ broken' = broken \cup {r}
  /\ UNCHANGED <<form, users, hash, login, owners>>

\* The gateway dies inside the handler.
AbortRegister(r) ==
  /\ register[r] \in {"inserted", "undo"} /\ Goes(r, "refused")
  /\ broken' = broken \cup {r}
  /\ UNCHANGED <<form, users, hash, login, owners>>

HandleRegister(r) ==
  \/ Register(r) \/ SetCredentials(r) \/ SetCredentialsFails(r)
  \/ DeleteUser(r) \/ DeleteUserFails(r) \/ AbortRegister(r)

-----------------------------------------------------------------------------
\* The rows GetUserByUsername may return: it scans the first of however many.
Named(name) == {r \in Rows : Folded(users[r].name) = Folded(name)}

Asks(l, f, stage, id) ==
  login' = [login EXCEPT ![l] = [at |-> stage, id |-> id, name |-> f.name, password |-> f.password]]

\* A login with a form of some registration; who was told it is registered
\* with exactly that name and password owns the login.
LookUp(l) ==
  /\ login[l].at = "idle"
  /\ \E f \in Forms :
       /\ \/ \E id \in Named(f.name) : Asks(l, f, "found", id)
          \/ Named(f.name) = {} /\ Asks(l, f, "refused", None)
       /\ owners' = [owners EXCEPT ![l] =
            {r \in Registrations : /\ register[r] = "ok"
                                   /\ form[r].name = f.name /\ form[r].password = f.password}]
  /\ UNCHANGED <<form, register, users, hash, broken>>

\* auth-service compares the password: no credentials and another password
\* are the same answer.
Authenticate(l) ==
  /\ login[l].at = "found"
  /\ login' = [login EXCEPT ![l].at =
                 IF hash[login[l].id] = login[l].password THEN "in" ELSE "refused"]
  /\ UNCHANGED <<form, register, users, hash, broken, owners>>

\* Either call fails: also 401.
LoginFails(l) ==
  /\ login[l].at \in {"idle", "found"}
  /\ login' = [login EXCEPT ![l].at = "failed"]
  /\ UNCHANGED <<form, register, users, hash, broken, owners>>

HandleLogin(l) == LookUp(l) \/ Authenticate(l) \/ LoginFails(l)

AcNext ==
  \/ \E r \in Registrations : HandleRegister(r)
  \/ \E l \in Logins : HandleLogin(l)

AcSpec == AcInit /\ [][AcNext]_acvars

-----------------------------------------------------------------------------
(* Properties                                                              *)

\* Once its handler has ended, a registration has left both its rows or
\* neither, unless one of its calls failed after taking effect, the
\* compensation failed, or the gateway died: then a name may be taken by a
\* user who can never log in.
RegisteredWhole ==
  \A r \in Registrations \ broken :
    register[r] \in {"ok", "refused"} =>
      /\ (users[r] # None) <=> (register[r] = "ok")
      /\ (hash[r] # None) <=> (register[r] = "ok")

\* A login with the name and password of a completed registration, none of
\* whose calls failed, is refused for one reason only: the lookup, which
\* ignores case, returned a user whose name differs from it in case.  (Names
\* are unique only with their case.)
RefusedExplained ==
  \A l \in Logins : login[l].at = "refused" /\ owners[l] # {} =>
    /\ login[l].id # None /\ login[l].id \notin owners[l]
    /\ form[login[l].id].name # login[l].name
    /\ Folded(form[login[l].id].name) = Folded(login[l].name)

=============================================================================
