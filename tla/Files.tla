------------------------------- MODULE Files -------------------------------
(***************************************************************************)
(* Avatars and files of messages.  A client gets a link that lets it write *)
(* one object for fifteen minutes, then names the object in a row: an      *)
(* avatar in user-service, a message in messaging-service.  Neither looks  *)
(* whether the object exists or whether another row names it.  Deleting is *)
(* the row first, then the object, in another service.  Viewers read a row *)
(* and then the object.                                                    *)
(***************************************************************************)
EXTENDS Naturals, Sequences, SequencesExt

CONSTANTS
  AvatarKeys, FileKeys,   \* keys avatars/<user>/.. and <folder>/<user>/.. of one user
  Messages,               \* ids of messages the user may send
  Deletions, Views,       \* requests
  NoKey

Keys == AvatarKeys \cup FileKeys

VARIABLES
  link,      \* an upload link: "none", "valid" or "expired"
  objects,   \* what the bucket holds
  avatars,   \* rows of user_avatars, by created_at
  posted,    \* a message's file_url, or NoKey
  deletion,  \* a deletion: its stage and key
  view,      \* a request to see something: its stage, message and key
  \* History, read by no guard:
  stored,    \* keys that ever had an object
  cleared,   \* keys a row of which was ever deleted
  loose      \* of those, the ones whose object was not deleted after all, or
             \* was stored again

flvars == <<link, objects, avatars, posted, deletion, view, stored, cleared, loose>>

-----------------------------------------------------------------------------
FlInit ==
  /\ link = [k \in Keys |-> "none"]
  /\ objects = {} /\ avatars = <<>>
  /\ posted = [m \in Messages |-> NoKey]
  /\ deletion = [d \in Deletions |-> [at |-> "idle", key |-> NoKey]]
  /\ view = [v \in Views |-> [at |-> "idle", msg |-> NoKey, key |-> NoKey]]
  /\ stored = {} /\ cleared = {} /\ loose = {}

\* s3-service makes a fresh key of 16 random bytes and signs a PUT for it.
GetUploadUrl(k) ==
  /\ link[k] = "none"
  /\ link' = [link EXCEPT ![k] = "valid"]
  /\ UNCHANGED <<objects, avatars, posted, deletion, view, stored, cleared, loose>>

\* The two handlers differ in the folder the key is put in.
GetAvatarUploadURL == \E k \in AvatarKeys : GetUploadUrl(k)

GetFileUploadURL == \E k \in FileKeys : GetUploadUrl(k)

Store(k) ==
  /\ objects' = objects \cup {k} /\ stored' = stored \cup {k}
  /\ loose' = IF k \in cleared THEN loose \cup {k} ELSE loose
  /\ UNCHANGED <<link, avatars, posted, deletion, view, cleared>>

\* Nothing takes a link back: it also works after the object was deleted.
Put(k) == link[k] = "valid" /\ Store(k)

LinkExpires(k) ==
  /\ link[k] = "valid"
  /\ link' = [link EXCEPT ![k] = "expired"]
  /\ UNCHANGED <<objects, avatars, posted, deletion, view, stored, cleared, loose>>

\* The streaming call stores what it received under the name it was given,
\* when the stream ends.
UploadFile(k) == link[k] # "none" /\ Store(k)

-----------------------------------------------------------------------------
AvatarRows == Range(avatars)

\* s3_key is the primary key of user_avatars: the same avatar is set once.
InsertAvatar(k) ==
  /\ k \notin AvatarRows
  /\ avatars' = Append(avatars, k)

SetAvatar(k) ==
  /\ k \in AvatarKeys
  /\ InsertAvatar(k)
  /\ UNCHANGED <<link, objects, posted, deletion, view, stored, cleared, loose>>

\* handleIncoming lets a user name any key of its own, also one that another
\* message names.
Post(m, k) ==
  /\ posted[m] = NoKey /\ k \in FileKeys
  /\ posted' = [posted EXCEPT ![m] = k]
  /\ UNCHANGED <<link, objects, avatars, deletion, view, stored, cleared, loose>>

\* The row is gone.  If the answer is lost the gateway stops here.
RowDeleted(d, k) ==
  /\ deletion[d].at = "idle"
  /\ cleared' = cleared \cup {k}
  /\ \/ deletion' = [deletion EXCEPT ![d] = [at |-> "row", key |-> k]] /\ UNCHANGED loose
     \/ deletion' = [deletion EXCEPT ![d] = [at |-> "done", key |-> k]] /\ loose' = loose \cup {k}
  /\ UNCHANGED <<link, objects, view, stored>>

DeleteAvatarRow(d, k) ==
  /\ k \in AvatarRows
  /\ avatars' = Remove(avatars, k)
  /\ RowDeleted(d, k)
  /\ UNCHANGED posted

DeleteMessageRow(d, m) ==
  /\ posted[m] # NoKey
  /\ posted' = [posted EXCEPT ![m] = NoKey]
  /\ RowDeleted(d, posted[m])
  /\ UNCHANGED avatars

\* Mutation of DeleteFile: the deletion is answered without it.
DeleteNoFile(d) ==
  /\ deletion[d].at = "row"
  /\ deletion' = [deletion EXCEPT ![d].at = "done"]
  /\ UNCHANGED <<link, objects, avatars, posted, view, stored, cleared, loose>>

DeleteFile(d) ==
  /\ deletion[d].at = "row"
  /\ objects' = objects \ {deletion[d].key}
  /\ deletion' = [deletion EXCEPT ![d].at = "done"]
  /\ UNCHANGED <<link, avatars, posted, view, stored, cleared, loose>>

\* The error is logged and nothing tries again; a gateway that dies here
\* leaves the object too.
DeleteFileFails(d) ==
  /\ deletion[d].at = "row"
  /\ deletion' = [deletion EXCEPT ![d].at = "done"]
  /\ loose' = loose \cup {deletion[d].key}
  /\ UNCHANGED <<link, objects, avatars, posted, view, stored, cleared>>

\* Mutation of DeleteAvatar: the object is deleted first.
DeleteAvatarObjectFirst(d) ==
  \/ \E k \in AvatarRows :
       /\ deletion[d].at = "idle"
       /\ objects' = objects \ {k}
       /\ deletion' = [deletion EXCEPT ![d] = [at |-> "object", key |-> k]]
       /\ UNCHANGED <<link, avatars, posted, view, stored, cleared, loose>>
  \/ /\ deletion[d].at = "object"
     /\ avatars' = Remove(avatars, deletion[d].key)
     /\ cleared' = cleared \cup {deletion[d].key}
     /\ deletion' = [deletion EXCEPT ![d].at = "done"]
     /\ UNCHANGED <<link, objects, posted, view, stored, loose>>

DeleteAvatar(d) == \E k \in AvatarKeys : DeleteAvatarRow(d, k)

DeleteMessage(d) == \E m \in Messages : DeleteMessageRow(d, m)

-----------------------------------------------------------------------------
Sees(v, stage, m, k) ==
  /\ view' = [view EXCEPT ![v] = [at |-> stage, msg |-> m, key |-> k]]
  /\ UNCHANGED <<link, objects, avatars, posted, deletion, stored, cleared, loose>>

\* GetAvatars lists the keys and the client asks for one of them by its key.
GetAvatars(v) ==
  /\ view[v].at = "idle"
  /\ \E k \in AvatarRows : Sees(v, "key", NoKey, k)

\* The avatar of a user who is named without a key: the latest.
GetUserInfo == IF avatars = <<>> THEN NoKey ELSE avatars[Len(avatars)]

HandleAvatar(v) ==
  /\ view[v].at = "idle"
  /\ IF GetUserInfo = NoKey THEN Sees(v, "not found", NoKey, NoKey)
                           ELSE Sees(v, "key", NoKey, GetUserInfo)

\* A message is listed with a URL that names the message, not the key.
GetMessages(v) ==
  /\ view[v].at = "idle"
  /\ \E m \in Messages : posted[m] # NoKey /\ Sees(v, "listed", m, NoKey)

GetFileInfo(v) ==
  /\ view[v].at = "listed"
  /\ LET m == view[v].msg IN
     IF posted[m] = NoKey THEN Sees(v, "not found", m, NoKey)
                         ELSE Sees(v, "info", m, posted[m])

\* The viewer must be a participant of the message's chat.
CheckMember(v) ==
  /\ view[v].at = "info"
  /\ \E stage \in {"key", "not found"} : Sees(v, stage, view[v].msg, view[v].key)

\* The gateway signs a GET for itself and passes on what S3 answers.
ProxyS3(v) ==
  /\ view[v].at = "key"
  /\ Sees(v, IF view[v].key \in objects THEN "shown" ELSE "missing", view[v].msg, view[v].key)

HandleFile(v) == GetFileInfo(v) \/ CheckMember(v) \/ ProxyS3(v)

ViewFails(v) ==
  /\ view[v].at \in {"idle", "listed", "info", "key"}
  /\ Sees(v, "failed", view[v].msg, view[v].key)

FlNext ==
  \/ GetAvatarUploadURL \/ GetFileUploadURL
  \/ \E k \in Keys : Put(k) \/ LinkExpires(k) \/ UploadFile(k) \/ SetAvatar(k)
  \/ \E m \in Messages, k \in Keys : Post(m, k)
  \/ \E d \in Deletions : \/ DeleteAvatar(d) \/ DeleteMessage(d)
                          \/ DeleteFile(d) \/ DeleteFileFails(d)
  \/ \E v \in Views : \/ GetAvatars(v) \/ HandleAvatar(v) \/ GetMessages(v)
                      \/ HandleFile(v) \/ ViewFails(v)

FlSpec == FlInit /\ [][FlNext]_flvars

-----------------------------------------------------------------------------
(* Properties                                                              *)

\* An object outlives the deletion of a row that named it only while the
\* deletion is under way, when it failed half way, or because the client
\* stored it again with the link it still had.
DeletedFilesGone ==
  \A k \in cleared \cap objects :
    k \in loose \/ \E d \in Deletions : deletion[d] = [at |-> "row", key |-> k]

\* Whoever is shown a row and gets no object for it was shown an object that
\* was never stored, or one that a deletion has reached: this row's, or
\* another row's that named the same key.
MissingExplained ==
  [][\A v \in Views : view[v].at = "key" /\ view'[v].at = "missing" =>
       view[v].key \notin stored \/ view[v].key \in cleared]_flvars

=============================================================================
