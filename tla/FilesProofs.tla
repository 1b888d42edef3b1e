---------------------------- MODULE FilesProofs ----------------------------
(***************************************************************************)
(* Files.tla's safety properties for any users, files, requests, cleanup   *)
(* jobs and limits, with storage that fails and processes that die.        *)
(***************************************************************************)
EXTENDS Files, FiniteSetTheorems, TLAPS

(* A row that is released, whatever its age and its attempts are.          *)
Settled(f) == row[f].status \in {"DELETING", "GONE"}

(* A request that has inserted its row and not yet answered.               *)
Uploading(q) == q.pc \in {"put", "finish", "releaseFailed", "undo"}

(* What a request has is enough for its next step, and the lock of an      *)
(* account is held by the request that works on it.                        *)
LockInv ==
    /\ \A u \in Users : userLock[u] # Nobody =>
           req[userLock[u]].pc = "write" /\ req[userLock[u]].user = u
    /\ \A r \in Requests :
           /\ req[r].pc \in {"insert", "lock", "write"} => req[r].user \in Users
           /\ req[r].pc = "write" =>
                  userLock[req[r].user] = r /\ req[r].current = picture[req[r].user]

(* An upload in flight has its file for itself, and the row is one it has  *)
(* not finished.                                                           *)
UploadInv ==
    /\ \A r \in Requests : Uploading(req[r]) =>
           /\ req[r].file \in Files
           /\ Settled(req[r].file) \/ (row[req[r].file].status = "PROCESSING" /\ req[r].pc # "undo")
    /\ \A r, s \in Requests :
           Uploading(req[r]) /\ Uploading(req[s]) /\ req[r].file = req[s].file => r = s

(* Bytes are written before the row says so and go only after it is released. *)
BytesInv ==
    /\ \A f \in Files : row[f].status \in {"READY", "ATTACHED"} => f \in object
    /\ \A r \in Requests :
           req[r].pc = "finish" /\ row[req[r].file].status = "PROCESSING" => req[r].file \in object

(* A cleanup job only ever works on rows that are released.                *)
CleanInv ==
    \A c \in Cleaners :
        /\ \A e \in cleaner[c].batch : Settled(e.file)
        /\ cleaner[c].pc \in {"deleteRow", "count"} =>
               cleaner[c].file \in Files /\ Settled(cleaner[c].file)

(* Pictures and attached rows correspond one to one. *)
PictureInv ==
    /\ \A u \in Users : picture[u] # NoFile => row[picture[u]].status = "ATTACHED"
    /\ \A f \in Files : row[f].status = "ATTACHED" =>
           row[f].attached /\ \E u \in Users : picture[u] = f
    /\ \A u, v \in Users : picture[u] = picture[v] /\ picture[u] # NoFile => u = v

IInv == TypeOK /\ LockInv /\ UploadInv /\ BytesInv /\ CleanInv /\ PictureInv

-----------------------------------------------------------------------------
(* Types *)

(* What statements write to a row is a row. *)
LEMMA RowWrites ==
    /\ \A x \in Row :
           /\ [x EXCEPT !.status = "DELETING", !.expired = FALSE] \in Row
           /\ [x EXCEPT !.status = "READY", !.sized = TRUE] \in Row
           /\ [x EXCEPT !.status = "ATTACHED", !.attached = TRUE, !.expired = FALSE] \in Row
           /\ [x EXCEPT !.expired = TRUE] \in Row
           /\ \A n \in Nat : [x EXCEPT !.attempts = n] \in Row
           /\ \A n \in 0..2 : [x EXCEPT !.age = n] \in Row
    /\ \A u \in Users \cup {Nobody} :
           /\ [NoRow EXCEPT !.status = "PROCESSING", !.by = u] \in Row
           /\ [NoRow EXCEPT !.status = "GONE", !.by = u] \in Row
    /\ NoRow \in Row
<1>1. NoRow \in Row
  BY DEF Row, NoRow
<1>2. ASSUME NEW x \in Row
      PROVE  /\ [x EXCEPT !.status = "DELETING", !.expired = FALSE] \in Row
             /\ [x EXCEPT !.status = "READY", !.sized = TRUE] \in Row
  BY DEF Row
<1>3. ASSUME NEW x \in Row
      PROVE  /\ [x EXCEPT !.status = "ATTACHED", !.attached = TRUE, !.expired = FALSE] \in Row
             /\ [x EXCEPT !.expired = TRUE] \in Row
  BY DEF Row
<1>4. ASSUME NEW x \in Row
      PROVE  /\ \A n \in Nat : [x EXCEPT !.attempts = n] \in Row
             /\ \A n \in 0..2 : [x EXCEPT !.age = n] \in Row
  BY DEF Row
<1>5. ASSUME NEW u \in Users \cup {Nobody}, NEW x \in Row
      PROVE  /\ [x EXCEPT !.status = "PROCESSING", !.by = u] \in Row
             /\ [x EXCEPT !.status = "GONE", !.by = u] \in Row
  BY DEF Row
<1> QED
  BY <1>1, <1>2, <1>3, <1>4, <1>5

(* What a step of a request keeps is a request. *)
LEMMA RequestWrites ==
    /\ \A q \in Request :
           /\ \A p \in {"finish", "releaseFailed", "undo"} : [q EXCEPT !.pc = p] \in Request
           /\ \A f \in Files : [q EXCEPT !.pc = "put", !.file = f] \in Request
           /\ \A f \in Files \cup {NoFile} : [q EXCEPT !.pc = "write", !.current = f] \in Request
    /\ \A u \in Users :
           /\ [Idle EXCEPT !.pc = "insert", !.op = "upload", !.user = u] \in Request
           /\ \A op \in AllOperations, f \in Files \cup {NoFile} :
                  [Idle EXCEPT !.pc = "lock", !.op = op, !.user = u, !.file = f] \in Request
    /\ Idle \in Request
BY DEF Request, Idle, AllOperations

(* What a step of a cleanup job keeps is a cleanup job. *)
LEMMA CleanerWrites ==
    /\ \A x \in Cleaner, f \in Files, B \in SUBSET Entry :
           /\ [x EXCEPT !.pc = "deleteRow", !.file = f, !.batch = B] \in Cleaner
           /\ \A n \in Nat : [x EXCEPT !.pc = "count", !.file = f, !.batch = B,
                                      !.strikes = n] \in Cleaner
    /\ \A B \in SUBSET Entry : [Resting EXCEPT !.pc = "next", !.batch = B] \in Cleaner
    /\ Resting \in Cleaner
<1>1. Resting \in Cleaner
  BY DEF Cleaner, Resting
<1>2. ASSUME NEW x \in Cleaner, NEW f \in Files, NEW B \in SUBSET Entry
      PROVE  /\ [x EXCEPT !.pc = "deleteRow", !.file = f, !.batch = B] \in Cleaner
             /\ \A n \in Nat : [x EXCEPT !.pc = "count", !.file = f, !.batch = B,
                                        !.strikes = n] \in Cleaner
  BY DEF Cleaner
<1>3. ASSUME NEW B \in SUBSET Entry
      PROVE  [Resting EXCEPT !.pc = "next", !.batch = B] \in Cleaner
  BY DEF Cleaner, Resting
<1> QED
  BY <1>1, <1>2, <1>3

LEMMA CleanerTurns ==
    /\ Resting \in Cleaner
    /\ \A x \in Cleaner :
           /\ \A n \in Nat : [x EXCEPT !.pc = "next", !.strikes = n] \in Cleaner
           /\ [x EXCEPT !.pc = "list"] \in Cleaner
BY DEF Cleaner, Resting

(* Every variable keeps its type: under every step of an upload, ...         *)
LEMMA UploadTypes ==
    ASSUME IInv, NEW r \in Requests,
           \/ InsertRow(r) \/ ProcessFails(r) \/ PutObject(r) \/ PutFails(r)
           \/ ReleaseFailedUpload(r) \/ Finish(r) \/ FinishLost(r)
           \/ Undo(r) \/ UndoFails(r)
    PROVE  TypeOK'
<1> USE DEF IInv, TypeOK
<1>1. req[r] \in Request
  OBVIOUS
<1>2. req[r].user \in Users \cup {Nobody}
  BY <1>1 DEF Request
<1>3. Uploading(req[r]) => req[r].file \in Files
  BY DEF UploadInv
<1>4. ASSUME NEW call \in {"put", "undo"}, StorageFails(call)
      PROVE  failures' \in 0..MaxFailures
  BY <1>4, FilesAssumption DEF StorageFails
<1>5. CASE InsertRow(r)
  <2>1. PICK f \in Files :
          /\ row' = [row EXCEPT ![f] = [NoRow EXCEPT !.status = "PROCESSING",
                                                     !.by = req[r].user]]
          /\ req' = [req EXCEPT ![r] = [req[r] EXCEPT !.pc = "put", !.file = f]]
          /\ UNCHANGED <<object, picture, account, userLock, cleaner, failures>>
    BY <1>5 DEF InsertRow
  <2>2. [NoRow EXCEPT !.status = "PROCESSING", !.by = req[r].user] \in Row
    BY <1>2, RowWrites
  <2>3. [req[r] EXCEPT !.pc = "put", !.file = f] \in Request
    BY <1>1, RequestWrites
  <2> QED
    BY <2>1, <2>2, <2>3
<1>6. CASE ProcessFails(r) \/ FinishLost(r)
  BY <1>1, <1>6, RequestWrites DEF ProcessFails, FinishLost, Goto
<1>7. CASE PutObject(r) \/ PutFails(r)
  <2>1. req[r].file \in Files /\ object' \subseteq Files
    BY <1>3, <1>7 DEF PutObject, PutFails, Uploading
  <2>2. failures' \in 0..MaxFailures
    BY <1>4, <1>7 DEF PutObject, PutFails
  <2>3. req' \in [Requests -> Request]
    BY <1>1, <1>7, RequestWrites DEF PutObject, PutFails, Goto
  <2> QED
    BY <1>7, <2>1, <2>2, <2>3 DEF PutObject, PutFails
<1>8. CASE ReleaseFailedUpload(r)
  BY <1>8, RowWrites, RequestWrites DEF ReleaseFailedUpload, Answer, Deleting
<1>9. CASE Finish(r)
  BY <1>9, RowWrites, RequestWrites DEF Finish, Answer
<1>10. CASE Undo(r) \/ UndoFails(r)
  <2>1. failures' \in 0..MaxFailures
    BY <1>4, <1>10 DEF Undo, UndoFails
  <2> QED
    BY <1>10, <2>1, RequestWrites DEF Undo, UndoFails, Answer
<1> QED
  BY <1>5, <1>6, <1>7, <1>8, <1>9, <1>10

(* ... of a request that works on an account, ... *)
LEMMA LockedTypes ==
    ASSUME IInv, NEW r \in Requests,
           \/ LockUser(r) \/ LockUserRefused(r) \/ SetPicture(r)
           \/ SetPictureNothing(r) \/ Erase(r) \/ DeleteAccount(r) \/ CrashRequest(r)
    PROVE  TypeOK'
<1> USE DEF IInv, TypeOK
<1>1. req[r] \in Request
  OBVIOUS
<1>2. req[r].pc \in {"lock", "write"} => req[r].user \in Users
  BY DEF LockInv
<1>3. [req EXCEPT ![r] = Idle] \in [Requests -> Request]
  BY RequestWrites
<1>4. [u \in Users |-> IF userLock[u] = r THEN Nobody ELSE userLock[u]]
          \in [Users -> Requests \cup {Nobody}]
  OBVIOUS
<1>5. req[r].file \in Files \cup {NoFile}
  BY <1>1 DEF Request
<1>6. \A f \in Files : Deleting(f) \in Row
  BY RowWrites DEF Deleting
<1>7. CASE LockUser(r)
  <2>1. picture[req[r].user] \in Files \cup {NoFile} /\ req[r].user \in Users
    BY <1>2, <1>7 DEF LockUser
  <2>2. req' = [req EXCEPT ![r] = [req[r] EXCEPT !.pc = "write",
                                                 !.current = picture[req[r].user]]]
    BY <1>7 DEF LockUser
  <2>3. req' \in [Requests -> Request]
    BY <1>1, <2>1, <2>2, RequestWrites
  <2>4. userLock' \in [Users -> Requests \cup {Nobody}]
    BY <1>7 DEF LockUser
  <2> QED
    BY <1>7, <2>3, <2>4 DEF LockUser
<1>8. CASE LockUserRefused(r) \/ SetPictureNothing(r) \/ CrashRequest(r)
  BY <1>3, <1>4, <1>8 DEF LockUserRefused, SetPictureNothing, CrashRequest, Answer, Unlock
<1>9. CASE SetPicture(r)
  <2>1. \A g \in Files : row'[g] \in Row
    BY <1>6, <1>9, RowWrites DEF SetPicture
  <2>2. row' \in [Files -> Row]
    BY <1>9, <2>1 DEF SetPicture
  <2>3. picture' \in [Users -> Files \cup {NoFile}]
    BY <1>5, <1>9 DEF SetPicture
  <2>4. /\ userLock' \in [Users -> Requests \cup {Nobody}]
        /\ req' \in [Requests -> Request]
    BY <1>3, <1>4, <1>9 DEF SetPicture, Answer, Unlock
  <2>5. UNCHANGED <<object, account, cleaner, failures>>
    BY <1>9 DEF SetPicture
  <2> QED
    BY <2>2, <2>3, <2>4, <2>5
<1>10. CASE Erase(r)
  <2>1. row' \in [Files -> Row]
    BY <1>6, <1>10 DEF Erase
  <2>2. /\ picture' \in [Users -> Files \cup {NoFile}]
        /\ account' \in [Users -> {"live", "deleted", "erased"}]
    BY <1>10 DEF Erase
  <2>3. /\ userLock' \in [Users -> Requests \cup {Nobody}]
        /\ req' \in [Requests -> Request]
    BY <1>3, <1>4, <1>10 DEF Erase, Answer, Unlock
  <2>4. UNCHANGED <<object, cleaner, failures>>
    BY <1>10 DEF Erase
  <2> QED
    BY <2>1, <2>2, <2>3, <2>4
<1>11. CASE DeleteAccount(r)
  BY <1>3, <1>4, <1>11 DEF DeleteAccount, Answer, Unlock
<1> QED
  BY <1>7, <1>8, <1>9, <1>10, <1>11

(* ... when a request begins or time passes, ... *)
LEMMA OtherTypes ==
    ASSUME IInv,
           \/ \E r \in Requests : Begin(r)
           \/ \E u \in Users, f \in Files : ReleaseUnattached(u, f)
           \/ \E f \in Files : Grow(f) \/ Expire(f)
    PROVE  TypeOK'
<1> USE DEF IInv, TypeOK
<1>1. ASSUME NEW r \in Requests, Begin(r)
      PROVE  TypeOK'
  <2>1. PICK q \in Request : req' = [req EXCEPT ![r] = q]
    BY <1>1, FilesAssumption, RequestWrites DEF Begin, BeginUpload, BeginLocked
  <2> QED
    BY <1>1, <2>1 DEF Begin, BeginUpload, BeginLocked
<1>2. ASSUME NEW u \in Users, NEW f \in Files, ReleaseUnattached(u, f)
      PROVE  TypeOK'
  BY <1>2, RowWrites DEF ReleaseUnattached, Deleting
<1>3. ASSUME NEW f \in Files, Grow(f)
      PROVE  TypeOK'
  <2>1. row[f] \in Row /\ row[f].age + 1 \in 0..2
    BY <1>3 DEF Grow, Row
  <2> QED
    BY <1>3, <2>1, RowWrites DEF Grow
<1>4. ASSUME NEW f \in Files, Expire(f)
      PROVE  TypeOK'
  BY <1>4, RowWrites DEF Expire
<1> QED
  BY <1>1, <1>2, <1>3, <1>4

(* ... and of a cleanup job. *)
LEMMA CleanerTypes ==
    ASSUME IInv, NEW c \in Cleaners, Clean(c) \/ CrashCleaner(c)
    PROVE  TypeOK'
<1> USE DEF IInv, TypeOK
<1>1. cleaner[c] \in Cleaner
  OBVIOUS
<1>2. /\ cleaner[c].batch \in SUBSET Entry /\ cleaner[c].strikes \in Nat
      /\ \A e \in Entry : e.file \in Files
  BY <1>1 DEF Cleaner, Entry
<1>3. ASSUME NEW n \in Nat, NextFile(c, n)
      PROVE  cleaner' \in [Cleaners -> Cleaner]
  <2>1. Resting \in Cleaner /\ [cleaner[c] EXCEPT !.pc = "next", !.strikes = n] \in Cleaner
    BY <1>1, CleanerTurns
  <2> QED
    BY <1>3, <2>1 DEF NextFile
<1>4. cleaner[c].pc \in {"deleteRow", "count"} => cleaner[c].file \in Files
  BY DEF CleanInv
<1>5. CASE ClaimUnused(c)
  <2>1. \A f \in Files : Deleting(f) \in Row
    BY RowWrites DEF Deleting
  <2>2. row' \in [Files -> Row]
    BY <1>5, <2>1 DEF ClaimUnused
  <2>3. [cleaner[c] EXCEPT !.pc = "list"] \in Cleaner
    BY <1>1, CleanerTurns
  <2> QED
    BY <1>5, <2>2, <2>3 DEF ClaimUnused
<1>6. CASE ListBatch(c)
  <2>1. PICK B \in Batches :
          cleaner' = [cleaner EXCEPT ![c] =
              IF B = {} THEN Resting ELSE [Resting EXCEPT !.pc = "next", !.batch = B]]
    BY <1>6 DEF ListBatch
  <2>2. B \in SUBSET Entry
    <3>1. \A f \in ToDelete : f \in Files /\ row[f].attempts \in Nat
      BY DEF ToDelete, Row
    <3> QED
      BY <3>1 DEF Batches, Entry
  <2>3. cleaner' \in [Cleaners -> Cleaner]
    BY <2>1, <2>2, CleanerWrites
  <2> QED
    BY <1>6, <2>3 DEF ListBatch
<1>7. CASE DeleteObject(c)
  <2>1. PICK e \in cleaner[c].batch :
          cleaner' = [cleaner EXCEPT ![c] =
              [cleaner[c] EXCEPT !.pc = "deleteRow", !.file = e.file,
                                 !.batch = cleaner[c].batch \ {e}]]
    BY <1>7 DEF DeleteObject
  <2>2. cleaner' \in [Cleaners -> Cleaner]
    BY <1>1, <1>2, <2>1, CleanerWrites
  <2> QED
    BY <1>7, <2>2 DEF DeleteObject
<1>8. CASE DeleteObjectFails(c)
  <2>1. PICK e \in cleaner[c].batch :
          cleaner' = [cleaner EXCEPT ![c] =
              [cleaner[c] EXCEPT !.pc = "count", !.file = e.file,
                                 !.batch = cleaner[c].batch \ {e},
                                 !.strikes = cleaner[c].strikes + 1]]
    BY <1>8 DEF DeleteObjectFails
  <2>2. cleaner' \in [Cleaners -> Cleaner]
    <3>1. /\ e.file \in Files /\ cleaner[c].batch \ {e} \in SUBSET Entry
          /\ cleaner[c].strikes + 1 \in Nat
      BY <1>2
    <3>2. [cleaner[c] EXCEPT !.pc = "count", !.file = e.file,
                             !.batch = cleaner[c].batch \ {e},
                             !.strikes = cleaner[c].strikes + 1] \in Cleaner
      BY <1>1, <3>1, CleanerWrites
    <3> QED
      BY <2>1, <3>2
  <2>3. failures' \in 0..MaxFailures
    BY <1>8, FilesAssumption DEF DeleteObjectFails, StorageFails
  <2> QED
    BY <1>8, <2>2, <2>3 DEF DeleteObjectFails
<1>9. CASE DeleteRow(c)
  <2>1. row[cleaner[c].file].by \in Users \cup {Nobody}
    BY <1>4, <1>9 DEF DeleteRow, Row
  <2>2. row' \in [Files -> Row]
    BY <1>4, <1>9, <2>1, RowWrites DEF DeleteRow
  <2> QED
    BY <1>3, <1>9, <2>2 DEF DeleteRow
<1>10. CASE RecordFailedDelete(c)
  <2>1. row[cleaner[c].file].attempts + 1 \in Nat
    BY <1>4, <1>10 DEF RecordFailedDelete, Row
  <2>2. Attempted(cleaner[c].file) \in Row
    BY <1>4, <1>10, <2>1, RowWrites DEF RecordFailedDelete, Attempted
  <2> QED
    BY <1>2, <1>3, <1>10, <2>2 DEF RecordFailedDelete
<1>11. CASE StopCleaning(c) \/ CrashCleaner(c)
  BY <1>11, CleanerWrites DEF StopCleaning, CrashCleaner
<1> QED
  BY <1>5, <1>6, <1>7, <1>8, <1>9, <1>10, <1>11 DEF Clean

-----------------------------------------------------------------------------
(* The three steps that write a row and a request together, or several rows *)

LEMMA Inserted ==
    ASSUME IInv, NEW r \in Requests, InsertRow(r)
    PROVE  \E f \in Files :
               /\ row[f].status = "NONE" /\ row'[f].status = "PROCESSING"
               /\ ~row'[f].attached
               /\ \A g \in Files \ {f} : row'[g] = row[g]
               /\ req[r].pc = "insert" /\ req'[r].pc = "put" /\ req'[r].file = f
               /\ \A s \in Requests \ {r} : req'[s] = req[s]
               /\ UNCHANGED <<object, picture, account, userLock, cleaner, failures>>
<1>1. PICK f \in Files :
        /\ row[f].status = "NONE" /\ req[r].pc = "insert"
        /\ row' = [row EXCEPT ![f] = [NoRow EXCEPT !.status = "PROCESSING",
                                                   !.by = req[r].user]]
        /\ req' = [req EXCEPT ![r] = [req[r] EXCEPT !.pc = "put", !.file = f]]
        /\ UNCHANGED <<object, picture, account, userLock, cleaner, failures>>
  BY DEF InsertRow
<1>2. row'[f].status = "PROCESSING" /\ ~row'[f].attached
  BY <1>1 DEF IInv, TypeOK, NoRow
<1>3. \A g \in Files \ {f} : row'[g] = row[g]
  BY <1>1 DEF IInv, TypeOK
<1>4. req[r] \in Request
  BY DEF IInv, TypeOK
<1>5. req'[r].pc = "put" /\ req'[r].file = f
  BY <1>1, <1>4 DEF IInv, TypeOK, Request
<1>6. \A s \in Requests \ {r} : req'[s] = req[s]
  BY <1>1 DEF IInv, TypeOK
<1> QED
  BY <1>1, <1>2, <1>3, <1>5, <1>6

(* What the holder of an account's lock does and lets go of. *)
Leaves(r) ==
    /\ req[r].pc = "write" /\ req[r].user \in Users
    /\ userLock[req[r].user] = r /\ req[r].current = picture[req[r].user]
    /\ req'[r].pc = "idle" /\ \A s \in Requests \ {r} : req'[s] = req[s]
    /\ \A u \in Users : userLock'[u] = IF userLock[u] = r THEN Nobody ELSE userLock[u]

LEMMA PictureSet ==
    ASSUME IInv, NEW r \in Requests, SetPicture(r)
    PROVE  /\ Leaves(r)
           /\ UNCHANGED <<object, account, cleaner, failures>>
           /\ picture'[req[r].user] = req[r].file
           /\ \A v \in Users \ {req[r].user} : picture'[v] = picture[v]
           /\ req[r].file # req[r].current
           /\ req[r].file \in Files \cup {NoFile}
           /\ \A g \in Files :
                /\ g = req[r].file =>
                       row[g].status = "READY" /\ row'[g].status = "ATTACHED"
                       /\ row'[g].attached /\ row'[g].by = row[g].by
                /\ g = req[r].current =>
                       row[g].status = "ATTACHED" /\ row'[g].status = "DELETING"
                       /\ row'[g].attached = row[g].attached /\ row'[g].by = row[g].by
                /\ g \notin {req[r].file, req[r].current} => row'[g] = row[g]
<1> DEFINE u == req[r].user
<1>1. /\ Leaves(r) /\ UNCHANGED <<object, account, cleaner, failures>>
      /\ req[r].file # req[r].current
  BY DEF SetPicture, Leaves, Answer, Unlock, IInv, TypeOK, LockInv, Idle
<1>2. /\ picture'[u] = req[r].file
      /\ \A v \in Users \ {u} : picture'[v] = picture[v]
  BY <1>1 DEF SetPicture, Leaves, IInv, TypeOK
<1>3. req[r].file \in Files \cup {NoFile}
  BY DEF IInv, TypeOK, Request
<1>4. ASSUME NEW g \in Files, g = req[r].file
      PROVE  /\ row[g].status = "READY" /\ row'[g].status = "ATTACHED"
             /\ row'[g].attached /\ row'[g].by = row[g].by
  <2>1. row[g] \in Row /\ g # NoFile
    BY FilesAssumption DEF IInv, TypeOK
  <2>2. row'[g] = [row[g] EXCEPT !.status = "ATTACHED", !.attached = TRUE, !.expired = FALSE]
    BY <1>4 DEF SetPicture
  <2>3. row[g].status = "READY"
    BY <1>4, <2>1 DEF SetPicture, Claimable
  <2> QED
    BY <2>1, <2>2, <2>3 DEF Row
<1>5. ASSUME NEW g \in Files, g = req[r].current
      PROVE  /\ row[g].status = "ATTACHED" /\ row'[g].status = "DELETING"
             /\ row'[g].attached = row[g].attached /\ row'[g].by = row[g].by
  <2>1. row[g] \in Row /\ g # NoFile /\ g # req[r].file
    BY <1>1, <1>5, FilesAssumption DEF IInv, TypeOK
  <2>2. row'[g] = Deleting(g)
    BY <1>5, <2>1 DEF SetPicture
  <2>3. row[g].status = "ATTACHED"
    BY <1>1, <1>5, <2>1 DEF Leaves, IInv, PictureInv
  <2> QED
    BY <2>1, <2>2, <2>3 DEF Row, Deleting
<1>6. ASSUME NEW g \in Files, g \notin {req[r].file, req[r].current}
      PROVE  row'[g] = row[g]
  BY <1>6 DEF SetPicture
<1> QED
  BY <1>1, <1>2, <1>3, <1>4, <1>5, <1>6

(* A statement that marks rows deleting reaches unattached ones only, and     *)
(* the picture an account gives up.                                         *)
LEMMA Erased ==
    ASSUME IInv, NEW r \in Requests, Erase(r)
    PROVE  /\ Leaves(r)
           /\ UNCHANGED <<object, cleaner, failures>>
           /\ picture'[req[r].user] = NoFile
           /\ \A v \in Users \ {req[r].user} : picture'[v] = picture[v]
           /\ \A g \in Files :
                \/ row'[g] = row[g] /\ g # req[r].current
                \/ /\ row[g].status \in Unattached \/ (g = req[r].current /\ row[g].status = "ATTACHED")
                   /\ row'[g].status = "DELETING" /\ row'[g].attached = row[g].attached /\ row'[g].by = row[g].by
<1>1. Leaves(r) /\ UNCHANGED <<object, cleaner, failures>>
  BY DEF Erase, Leaves, Answer, Unlock, IInv, TypeOK, LockInv, Idle
<1>2. /\ picture'[req[r].user] = NoFile
      /\ \A v \in Users \ {req[r].user} : picture'[v] = picture[v]
  BY <1>1 DEF Erase, Leaves, IInv, TypeOK
<1>3. ASSUME NEW g \in Files
      PROVE  \/ row'[g] = row[g] /\ g # req[r].current
             \/ /\ row[g].status \in Unattached \/ (g = req[r].current /\ row[g].status = "ATTACHED")
                /\ row'[g].status = "DELETING" /\ row'[g].attached = row[g].attached /\ row'[g].by = row[g].by
  <2>1. row[g] \in Row /\ g # NoFile
    BY FilesAssumption DEF IInv, TypeOK
  <2>2. row'[g] = IF g \in Released(r) THEN Deleting(g) ELSE row[g]
    BY DEF Erase
  <2>3. g = req[r].current => row[g].status = "ATTACHED"
    BY <1>1, <2>1 DEF Leaves, IInv, PictureInv
  <2>4. Deleting(g).status = "DELETING" /\ Deleting(g).attached = row[g].attached
        /\ Deleting(g).by = row[g].by
    BY <2>1 DEF Deleting, Row
  <2> QED
    BY <2>2, <2>3, <2>4 DEF Released
<1> QED
  BY <1>1, <1>2, <1>3

LEMMA Claimed ==
    ASSUME IInv, NEW c \in Cleaners, ClaimUnused(c)
    PROVE  /\ UNCHANGED <<object, picture, account, userLock, req, failures>>
           /\ cleaner'[c].pc = "list" /\ cleaner'[c].batch = cleaner[c].batch
           /\ \A d \in Cleaners \ {c} : cleaner'[d] = cleaner[d]
           /\ \A g \in Files :
                \/ row'[g] = row[g]
                \/ /\ row[g].status \in Unattached
                   /\ row'[g].status = "DELETING" /\ row'[g].attached = row[g].attached /\ row'[g].by = row[g].by
<1>1. cleaner[c] \in Cleaner /\ cleaner' = [cleaner EXCEPT ![c] = [cleaner[c] EXCEPT !.pc = "list"]]
  BY DEF ClaimUnused, IInv, TypeOK
<1>2. /\ cleaner'[c].pc = "list" /\ cleaner'[c].batch = cleaner[c].batch
      /\ \A d \in Cleaners \ {c} : cleaner'[d] = cleaner[d]
  BY <1>1 DEF IInv, TypeOK, Cleaner
<1>3. ASSUME NEW g \in Files
      PROVE  \/ row'[g] = row[g]
             \/ /\ row[g].status \in Unattached
                /\ row'[g].status = "DELETING" /\ row'[g].attached = row[g].attached /\ row'[g].by = row[g].by
  <2>1. row[g] \in Row
    BY DEF IInv, TypeOK
  <2>2. row'[g] = IF g \in Reclaimed THEN Deleting(g) ELSE row[g]
    BY DEF ClaimUnused
  <2>3. Deleting(g).status = "DELETING" /\ Deleting(g).attached = row[g].attached
        /\ Deleting(g).by = row[g].by
    BY <2>1 DEF Deleting, Row
  <2> QED
    BY <2>2, <2>3 DEF Reclaimed, Unattached
<1> QED
  BY <1>2, <1>3 DEF ClaimUnused

(* A request begins with its user, and nothing else changes. *)
LEMMA Begun ==
    ASSUME IInv, NEW r \in Requests, Begin(r)
    PROVE  /\ req[r].pc = "idle" /\ req'[r].pc \in {"insert", "lock"} /\ req'[r].user \in Users
           /\ \A s \in Requests \ {r} : req'[s] = req[s]
           /\ UNCHANGED <<row, object, picture, account, userLock, cleaner, failures>>
<1>1. PICK q \in Request : /\ req' = [req EXCEPT ![r] = q]
                           /\ q.pc \in {"insert", "lock"} /\ q.user \in Users
  <2>1. ASSUME NEW u \in Users, BeginUpload(r, u)
        PROVE  \E q \in Request : /\ req' = [req EXCEPT ![r] = q]
                                  /\ q.pc \in {"insert", "lock"} /\ q.user \in Users
    BY <2>1, RequestWrites DEF BeginUpload, Idle
  <2>2. ASSUME NEW u \in Users, NEW op \in Operations, NEW f \in Files \cup {NoFile},
               BeginLocked(r, op, u, f)
        PROVE  \E q \in Request : /\ req' = [req EXCEPT ![r] = q]
                                  /\ q.pc \in {"insert", "lock"} /\ q.user \in Users
    <3>1. op \in AllOperations
      BY FilesAssumption
    <3>2. [Idle EXCEPT !.pc = "lock", !.op = op, !.user = u, !.file = f] \in Request
      BY <3>1, RequestWrites
    <3>3. /\ [Idle EXCEPT !.pc = "lock", !.op = op, !.user = u, !.file = f].pc = "lock"
          /\ [Idle EXCEPT !.pc = "lock", !.op = op, !.user = u, !.file = f].user = u
      BY DEF Idle
    <3> QED
      BY <2>2, <3>2, <3>3 DEF BeginLocked
  <2> QED
    BY <2>1, <2>2 DEF Begin
<1> QED
  BY <1>1 DEF Begin, BeginUpload, BeginLocked, IInv, TypeOK

(* An account's lock goes with the request that works on the account.        *)
LEMMA LockKept ==
    ASSUME IInv, Next
    PROVE  LockInv'
<1> USE DEF IInv, TypeOK, LockInv
<1>1. ASSUME NEW r \in Requests, Begin(r)
      PROVE  LockInv'
  BY <1>1, FilesAssumption, Begun DEF Leaves, Settled, Uploading, Unattached,
     UploadInv, LockInv
<1>2. ASSUME NEW r \in Requests, InsertRow(r)
      PROVE  LockInv'
  BY <1>2, FilesAssumption, Inserted DEF Leaves, Settled, Uploading,
     Unattached, UploadInv, LockInv
<1>3. ASSUME NEW r \in Requests, ProcessFails(r)
      PROVE  LockInv'
  BY <1>3, FilesAssumption DEF ProcessFails, Goto, Settled, Uploading,
     Request, Idle
<1>4. ASSUME NEW r \in Requests, PutObject(r)
      PROVE  LockInv'
  BY <1>4, FilesAssumption DEF PutObject, Goto, Settled, Uploading, Request,
     Idle
<1>5. ASSUME NEW r \in Requests, PutFails(r)
      PROVE  LockInv'
  BY <1>5, FilesAssumption DEF PutFails, Goto, Settled, Uploading, Request,
     Idle
<1>6. ASSUME NEW r \in Requests, ReleaseFailedUpload(r)
      PROVE  LockInv'
  BY <1>6, FilesAssumption DEF ReleaseFailedUpload, Answer, Deleting, Settled,
     Uploading, Request, Idle
<1>7. ASSUME NEW r \in Requests, Finish(r)
      PROVE  LockInv'
  BY <1>7, FilesAssumption DEF Finish, Answer, StillProcessing, Settled,
     Uploading, Request, Idle
<1>8. ASSUME NEW r \in Requests, FinishLost(r)
      PROVE  LockInv'
  BY <1>8, FilesAssumption DEF FinishLost, Goto, StillProcessing, Settled,
     Uploading, Request, Idle
<1>9. ASSUME NEW r \in Requests, Undo(r)
      PROVE  LockInv'
  BY <1>9, FilesAssumption DEF Undo, Answer, Settled, Uploading, Request, Idle
<1>10. ASSUME NEW r \in Requests, UndoFails(r)
      PROVE  LockInv'
  BY <1>10, FilesAssumption DEF UndoFails, Answer, Settled, Uploading,
     Request, Idle
<1>11. ASSUME NEW r \in Requests, LockUser(r)
      PROVE  LockInv'
  BY <1>11, FilesAssumption DEF LockUser, Settled, Uploading, Request, Idle
<1>12. ASSUME NEW r \in Requests, LockUserRefused(r)
      PROVE  LockInv'
  BY <1>12, FilesAssumption DEF LockUserRefused, Answer, Settled, Uploading,
     Request, Idle
<1>13. ASSUME NEW r \in Requests, SetPicture(r)
      PROVE  LockInv'
  BY <1>13, FilesAssumption, PictureSet DEF Leaves, Settled, Uploading,
     Unattached, UploadInv, LockInv
<1>14. ASSUME NEW r \in Requests, SetPictureNothing(r)
      PROVE  LockInv'
  BY <1>14, FilesAssumption DEF SetPictureNothing, Answer, Unlock, Settled,
     Uploading, Request, Idle
<1>15. ASSUME NEW r \in Requests, Erase(r)
      PROVE  LockInv'
  BY <1>15, FilesAssumption, Erased DEF Leaves, Settled, Uploading,
     Unattached, UploadInv, LockInv
<1>16. ASSUME NEW r \in Requests, DeleteAccount(r)
      PROVE  LockInv'
  BY <1>16, FilesAssumption DEF DeleteAccount, Answer, Unlock, Settled,
     Uploading, Request, Idle
<1>17. ASSUME NEW r \in Requests, CrashRequest(r)
      PROVE  LockInv'
  BY <1>17, FilesAssumption DEF CrashRequest, Answer, Unlock, Settled,
     Uploading, Request, Idle
<1>18. ASSUME NEW c \in Cleaners,
             ClaimUnused(c) \/ ListBatch(c) \/ DeleteObject(c) \/
                DeleteObjectFails(c) \/ DeleteRow(c) \/ RecordFailedDelete(c)
                \/ StopCleaning(c) \/ CrashCleaner(c)
      PROVE  LockInv'
  BY <1>18 DEF ClaimUnused, ListBatch, DeleteObject, DeleteObjectFails,
     DeleteRow, RecordFailedDelete, StopCleaning, CrashCleaner
<1>19. ASSUME NEW f \in Files,
             (\E u \in Users : ReleaseUnattached(u, f)) \/ Grow(f) \/ Expire(f)
      PROVE  LockInv'
  BY <1>19 DEF ReleaseUnattached, Grow, Expire
<1> QED
  BY <1>1, <1>2, <1>3, <1>4, <1>5, <1>6, <1>7, <1>8, <1>9, <1>10, <1>11,
     <1>12, <1>13, <1>14, <1>15, <1>16, <1>17, <1>18, <1>19 DEF Next, Proceed,
     Clean

(* No step gives an upload's file to another one or revives its row.        *)
LEMMA UploadKept ==
    ASSUME IInv, Next
    PROVE  UploadInv'
<1> USE DEF IInv, TypeOK, UploadInv
<1>1. ASSUME NEW r \in Requests, Begin(r)
      PROVE  UploadInv'
  BY <1>1, FilesAssumption, Begun DEF Leaves, Settled, Uploading, Unattached,
     UploadInv, LockInv
<1>2. ASSUME NEW r \in Requests, InsertRow(r)
      PROVE  UploadInv'
  <2>1. PICK f \in Files :
          /\ row[f].status = "NONE" /\ row'[f].status = "PROCESSING"
          /\ \A g \in Files \ {f} : row'[g] = row[g]
          /\ req[r].pc = "insert" /\ req'[r].pc = "put" /\ req'[r].file = f
          /\ \A s \in Requests \ {r} : req'[s] = req[s]
    BY <1>2, Inserted
  <2>2. \A s \in Requests : Uploading(req[s]) => req[s].file # f
    BY <2>1 DEF Settled
  <2> QED
    BY <2>1, <2>2 DEF Settled, Uploading
<1>3. ASSUME NEW r \in Requests, ProcessFails(r)
      PROVE  UploadInv'
  BY <1>3, FilesAssumption DEF ProcessFails, Goto, Settled, Uploading,
     Request, Idle, Row, NoRow, LockInv
<1>4. ASSUME NEW r \in Requests, PutObject(r)
      PROVE  UploadInv'
  BY <1>4, FilesAssumption DEF PutObject, Goto, Settled, Uploading, Request,
     Idle, Row, NoRow, LockInv
<1>5. ASSUME NEW r \in Requests, PutFails(r)
      PROVE  UploadInv'
  BY <1>5, FilesAssumption DEF PutFails, Goto, Settled, Uploading, Request,
     Idle, Row, NoRow, LockInv
<1>6. ASSUME NEW r \in Requests, ReleaseFailedUpload(r)
      PROVE  UploadInv'
  BY <1>6, FilesAssumption DEF ReleaseFailedUpload, Answer, Deleting, Settled,
     Uploading, Request, Idle, Row, NoRow, LockInv
<1>7. ASSUME NEW r \in Requests, Finish(r)
      PROVE  UploadInv'
  BY <1>7, FilesAssumption DEF Finish, Answer, StillProcessing, Settled,
     Uploading, Request, Idle, Row, NoRow, LockInv
<1>8. ASSUME NEW r \in Requests, FinishLost(r)
      PROVE  UploadInv'
  BY <1>8, FilesAssumption DEF FinishLost, Goto, StillProcessing, Settled,
     Uploading, Request, Idle, Row, NoRow, LockInv
<1>9. ASSUME NEW r \in Requests, Undo(r)
      PROVE  UploadInv'
  BY <1>9, FilesAssumption DEF Undo, Answer, Settled, Uploading, Request,
     Idle, Row, NoRow, LockInv
<1>10. ASSUME NEW r \in Requests, UndoFails(r)
      PROVE  UploadInv'
  BY <1>10, FilesAssumption DEF UndoFails, Answer, Settled, Uploading,
     Request, Idle, Row, NoRow, LockInv
<1>11. ASSUME NEW r \in Requests, LockUser(r)
      PROVE  UploadInv'
  BY <1>11, FilesAssumption DEF LockUser, Settled, Uploading, Request, Idle,
     Row, NoRow, LockInv
<1>12. ASSUME NEW r \in Requests, LockUserRefused(r)
      PROVE  UploadInv'
  BY <1>12, FilesAssumption DEF LockUserRefused, Answer, Settled, Uploading,
     Request, Idle, Row, NoRow, LockInv
<1>13. ASSUME NEW r \in Requests, SetPicture(r)
      PROVE  UploadInv'
  BY <1>13, FilesAssumption, PictureSet DEF Leaves, Settled, Uploading,
     Unattached, UploadInv, LockInv
<1>14. ASSUME NEW r \in Requests, SetPictureNothing(r)
      PROVE  UploadInv'
  BY <1>14, FilesAssumption DEF SetPictureNothing, Answer, Unlock, Settled,
     Uploading, Request, Idle, Row, NoRow, LockInv
<1>15. ASSUME NEW r \in Requests, Erase(r)
      PROVE  UploadInv'
  <2>1. \A g \in Files : \/ row'[g].status = row[g].status
                        \/ row'[g].status = "DELETING"
    BY <1>15, Erased
  <2>2. req'[r].pc = "idle" /\ \A s \in Requests \ {r} : req'[s] = req[s]
    BY <1>15, Erased DEF Leaves
  <2> QED
    BY <2>1, <2>2 DEF Settled, Uploading
<1>16. ASSUME NEW r \in Requests, DeleteAccount(r)
      PROVE  UploadInv'
  BY <1>16, FilesAssumption DEF DeleteAccount, Answer, Unlock, Settled,
     Uploading, Request, Idle, Row, NoRow, LockInv
<1>17. ASSUME NEW r \in Requests, CrashRequest(r)
      PROVE  UploadInv'
  BY <1>17, FilesAssumption DEF CrashRequest, Answer, Unlock, Settled,
     Uploading, Request, Idle, Row, NoRow, LockInv
<1>18. ASSUME NEW c \in Cleaners, ClaimUnused(c)
      PROVE  UploadInv'
  BY <1>18, FilesAssumption, Claimed DEF Leaves, Settled, Uploading,
     Unattached, UploadInv, LockInv
<1>19. ASSUME NEW c \in Cleaners, DeleteRow(c)
      PROVE  UploadInv'
  BY <1>19, FilesAssumption DEF DeleteRow, NextFile, Settled, Uploading,
     Request, Idle, Row, NoRow, LockInv
<1>20. ASSUME NEW c \in Cleaners, RecordFailedDelete(c)
      PROVE  UploadInv'
  BY <1>20, FilesAssumption DEF RecordFailedDelete, NextFile, Attempted,
     Settled, Uploading, Request, Idle, Row, NoRow, LockInv
<1>21. ASSUME NEW u \in Users, NEW f \in Files, ReleaseUnattached(u, f)
      PROVE  UploadInv'
  BY <1>21, FilesAssumption DEF ReleaseUnattached, Deleting, Settled,
     Uploading, Request, Idle, Row, NoRow, LockInv
<1>22. ASSUME NEW f \in Files, Grow(f)
      PROVE  UploadInv'
  BY <1>22, FilesAssumption DEF Grow, Settled, Uploading, Request, Idle, Row,
     NoRow, LockInv
<1>23. ASSUME NEW f \in Files, Expire(f)
      PROVE  UploadInv'
  BY <1>23, FilesAssumption DEF Expire, Settled, Uploading, Request, Idle,
     Row, NoRow, LockInv
<1>24. ASSUME NEW c \in Cleaners,
             ListBatch(c) \/ DeleteObject(c) \/ DeleteObjectFails(c) \/
                StopCleaning(c) \/ CrashCleaner(c)
      PROVE  UploadInv'
  BY <1>24 DEF Settled, ListBatch, DeleteObject, DeleteObjectFails,
     StopCleaning, CrashCleaner
<1> QED
  BY <1>1, <1>2, <1>3, <1>4, <1>5, <1>6, <1>7, <1>8, <1>9, <1>10, <1>11,
     <1>12, <1>13, <1>14, <1>15, <1>16, <1>17, <1>18, <1>19, <1>20, <1>21,
     <1>22, <1>23, <1>24 DEF Next, Proceed, Clean

(* No step takes the bytes of a file that is in use.                        *)
LEMMA BytesKept ==
    ASSUME IInv, Next
    PROVE  BytesInv'
<1> USE DEF IInv, TypeOK, BytesInv
<1>1. ASSUME NEW r \in Requests, Begin(r)
      PROVE  BytesInv'
  BY <1>1, FilesAssumption, Begun DEF Leaves, Settled, Uploading, Unattached,
     UploadInv, LockInv
<1>2. ASSUME NEW r \in Requests, InsertRow(r)
      PROVE  BytesInv'
  BY <1>2, FilesAssumption, Inserted DEF Leaves, Settled, Uploading,
     Unattached, UploadInv, LockInv
<1>3. ASSUME NEW r \in Requests, ProcessFails(r)
      PROVE  BytesInv'
  BY <1>3, FilesAssumption DEF ProcessFails, Goto, Settled, Uploading,
     Request, Idle, Row, NoRow, UploadInv, CleanInv
<1>4. ASSUME NEW r \in Requests, PutObject(r)
      PROVE  BytesInv'
  BY <1>4, FilesAssumption DEF PutObject, Goto, Settled, Uploading, Request,
     Idle, Row, NoRow, UploadInv, CleanInv
<1>5. ASSUME NEW r \in Requests, PutFails(r)
      PROVE  BytesInv'
  BY <1>5, FilesAssumption DEF PutFails, Goto, Settled, Uploading, Request,
     Idle, Row, NoRow, UploadInv, CleanInv
<1>6. ASSUME NEW r \in Requests, ReleaseFailedUpload(r)
      PROVE  BytesInv'
  BY <1>6, FilesAssumption DEF ReleaseFailedUpload, Answer, Deleting, Settled,
     Uploading, Request, Idle, Row, NoRow, UploadInv, CleanInv
<1>7. ASSUME NEW r \in Requests, Finish(r)
      PROVE  BytesInv'
  BY <1>7, FilesAssumption DEF Finish, Answer, StillProcessing, Settled,
     Uploading, Request, Idle, Row, NoRow, UploadInv, CleanInv
<1>8. ASSUME NEW r \in Requests, FinishLost(r)
      PROVE  BytesInv'
  BY <1>8, FilesAssumption DEF FinishLost, Goto, StillProcessing, Settled,
     Uploading, Request, Idle, Row, NoRow, UploadInv, CleanInv
<1>9. ASSUME NEW r \in Requests, Undo(r)
      PROVE  BytesInv'
  BY <1>9, FilesAssumption DEF Undo, Answer, Settled, Uploading, Request,
     Idle, Row, NoRow, UploadInv, CleanInv
<1>10. ASSUME NEW r \in Requests, UndoFails(r)
      PROVE  BytesInv'
  BY <1>10, FilesAssumption DEF UndoFails, Answer, Settled, Uploading,
     Request, Idle, Row, NoRow, UploadInv, CleanInv
<1>11. ASSUME NEW r \in Requests, LockUser(r)
      PROVE  BytesInv'
  BY <1>11, FilesAssumption DEF LockUser, Settled, Uploading, Request, Idle,
     Row, NoRow, UploadInv, CleanInv
<1>12. ASSUME NEW r \in Requests, LockUserRefused(r)
      PROVE  BytesInv'
  BY <1>12, FilesAssumption DEF LockUserRefused, Answer, Settled, Uploading,
     Request, Idle, Row, NoRow, UploadInv, CleanInv
<1>13. ASSUME NEW r \in Requests, SetPicture(r)
      PROVE  BytesInv'
  BY <1>13, FilesAssumption, PictureSet DEF Leaves, Settled, Uploading,
     Unattached, UploadInv, LockInv
<1>14. ASSUME NEW r \in Requests, SetPictureNothing(r)
      PROVE  BytesInv'
  BY <1>14, FilesAssumption DEF SetPictureNothing, Answer, Unlock, Settled,
     Uploading, Request, Idle, Row, NoRow, UploadInv, CleanInv
<1>15. ASSUME NEW r \in Requests, Erase(r)
      PROVE  BytesInv'
  BY <1>15, FilesAssumption, Erased DEF Leaves, Settled, Uploading,
     Unattached, UploadInv, LockInv
<1>16. ASSUME NEW r \in Requests, DeleteAccount(r)
      PROVE  BytesInv'
  BY <1>16, FilesAssumption DEF DeleteAccount, Answer, Unlock, Settled,
     Uploading, Request, Idle, Row, NoRow, UploadInv, CleanInv
<1>17. ASSUME NEW r \in Requests, CrashRequest(r)
      PROVE  BytesInv'
  BY <1>17, FilesAssumption DEF CrashRequest, Answer, Unlock, Settled,
     Uploading, Request, Idle, Row, NoRow, UploadInv, CleanInv
<1>18. ASSUME NEW c \in Cleaners, ClaimUnused(c)
      PROVE  BytesInv'
  BY <1>18, FilesAssumption, Claimed DEF Leaves, Settled, Uploading,
     Unattached, UploadInv, LockInv
<1>19. ASSUME NEW c \in Cleaners, DeleteObject(c)
      PROVE  BytesInv'
  BY <1>19, FilesAssumption DEF DeleteObject, Settled, Uploading, Request,
     Idle, Row, NoRow, UploadInv, CleanInv
<1>20. ASSUME NEW c \in Cleaners, DeleteRow(c)
      PROVE  BytesInv'
  BY <1>20, FilesAssumption DEF DeleteRow, NextFile, Settled, Uploading,
     Request, Idle, Row, NoRow, UploadInv, CleanInv
<1>21. ASSUME NEW c \in Cleaners, RecordFailedDelete(c)
      PROVE  BytesInv'
  BY <1>21, FilesAssumption DEF RecordFailedDelete, NextFile, Attempted,
     Settled, Uploading, Request, Idle, Row, NoRow, UploadInv, CleanInv
<1>22. ASSUME NEW u \in Users, NEW f \in Files, ReleaseUnattached(u, f)
      PROVE  BytesInv'
  BY <1>22, FilesAssumption DEF ReleaseUnattached, Deleting, Settled,
     Uploading, Request, Idle, Row, NoRow, UploadInv, CleanInv
<1>23. ASSUME NEW f \in Files, Grow(f)
      PROVE  BytesInv'
  BY <1>23, FilesAssumption DEF Grow, Settled, Uploading, Request, Idle, Row,
     NoRow, UploadInv, CleanInv
<1>24. ASSUME NEW f \in Files, Expire(f)
      PROVE  BytesInv'
  BY <1>24, FilesAssumption DEF Expire, Settled, Uploading, Request, Idle,
     Row, NoRow, UploadInv, CleanInv
<1>25. ASSUME NEW c \in Cleaners,
             ListBatch(c) \/ DeleteObjectFails(c) \/ StopCleaning(c) \/
                CrashCleaner(c)
      PROVE  BytesInv'
  BY <1>25 DEF ListBatch, DeleteObjectFails, StopCleaning, CrashCleaner
<1> QED
  BY <1>1, <1>2, <1>3, <1>4, <1>5, <1>6, <1>7, <1>8, <1>9, <1>10, <1>11,
     <1>12, <1>13, <1>14, <1>15, <1>16, <1>17, <1>18, <1>19, <1>20, <1>21,
     <1>22, <1>23, <1>24, <1>25 DEF Next, Proceed, Clean

(* What a cleanup job has read stays released.                              *)
LEMMA CleanKept ==
    ASSUME IInv, Next
    PROVE  CleanInv'
<1> USE DEF IInv, TypeOK, CleanInv
<1>1. ASSUME NEW r \in Requests, InsertRow(r)
      PROVE  CleanInv'
  <2>1. \A g \in Files : Settled(g) => row'[g] = row[g]
    BY <1>1, Inserted DEF Settled
  <2>2. cleaner' = cleaner
    BY <1>1, Inserted
  <2>3. \A d \in Cleaners : \A e \in cleaner[d].batch : e.file \in Files
    BY DEF Cleaner, Entry
  <2> QED
    BY <2>1, <2>2, <2>3 DEF Settled
<1>2. ASSUME NEW r \in Requests, ReleaseFailedUpload(r)
      PROVE  CleanInv'
  BY <1>2, FilesAssumption DEF ReleaseFailedUpload, Answer, Deleting, Settled,
     Uploading, Cleaner, Resting, Entry, Row, NoRow, UploadInv
<1>3. ASSUME NEW r \in Requests, Finish(r)
      PROVE  CleanInv'
  <2>1. \A g \in Files : Settled(g) => row'[g] = row[g]
    BY <1>3 DEF Finish, StillProcessing, Settled
  <2>2. cleaner' = cleaner
    BY <1>3 DEF Finish
  <2>3. \A d \in Cleaners : \A e \in cleaner[d].batch : e.file \in Files
    BY DEF Cleaner, Entry
  <2> QED
    BY <2>1, <2>2, <2>3 DEF Settled
<1>4. ASSUME NEW r \in Requests, SetPicture(r)
      PROVE  CleanInv'
  <2>1. \A g \in Files : Settled(g) => row'[g] = row[g]
    BY <1>4, PictureSet DEF Settled
  <2>2. cleaner' = cleaner
    BY <1>4, PictureSet
  <2>3. \A d \in Cleaners : \A e \in cleaner[d].batch : e.file \in Files
    BY DEF Cleaner, Entry
  <2> QED
    BY <2>1, <2>2, <2>3 DEF Settled
<1>5. ASSUME NEW r \in Requests, Erase(r)
      PROVE  CleanInv'
  <2>1. \A g \in Files : Settled(g) => row'[g] = row[g]
    BY <1>5, Erased DEF Settled, Unattached
  <2>2. cleaner' = cleaner
    BY <1>5, Erased
  <2>3. \A d \in Cleaners : \A e \in cleaner[d].batch : e.file \in Files
    BY DEF Cleaner, Entry
  <2> QED
    BY <2>1, <2>2, <2>3 DEF Settled
<1>6. ASSUME NEW c \in Cleaners, ClaimUnused(c)
      PROVE  CleanInv'
  <2>1. \A g \in Files : Settled(g) => row'[g] = row[g]
    BY <1>6, Claimed DEF Settled, Unattached
  <2>2. /\ cleaner'[c].pc = "list" /\ cleaner'[c].batch = cleaner[c].batch
        /\ \A d \in Cleaners \ {c} : cleaner'[d] = cleaner[d]
    BY <1>6, Claimed
  <2>3. \A d \in Cleaners : \A e \in cleaner[d].batch : e.file \in Files
    BY DEF Cleaner, Entry
  <2> QED
    BY <2>1, <2>2, <2>3 DEF Settled
<1>7. ASSUME NEW c \in Cleaners, ListBatch(c)
      PROVE  CleanInv'
  BY <1>7, FilesAssumption DEF ListBatch, Batches, ToDelete, Settled,
     Uploading, Cleaner, Resting, Entry, Row, NoRow, UploadInv
<1>8. ASSUME NEW c \in Cleaners, DeleteObject(c)
      PROVE  CleanInv'
  BY <1>8, FilesAssumption DEF DeleteObject, Settled, Uploading, Cleaner,
     Resting, Entry, Row, NoRow, UploadInv
<1>9. ASSUME NEW c \in Cleaners, DeleteObjectFails(c)
      PROVE  CleanInv'
  BY <1>9, FilesAssumption DEF DeleteObjectFails, Settled, Uploading, Cleaner,
     Resting, Entry, Row, NoRow, UploadInv
<1>10. ASSUME NEW c \in Cleaners, DeleteRow(c)
      PROVE  CleanInv'
  BY <1>10, FilesAssumption DEF DeleteRow, NextFile, Settled, Uploading,
     Cleaner, Resting, Entry, Row, NoRow, UploadInv
<1>11. ASSUME NEW c \in Cleaners, RecordFailedDelete(c)
      PROVE  CleanInv'
  BY <1>11, FilesAssumption DEF RecordFailedDelete, NextFile, Attempted,
     Settled, Uploading, Cleaner, Resting, Entry, Row, NoRow, UploadInv
<1>12. ASSUME NEW c \in Cleaners, StopCleaning(c)
      PROVE  CleanInv'
  BY <1>12, FilesAssumption DEF StopCleaning, Settled, Uploading, Cleaner,
     Resting, Entry, Row, NoRow, UploadInv
<1>13. ASSUME NEW c \in Cleaners, CrashCleaner(c)
      PROVE  CleanInv'
  BY <1>13, FilesAssumption DEF CrashCleaner, Settled, Uploading, Cleaner,
     Resting, Entry, Row, NoRow, UploadInv
<1>14. ASSUME NEW u \in Users, NEW f \in Files, ReleaseUnattached(u, f)
      PROVE  CleanInv'
  BY <1>14, FilesAssumption DEF ReleaseUnattached, Deleting, Settled,
     Uploading, Cleaner, Resting, Entry, Row, NoRow, UploadInv
<1>15. ASSUME NEW f \in Files, Grow(f)
      PROVE  CleanInv'
  BY <1>15, FilesAssumption DEF Grow, Settled, Uploading, Cleaner, Resting,
     Entry, Row, NoRow, UploadInv
<1>16. ASSUME NEW f \in Files, Expire(f)
      PROVE  CleanInv'
  BY <1>16, FilesAssumption DEF Expire, Settled, Uploading, Cleaner, Resting,
     Entry, Row, NoRow, UploadInv
<1>17. ASSUME NEW r \in Requests,
             Begin(r) \/ ProcessFails(r) \/ PutObject(r) \/ PutFails(r) \/
                FinishLost(r) \/ Undo(r) \/ UndoFails(r) \/ LockUser(r) \/
                LockUserRefused(r) \/ SetPictureNothing(r) \/ DeleteAccount(r)
                \/ CrashRequest(r)
      PROVE  CleanInv'
  BY <1>17 DEF Settled, Begin, BeginUpload, BeginLocked, ProcessFails,
     PutObject, PutFails, FinishLost, Undo, UndoFails, LockUser,
     LockUserRefused, SetPictureNothing, DeleteAccount, CrashRequest
<1> QED
  BY <1>1, <1>2, <1>3, <1>4, <1>5, <1>6, <1>7, <1>8, <1>9, <1>10, <1>11,
     <1>12, <1>13, <1>14, <1>15, <1>16, <1>17 DEF Next, Proceed, Clean

(* The picture of an account and the row it refers to change together.       *)
LEMMA PictureKept ==
    ASSUME IInv, Next
    PROVE  PictureInv'
<1> USE DEF IInv, TypeOK, PictureInv
<1>1. ASSUME NEW r \in Requests, InsertRow(r)
      PROVE  PictureInv'
  BY <1>1, FilesAssumption, Inserted DEF Leaves, Settled, Uploading,
     Unattached, UploadInv, LockInv
<1>2. ASSUME NEW r \in Requests, ReleaseFailedUpload(r)
      PROVE  PictureInv'
  BY <1>2, FilesAssumption DEF ReleaseFailedUpload, Answer, Deleting, Settled,
     Uploading, Row, NoRow, UploadInv
<1>3. ASSUME NEW r \in Requests, Finish(r)
      PROVE  PictureInv'
  BY <1>3, FilesAssumption DEF Finish, Answer, StillProcessing, Settled,
     Uploading, Row, NoRow, UploadInv
<1>4. ASSUME NEW r \in Requests, SetPicture(r)
      PROVE  PictureInv'
  <2> DEFINE u == req[r].user
  <2>1. /\ u \in Users /\ picture[u] = req[r].current
        /\ picture'[u] = req[r].file /\ req[r].file # req[r].current
        /\ \A v \in Users \ {u} : picture'[v] = picture[v]
    BY <1>4, PictureSet DEF Leaves
  <2>2. \A g \in Files :
          /\ g = req[r].file => row[g].status = "READY" /\ row'[g].status = "ATTACHED"
                                  /\ row'[g].attached
          /\ g = req[r].current => row'[g].status = "DELETING"
          /\ g \notin {req[r].file, req[r].current} => row'[g] = row[g]
    BY <1>4, PictureSet
  <2>3. \A v \in Users : picture[v] \in Files \cup {NoFile} /\ NoFile \notin Files
    BY FilesAssumption
  <2>4. \A v \in Users : picture[v] # NoFile => picture[v] # req[r].file
    BY <2>2, <2>3
  <2>5. req[r].file \in Files \cup {NoFile}
    BY <1>4, PictureSet
  <2>6. \A v \in Users : picture'[v] # NoFile => row'[picture'[v]].status = "ATTACHED"
    BY <2>1, <2>2, <2>3, <2>4, <2>5
  <2>7. \A g \in Files : row'[g].status = "ATTACHED" =>
            row'[g].attached /\ \E v \in Users : picture'[v] = g
    BY <2>1, <2>2, <2>3
  <2>8. \A v, w \in Users : picture'[v] = picture'[w] /\ picture'[v] # NoFile => v = w
    BY <2>1, <2>4
  <2> QED
    BY <2>6, <2>7, <2>8
<1>5. ASSUME NEW r \in Requests, Erase(r)
      PROVE  PictureInv'
  BY <1>5, FilesAssumption, Erased DEF Leaves, Settled, Uploading, Unattached,
     UploadInv, LockInv
<1>6. ASSUME NEW c \in Cleaners, ClaimUnused(c)
      PROVE  PictureInv'
  BY <1>6, FilesAssumption, Claimed DEF Leaves, Settled, Uploading,
     Unattached, UploadInv, LockInv
<1>7. ASSUME NEW c \in Cleaners, DeleteRow(c)
      PROVE  PictureInv'
  BY <1>7, FilesAssumption DEF DeleteRow, NextFile, Settled, Uploading, Row,
     NoRow, UploadInv
<1>8. ASSUME NEW c \in Cleaners, RecordFailedDelete(c)
      PROVE  PictureInv'
  BY <1>8, FilesAssumption DEF RecordFailedDelete, NextFile, Attempted,
     Settled, Uploading, Row, NoRow, UploadInv
<1>9. ASSUME NEW u \in Users, NEW f \in Files, ReleaseUnattached(u, f)
      PROVE  PictureInv'
  BY <1>9, FilesAssumption DEF ReleaseUnattached, Deleting, Settled,
     Uploading, Row, NoRow, UploadInv
<1>10. ASSUME NEW f \in Files, Grow(f)
      PROVE  PictureInv'
  BY <1>10, FilesAssumption DEF Grow, Settled, Uploading, Row, NoRow,
     UploadInv
<1>11. ASSUME NEW f \in Files, Expire(f)
      PROVE  PictureInv'
  BY <1>11, FilesAssumption DEF Expire, Settled, Uploading, Row, NoRow,
     UploadInv
<1>12. ASSUME NEW r \in Requests,
             Begin(r) \/ ProcessFails(r) \/ PutObject(r) \/ PutFails(r) \/
                FinishLost(r) \/ Undo(r) \/ UndoFails(r) \/ LockUser(r) \/
                LockUserRefused(r) \/ SetPictureNothing(r) \/ DeleteAccount(r)
                \/ CrashRequest(r)
      PROVE  PictureInv'
  BY <1>12 DEF Begin, BeginUpload, BeginLocked, ProcessFails, PutObject,
     PutFails, FinishLost, Undo, UndoFails, LockUser, LockUserRefused,
     SetPictureNothing, DeleteAccount, CrashRequest
<1>13. ASSUME NEW c \in Cleaners,
             ListBatch(c) \/ DeleteObject(c) \/ DeleteObjectFails(c) \/
                StopCleaning(c) \/ CrashCleaner(c)
      PROVE  PictureInv'
  BY <1>13 DEF ListBatch, DeleteObject, DeleteObjectFails, StopCleaning,
     CrashCleaner
<1> QED
  BY <1>1, <1>2, <1>3, <1>4, <1>5, <1>6, <1>7, <1>8, <1>9, <1>10, <1>11,
     <1>12, <1>13 DEF Next, Proceed, Clean

(* What a step does to a row that exists. *)
Moves(f) ==
    /\ row'[f].by = row[f].by
    /\ \/ /\ row'[f].status = row[f].status /\ row'[f].sized = row[f].sized
          /\ row'[f].attached = row[f].attached /\ row'[f].age >= row[f].age
       \/ row[f].status = "PROCESSING" /\ row'[f].status = "READY"
       \/ row[f].status \in Unattached /\ row'[f].status = "DELETING"
       \/ row[f].status = "READY" /\ row'[f].status = "ATTACHED"
       \/ row[f].status = "ATTACHED" /\ row'[f].status = "DELETING" /\ row'[f].attached
       \/ row[f].status = "DELETING" /\ row'[f].status = "GONE"

LEMMA RowMoves ==
    ASSUME IInv, Next, NEW f \in Files, row[f].status # "NONE"
    PROVE  Moves(f)
<1>1. /\ row[f] \in Row /\ row[f].age \in Nat
      /\ row[f].status = "ATTACHED" => row[f].attached
  BY DEF IInv, TypeOK, Row, PictureInv
<1>2. CASE row'[f] = row[f]
  BY <1>1, <1>2 DEF Moves
<1>3. CASE row'[f] = Deleting(f) /\ row[f].status \in Unattached
  BY <1>1, <1>3 DEF Moves, Deleting, Row
<1>4. ASSUME NEW r \in Requests, InsertRow(r) \/ SetPicture(r) \/ Erase(r)
      PROVE  Moves(f)
  <2>1. CASE InsertRow(r)
    BY <1>2, <2>1, Inserted
  <2>2. CASE SetPicture(r)
    BY <1>1, <1>2, <2>2, PictureSet DEF Moves
  <2>3. CASE Erase(r)
    BY <1>1, <1>2, <2>3, Erased DEF Moves
  <2> QED
    BY <1>4, <2>1, <2>2, <2>3
<1>5. ASSUME NEW r \in Requests, ReleaseFailedUpload(r)
      PROVE  Moves(f)
  BY <1>2, <1>3, <1>5 DEF ReleaseFailedUpload, IInv, TypeOK, Unattached
<1>6. ASSUME NEW r \in Requests, Finish(r)
      PROVE  Moves(f)
  <2>1. CASE req[r].file = f
    <3>1. row'[f] = [row[f] EXCEPT !.status = "READY", !.sized = TRUE]
      BY <1>6, <2>1 DEF Finish, IInv, TypeOK
    <3>2. row'[f].status = "READY" /\ row'[f].by = row[f].by
      BY <1>1, <3>1 DEF Row
    <3> QED
      BY <1>6, <2>1, <3>2 DEF Finish, StillProcessing, Moves
  <2>2. CASE req[r].file # f
    BY <1>2, <1>6, <2>2 DEF Finish, IInv, TypeOK
  <2> QED
    BY <2>1, <2>2
<1>7. ASSUME NEW c \in Cleaners, ClaimUnused(c)
      PROVE  Moves(f)
  BY <1>2, <1>7, Claimed DEF Moves
<1>8. ASSUME NEW c \in Cleaners, DeleteRow(c)
      PROVE  Moves(f)
  <2>1. CASE cleaner[c].file = f /\ row[f].status = "DELETING"
    <3>1. row'[f] = [NoRow EXCEPT !.status = "GONE", !.by = row[f].by]
      BY <1>8, <2>1 DEF DeleteRow, IInv, TypeOK
    <3>2. row'[f].status = "GONE" /\ row'[f].by = row[f].by
      BY <3>1 DEF NoRow
    <3> QED
      BY <2>1, <3>2 DEF Moves
  <2>2. CASE ~(cleaner[c].file = f /\ row[f].status = "DELETING")
    BY <1>2, <1>8, <2>2 DEF DeleteRow, IInv, TypeOK
  <2> QED
    BY <2>1, <2>2
<1>9. ASSUME NEW c \in Cleaners, RecordFailedDelete(c)
      PROVE  Moves(f)
  <2>1. row'[f] = row[f] \/ row'[f] = [row[f] EXCEPT !.attempts = row[f].attempts + 1]
    BY <1>9 DEF RecordFailedDelete, Attempted, IInv, TypeOK
  <2> QED
    BY <1>1, <1>2, <2>1 DEF Moves, Row
<1>10. ASSUME NEW u \in Users, NEW g \in Files, ReleaseUnattached(u, g)
      PROVE  Moves(f)
  BY <1>2, <1>3, <1>10 DEF ReleaseUnattached, IInv, TypeOK, Unattached
<1>11. ASSUME NEW g \in Files, Grow(g) \/ Expire(g)
      PROVE  Moves(f)
  <2>1. \/ row'[f] = row[f]
        \/ row'[f] = [row[f] EXCEPT !.age = row[f].age + 1]
        \/ row'[f] = [row[f] EXCEPT !.expired = TRUE]
    BY <1>11 DEF Grow, Expire, IInv, TypeOK
  <2> QED
    BY <1>1, <1>2, <2>1 DEF Moves, Row
<1>12. CASE row' = row
  BY <1>2, <1>12
<1> QED
  BY <1>4, <1>5, <1>6, <1>7, <1>8, <1>9, <1>10, <1>11, <1>12
     DEF Next, Begin, BeginUpload, BeginLocked, Proceed, ProcessFails, PutObject, PutFails,
         FinishLost, Undo, UndoFails, LockUser, LockUserRefused, SetPictureNothing,
         DeleteAccount, CrashRequest, Clean, ListBatch, DeleteObject, DeleteObjectFails,
         StopCleaning, CrashCleaner

LEMMA TypesKept ==
    ASSUME IInv, Next
    PROVE  TypeOK'
BY UploadTypes, LockedTypes, OtherTypes, CleanerTypes DEF Next, Proceed

LEMMA Initially ==
    Init => IInv
<1> SUFFICES ASSUME Init
             PROVE  IInv
  OBVIOUS
<1>1. TypeOK
  <2>1. NoRow \in Row /\ Idle \in Request /\ Resting \in Cleaner
    BY RowWrites, RequestWrites, CleanerWrites
  <2>2. 0 \in 0..MaxFailures
    BY FilesAssumption
  <2> QED
    BY <2>1, <2>2 DEF Init, TypeOK
<1>2. LockInv /\ UploadInv /\ BytesInv /\ CleanInv /\ PictureInv
  BY DEF Init, NoRow, Idle, Resting, LockInv, UploadInv, BytesInv, CleanInv, PictureInv,
         Settled, Uploading
<1> QED
  BY <1>1, <1>2 DEF IInv

LEMMA Step ==
    IInv /\ [Next]_vars => IInv'
<1>1. ASSUME IInv, Next
      PROVE  IInv'
  BY <1>1, TypesKept, LockKept, UploadKept, BytesKept, CleanKept, PictureKept DEF IInv
<1>2. ASSUME IInv, UNCHANGED vars
      PROVE  IInv'
  BY <1>2 DEF vars, IInv, TypeOK, LockInv, UploadInv, BytesInv, CleanInv, PictureInv,
              Settled, Uploading
<1> QED
  BY <1>1, <1>2

(* Every reachable state satisfies the inductive invariant. *)
THEOREM Inductive == Spec => []IInv
BY Initially, Step, PTL DEF Spec

(* Variables stay in their types; a request and a cleanup job always hold a   *)
(* file when their next step needs one.                                      *)
THEOREM TypeCorrect == Spec => []TypeOK
<1>1. IInv => TypeOK
  BY DEF IInv
<1> QED
  BY <1>1, Inductive, PTL

(* A picture keeps its row and its bytes, and an attached row its one          *)
(* account: setProfileImage and gdprErase work under the account's lock, the  *)
(* cleanup job deletes rows that are already released only.                   *)
THEOREM PicturesStayServable == Spec => []PictureIsServable
<1>1. IInv => PictureIsServable
  BY FilesAssumption DEF IInv, TypeOK, BytesInv, PictureInv, PictureIsServable
<1> QED
  BY <1>1, Inductive, PTL

(* A released file stays released until it is gone: every statement that        *)
(* writes a status is conditional on the one it replaces.                      *)
THEOREM ReleasedForGood == Spec => ReleaseIsFinal
<1>1. IInv /\ [Next]_vars =>
        [\A f \in Files :
            /\ row[f].status = "DELETING" => row'[f].status \in {"DELETING", "GONE"}
            /\ row[f].status = "GONE" => row'[f].status = "GONE"]_vars
  BY RowMoves DEF Moves, Unattached
<1> QED
  BY <1>1, Inductive, PTL DEF Spec, ReleaseIsFinal

-----------------------------------------------------------------------------
(* The quota *)

Inserting(u) == {r \in Requests : req[r].pc = "insert" /\ req[r].user = u}

QuotaInv ==
    \A u \in Users :
        Cardinality(Counted(u)) + Cardinality(Inserting(u))
            < MaxUnattached + Cardinality(Requests)

LEMMA FiniteCounts ==
    ASSUME NEW u
    PROVE  /\ IsFiniteSet(Counted(u)) /\ IsFiniteSet(Inserting(u))
           /\ Cardinality(Counted(u)) \in Nat /\ Cardinality(Inserting(u)) \in Nat
           /\ Cardinality(Inserting(u)) <= Cardinality(Requests)
           /\ Cardinality(Requests) \in Nat
<1>1. Counted(u) \subseteq Files /\ Inserting(u) \subseteq Requests
  BY DEF Counted, Inserting
<1> QED
  BY <1>1, FilesAssumption, FS_Subset, FS_CardinalityType

(* Only an upload's INSERT makes a row that the quota counts. *)
LEMMA CountedGrows ==
    ASSUME IInv, Next, ~\E r \in Requests : InsertRow(r), NEW u \in Users
    PROVE  Counted(u)' \subseteq Counted(u)
<1>1. ASSUME NEW f \in Files, row[f].status = "NONE"
      PROVE  row'[f].status \notin Unattached \cup {"DELETING"}
  <2>1. CASE row'[f] = row[f]
    BY <1>1, <2>1 DEF Unattached
  <2>2. CASE \E r \in Requests : SetPicture(r) \/ Erase(r)
    BY <1>1, <2>1, <2>2, PictureSet, Erased DEF Unattached
  <2>3. ASSUME NEW r \in Requests, ReleaseFailedUpload(r) \/ Finish(r)
        PROVE  row'[f] = row[f]
    BY <1>1, <2>3 DEF ReleaseFailedUpload, Finish, StillProcessing, IInv, TypeOK
  <2>4. ASSUME NEW c \in Cleaners, ClaimUnused(c)
        PROVE  row'[f] = row[f]
    BY <1>1, <2>4, Claimed DEF Unattached
  <2>5. ASSUME NEW c \in Cleaners, DeleteRow(c) \/ RecordFailedDelete(c)
        PROVE  row'[f] = row[f]
    BY <1>1, <2>5 DEF DeleteRow, RecordFailedDelete, Attempted, IInv, TypeOK
  <2>6. ASSUME NEW v \in Users, NEW g \in Files, ReleaseUnattached(v, g)
        PROVE  row'[f] = row[f]
    BY <1>1, <2>6 DEF ReleaseUnattached, IInv, TypeOK
  <2>7. ASSUME NEW g \in Files, Grow(g) \/ Expire(g)
        PROVE  row'[f] = row[f]
    BY <1>1, <2>7 DEF Grow, Expire, IInv, TypeOK
  <2>8. CASE row' = row
    BY <2>1, <2>8
  <2> QED
    BY <2>1, <2>2, <2>3, <2>4, <2>5, <2>6, <2>7, <2>8
       DEF Next, Begin, BeginUpload, BeginLocked, Proceed, ProcessFails, PutObject, PutFails,
           FinishLost, Undo, UndoFails, LockUser, LockUserRefused, SetPictureNothing,
           DeleteAccount, CrashRequest, Clean, ListBatch, DeleteObject, DeleteObjectFails,
           StopCleaning, CrashCleaner
<1>2. ASSUME NEW f \in Files, row[f].status # "NONE", f \in Counted(u)'
      PROVE  f \in Counted(u)
  <2>1. Moves(f)
    BY <1>2, RowMoves
  <2>2. row[f].age \in Nat /\ row'[f].age \in Nat
    BY TypesKept DEF IInv, TypeOK, Row
  <2> QED
    BY <1>2, <2>1, <2>2 DEF Moves, Counted, Unattached
<1> QED
  BY <1>1, <1>2 DEF Counted

(* Only the check of the quota makes a request that will insert a row. *)
LEMMA InsertingGrows ==
    ASSUME IInv, Next, NEW r \in Requests, req'[r].pc = "insert"
    PROVE  \/ req'[r] = req[r]
           \/ \E u \in Users : BeginUpload(r, u) /\ req'[r].user = u
<1>1. CASE req'[r] = req[r]
  BY <1>1
<1>2. ASSUME NEW s \in Requests, NEW q \in Request, req' = [req EXCEPT ![s] = q], q.pc # "insert"
      PROVE  req'[r] = req[r]
  BY <1>2 DEF IInv, TypeOK
<1>3. ASSUME NEW s \in Requests, Begin(s)
      PROVE  \/ req'[r] = req[r]
             \/ \E u \in Users : BeginUpload(r, u) /\ req'[r].user = u
  <2>1. ASSUME NEW u \in Users, BeginUpload(s, u)
        PROVE  \/ req'[r] = req[r]
               \/ \E v \in Users : BeginUpload(r, v) /\ req'[r].user = v
    BY <2>1 DEF BeginUpload, Idle, IInv, TypeOK
  <2>2. ASSUME NEW u \in Users, NEW op \in Operations, NEW f \in Files \cup {NoFile},
               BeginLocked(s, op, u, f)
        PROVE  req'[r] = req[r]
    BY <2>2 DEF BeginLocked, Idle, IInv, TypeOK
  <2> QED
    BY <1>3, <2>1, <2>2 DEF Begin
<1>4. ASSUME NEW s \in Requests,
             \/ InsertRow(s) \/ SetPicture(s) \/ Erase(s)
      PROVE  req'[r] = req[r]
  BY <1>4, Inserted, PictureSet, Erased DEF Leaves
<1>5. ASSUME NEW s \in Requests,
             \/ ProcessFails(s) \/ PutObject(s) \/ PutFails(s) \/ FinishLost(s) \/ LockUser(s)
      PROVE  req'[r] = req[r]
  BY <1>5 DEF ProcessFails, PutObject, PutFails, FinishLost, LockUser, Goto, IInv, TypeOK,
     Request
<1>6. ASSUME NEW s \in Requests,
             \/ ReleaseFailedUpload(s) \/ Finish(s) \/ Undo(s) \/ UndoFails(s)
             \/ LockUserRefused(s) \/ SetPictureNothing(s) \/ DeleteAccount(s) \/ CrashRequest(s)
      PROVE  req'[r] = req[r]
  BY <1>6 DEF ReleaseFailedUpload, Finish, Undo, UndoFails, LockUserRefused, SetPictureNothing,
              DeleteAccount, CrashRequest, Answer, Idle, IInv, TypeOK
<1>7. CASE req' = req
  BY <1>7
<1> QED
  BY <1>3, <1>4, <1>5, <1>6, <1>7
     DEF Next, Proceed, Clean, ClaimUnused, ListBatch, DeleteObject, DeleteObjectFails,
         DeleteRow,
         RecordFailedDelete, StopCleaning, CrashCleaner, ReleaseUnattached, Grow, Expire

LEMMA QuotaStep ==
    ASSUME IInv, Next, QuotaInv
    PROVE  QuotaInv'
<1> SUFFICES ASSUME NEW u \in Users
             PROVE  Cardinality(Counted(u)') + Cardinality(Inserting(u)')
                        < MaxUnattached + Cardinality(Requests)
  BY DEF QuotaInv
<1>1. /\ Cardinality(Counted(u)) + Cardinality(Inserting(u))
            < MaxUnattached + Cardinality(Requests)
      /\ MaxUnattached \in Nat
  BY FilesAssumption DEF QuotaInv
<1>2. /\ Cardinality(Counted(u)) \in Nat /\ Cardinality(Inserting(u)) \in Nat
      /\ IsFiniteSet(Counted(u)) /\ IsFiniteSet(Inserting(u)) /\ Cardinality(Requests) \in Nat
  BY FiniteCounts
<1>3. /\ Inserting(u)' \subseteq Requests /\ Counted(u)' \subseteq Files
      /\ Cardinality(Inserting(u)') <= Cardinality(Requests)
      /\ Cardinality(Inserting(u)') \in Nat /\ Cardinality(Counted(u)') \in Nat
  <2>1. Inserting(u)' \subseteq Requests /\ Counted(u)' \subseteq Files
    BY DEF Inserting, Counted
  <2> QED
    BY <2>1, FilesAssumption, FS_Subset, FS_CardinalityType
<1>4. CASE \E r \in Requests : BeginUpload(r, u)
  <2>1. Counted(u)' = Counted(u) /\ Cardinality(Counted(u)) < MaxUnattached
    BY <1>4 DEF BeginUpload, Counted
  <2> QED
    BY <1>2, <1>3, <2>1, <1>1
<1>5. ASSUME NEW r \in Requests, InsertRow(r)
      PROVE  Cardinality(Counted(u)') + Cardinality(Inserting(u)')
                 < MaxUnattached + Cardinality(Requests)
  <2>1. PICK f \in Files :
          /\ row[f].status = "NONE"
          /\ row' = [row EXCEPT ![f] = [NoRow EXCEPT !.status = "PROCESSING",
                                                     !.by = req[r].user]]
          /\ req[r].pc = "insert"
    BY <1>5 DEF InsertRow
  <2>2. req'[r].pc = "put" /\ \A s \in Requests \ {r} : req'[s] = req[s]
    BY <1>5, Inserted
  <2>3. Inserting(u)' = Inserting(u) \ {r}
    BY <2>2 DEF Inserting
  <2>4. \A g \in Files \ {f} : row'[g] = row[g]
    BY <2>1 DEF IInv, TypeOK
  <2>5. CASE req[r].user = u
    <3>1. Counted(u)' \subseteq Counted(u) \cup {f} /\ r \in Inserting(u)
      BY <2>1, <2>4, <2>5 DEF Counted, Inserting
    <3>2. Cardinality(Counted(u)') <= Cardinality(Counted(u)) + 1
      <4>1. /\ IsFiniteSet(Counted(u) \cup {f})
            /\ Cardinality(Counted(u) \cup {f}) <= Cardinality(Counted(u)) + 1
            /\ Cardinality(Counted(u) \cup {f}) \in Nat
        <5>1. IsFiniteSet(Counted(u) \cup {f})
          BY <1>2, FS_AddElement
        <5>2. \/ Cardinality(Counted(u) \cup {f}) = Cardinality(Counted(u))
              \/ Cardinality(Counted(u) \cup {f}) = Cardinality(Counted(u)) + 1
          BY <1>2, FS_AddElement
        <5>3. Cardinality(Counted(u) \cup {f}) \in Nat
          BY <5>1, FS_CardinalityType
        <5> QED
          BY <1>2, <5>1, <5>2, <5>3
      <4>2. Cardinality(Counted(u)') <= Cardinality(Counted(u) \cup {f})
        BY <3>1, <4>1, FS_Subset
      <4> QED
        BY <1>2, <1>3, <4>1, <4>2
    <3>3. Cardinality(Inserting(u)') = Cardinality(Inserting(u)) - 1
      BY <1>2, <2>3, <3>1, FS_RemoveElement
    <3> QED
      BY <1>1, <1>2, <1>3, <3>2, <3>3
  <2>6. CASE req[r].user # u
    <3>1. row'[f].by # u
      BY <2>1, <2>6 DEF IInv, TypeOK, NoRow
    <3>2. Counted(u)' \subseteq Counted(u)
      BY <2>4, <3>1 DEF Counted
    <3>3. /\ Cardinality(Counted(u)') <= Cardinality(Counted(u))
          /\ Cardinality(Inserting(u)') <= Cardinality(Inserting(u))
      BY <1>2, <2>3, <3>2, FS_Subset
    <3> QED
      BY <1>1, <1>2, <1>3, <3>3
  <2> QED
    BY <2>5, <2>6
<1>6. CASE /\ ~\E r \in Requests : BeginUpload(r, u)
           /\ ~\E r \in Requests : InsertRow(r)
  <2>1. Counted(u)' \subseteq Counted(u)
    BY <1>6, CountedGrows
  <2>2. Inserting(u)' \subseteq Inserting(u)
    BY <1>6, InsertingGrows DEF Inserting
  <2>3. /\ Cardinality(Counted(u)') <= Cardinality(Counted(u))
        /\ Cardinality(Inserting(u)') <= Cardinality(Inserting(u))
    BY <1>2, <2>1, <2>2, FS_Subset
  <2> QED
    BY <1>1, <1>2, <1>3, <2>3
<1> QED
  BY <1>4, <1>5, <1>6

(* The quota is checked before the row is inserted and without a lock, so it  *)
(* can be exceeded, but only by the requests that passed the check together:   *)
(* releasing a file that was counted does not make room for another.          *)
THEOREM QuotaExceededAtMostByRequests == Spec => []QuotaOvershootBounded
<1>1. Init => QuotaInv
  <2> SUFFICES ASSUME Init, NEW u \in Users
               PROVE  Cardinality(Counted(u)) + Cardinality(Inserting(u))
                          < MaxUnattached + Cardinality(Requests)
    BY DEF QuotaInv
  <2>1. Counted(u) = {} /\ Inserting(u) = {}
    BY DEF Init, Counted, Inserting, NoRow, Idle, Unattached
  <2>2. Cardinality(Requests) \in Nat
    BY FilesAssumption, FS_CardinalityType
  <2> QED
    BY <2>1, <2>2, FS_EmptySet, FilesAssumption
<1>2. IInv /\ QuotaInv /\ [Next]_vars => QuotaInv'
  <2>1. ASSUME QuotaInv, UNCHANGED vars
        PROVE  QuotaInv'
    BY <2>1 DEF vars, QuotaInv, Counted, Inserting
  <2> QED
    BY <2>1, QuotaStep
<1>3. QuotaInv => QuotaOvershootBounded
  BY DEF QuotaInv, QuotaOvershootBounded, Counted, Inserting, Unattached
<1> QED
  BY <1>1, <1>2, <1>3, Inductive, PTL DEF Spec

-----------------------------------------------------------------------------
(* Orphans *)

(* Someone is about to find out that the row is gone, or has. *)
Held(f) == \E r \in Requests : req[r].file = f /\ req[r].pc \in {"finish", "undo"}

(* The row of an object is gone, or the cleanup job is about to delete it. *)
Orphaned(f) ==
    \/ row[f].status \in {"NONE", "GONE"}
    \/ \E c \in Cleaners : cleaner[c].pc = "deleteRow" /\ cleaner[c].file = f

OrphanInv == \A f \in object : Orphaned(f) => Held(f)

(* Storage that fails only in the cleanup job, processes that live. *)
Reliable == ~MayCrash /\ FailingCalls \subseteq {"cleanup"}

LEMMA ObjectsGrow ==
    ASSUME Reliable, IInv, Next, NEW f \in object', f \notin object
    PROVE  Held(f)'
<1>1. ASSUME NEW r \in Requests, PutObject(r)
      PROVE  Held(f)'
  <2>1. req[r] \in Request /\ f = req[r].file /\ req' = [req EXCEPT ![r] = [req[r] EXCEPT !.pc = "finish"]]
    BY <1>1 DEF PutObject, Goto, IInv, TypeOK
  <2>2. req'[r].pc = "finish" /\ req'[r].file = f
    BY <2>1 DEF IInv, TypeOK, Request
  <2> QED
    BY <2>2 DEF Held
<1>2. ASSUME NEW r \in Requests, PutFails(r)
      PROVE  FALSE
  BY <1>2 DEF PutFails, StorageFails, Reliable
<1>3. CASE object' \subseteq object
  BY <1>3
<1> QED
  BY <1>1, <1>2, <1>3
     DEF Next, Begin, BeginUpload, BeginLocked, Proceed, InsertRow, ProcessFails,
         ReleaseFailedUpload, Finish, FinishLost, Undo, UndoFails, LockUser, LockUserRefused,
         SetPicture, SetPictureNothing, Erase, DeleteAccount, CrashRequest, Clean, ClaimUnused,
         ListBatch, DeleteObject, DeleteObjectFails, DeleteRow, RecordFailedDelete,
         StopCleaning, CrashCleaner, ReleaseUnattached, Grow, Expire

LEMMA StaysOrphaned ==
    ASSUME IInv, Next, NEW f \in object, f \in object', Orphaned(f)'
    PROVE  Orphaned(f)
<1> USE DEF IInv, TypeOK
<1>1. ASSUME NEW c \in Cleaners, cleaner'[c].pc = "deleteRow", cleaner'[c].file = f
      PROVE  cleaner[c].pc = "deleteRow" /\ cleaner[c].file = f
  <2>1. cleaner[c] \in Cleaner
    OBVIOUS
  <2>2. CASE cleaner'[c] = cleaner[c]
    BY <1>1, <2>2
  <2>3. ASSUME NEW d \in Cleaners, DeleteObject(d)
        PROVE  cleaner'[c] = cleaner[c]
    <3>1. PICK e \in cleaner[d].batch :
            /\ object' = object \ {e.file}
            /\ cleaner' = [cleaner EXCEPT ![d] =
                   [cleaner[d] EXCEPT !.pc = "deleteRow", !.file = e.file,
                                      !.batch = cleaner[d].batch \ {e}]]
      BY <2>3 DEF DeleteObject
    <3>2. cleaner'[d].file = e.file
      BY <3>1 DEF Cleaner
    <3> QED
      BY <1>1, <3>1, <3>2
  <2>4. ASSUME NEW d \in Cleaners, DeleteObjectFails(d)
        PROVE  cleaner'[c] = cleaner[c]
    <3>1. PICK e \in cleaner[d].batch :
            cleaner' = [cleaner EXCEPT ![d] =
                [cleaner[d] EXCEPT !.pc = "count", !.file = e.file,
                                   !.batch = cleaner[d].batch \ {e},
                                   !.strikes = cleaner[d].strikes + 1]]
      BY <2>4 DEF DeleteObjectFails
    <3>2. cleaner'[d].pc = "count"
      BY <3>1 DEF Cleaner
    <3> QED
      BY <1>1, <3>1, <3>2
  <2>5. ASSUME NEW d \in Cleaners,
               ClaimUnused(d) \/ ListBatch(d) \/ DeleteRow(d) \/ RecordFailedDelete(d)
                   \/ StopCleaning(d) \/ CrashCleaner(d)
        PROVE  cleaner'[c] = cleaner[c]
    <3>1. /\ cleaner[d] \in Cleaner /\ Resting.pc = "idle"
          /\ [cleaner[d] EXCEPT !.pc = "list"].pc = "list"
          /\ \A n : [cleaner[d] EXCEPT !.pc = "next", !.strikes = n].pc = "next"
          /\ \A B : [Resting EXCEPT !.pc = "next", !.batch = B].pc = "next"
      BY DEF Cleaner, Resting
    <3>2. cleaner'[d] = cleaner[d] \/ cleaner'[d].pc # "deleteRow"
      <4>1. CASE ClaimUnused(d)
        BY <3>1, <4>1 DEF ClaimUnused
      <4>2. CASE ListBatch(d) \/ StopCleaning(d) \/ CrashCleaner(d)
        BY <3>1, <4>2 DEF ListBatch, StopCleaning, CrashCleaner
      <4>3. CASE DeleteRow(d) \/ RecordFailedDelete(d)
        <5>1. \E n : cleaner'[d] = IF cleaner[d].batch = {} THEN Resting
                                   ELSE [cleaner[d] EXCEPT !.pc = "next", !.strikes = n]
          BY <4>3 DEF DeleteRow, RecordFailedDelete, NextFile
        <5> QED
          BY <3>1, <5>1
      <4> QED
        BY <2>5, <4>1, <4>2, <4>3
    <3>3. d # c => cleaner'[c] = cleaner[c]
      BY <2>5 DEF ClaimUnused, ListBatch, DeleteRow, RecordFailedDelete, NextFile, StopCleaning,
                  CrashCleaner
    <3> QED
      BY <1>1, <3>2, <3>3
  <2>6. CASE cleaner' = cleaner
    BY <2>2, <2>6
  <2> QED
    BY <2>2, <2>3, <2>4, <2>5, <2>6, Begun, Inserted, PictureSet, Erased
       DEF Next, Proceed, Clean, ProcessFails, PutObject, PutFails,
           ReleaseFailedUpload, Finish, FinishLost, Undo, UndoFails, LockUser, LockUserRefused,
           SetPictureNothing, DeleteAccount, CrashRequest, ReleaseUnattached, Grow, Expire
<1>2. ASSUME row'[f].status \in {"NONE", "GONE"}, row[f].status \notin {"NONE", "GONE"}
      PROVE  \E c \in Cleaners : cleaner[c].pc = "deleteRow" /\ cleaner[c].file = f
  <2>1. row[f].status = "DELETING"
    BY <1>2, RowMoves DEF Moves
  <2>2. ASSUME NEW c \in Cleaners, DeleteRow(c)
        PROVE  cleaner[c].pc = "deleteRow" /\ cleaner[c].file = f
    BY <1>2, <2>2 DEF DeleteRow
  <2>3. ASSUME NEW r \in Requests, \/ InsertRow(r) \/ SetPicture(r) \/ Erase(r)
                                   \/ ReleaseFailedUpload(r) \/ Finish(r)
        PROVE  row'[f] = row[f]
    BY <2>1, <2>3, Inserted, PictureSet, Erased
       DEF ReleaseFailedUpload, Finish, StillProcessing, Unattached
  <2>4. ASSUME NEW c \in Cleaners, ClaimUnused(c)
        PROVE  row'[f] = row[f]
    BY <2>1, <2>4, Claimed DEF Unattached
  <2>5. ASSUME NEW c \in Cleaners, RecordFailedDelete(c)
        PROVE  row'[f].status = row[f].status
    BY <2>5 DEF RecordFailedDelete, Attempted, Row
  <2>6. ASSUME NEW u \in Users, NEW g \in Files, ReleaseUnattached(u, g)
        PROVE  row'[f] = row[f]
    BY <2>1, <2>6 DEF ReleaseUnattached
  <2>7. ASSUME NEW g \in Files, Grow(g) \/ Expire(g)
        PROVE  row'[f].status = row[f].status
    BY <2>7 DEF Grow, Expire, Row
  <2>8. CASE row' = row
    BY <1>2, <2>8
  <2> QED
    BY <1>2, <2>2, <2>3, <2>4, <2>5, <2>6, <2>7, <2>8
       DEF Next, Begin, BeginUpload, BeginLocked, Proceed, ProcessFails, PutObject, PutFails,
           FinishLost, Undo, UndoFails, LockUser, LockUserRefused, SetPictureNothing,
           DeleteAccount, CrashRequest, Clean, ListBatch, DeleteObject, DeleteObjectFails,
           StopCleaning, CrashCleaner
<1> QED
  BY <1>1, <1>2 DEF Orphaned

LEMMA StaysHeld ==
    ASSUME Reliable, IInv, Next, NEW f \in object, f \in object', Orphaned(f), Held(f)
    PROVE  Held(f)'
<1> USE DEF IInv, TypeOK
<1>1. PICK r \in Requests : req[r].file = f /\ req[r].pc \in {"finish", "undo"}
  BY DEF Held
<1>2. row[f].status # "PROCESSING"
  BY DEF Orphaned, CleanInv, Settled
<1>3. SUFFICES \/ req'[r] = req[r]
               \/ req'[r].file = f /\ req'[r].pc = "undo"
  BY <1>1 DEF Held
<1>4. ASSUME NEW s \in Requests, NEW q, req' = [req EXCEPT ![s] = q], s # r
      PROVE  req'[r] = req[r]
  BY <1>4
<1>5. CASE FinishLost(r)
  <2>1. req' = [req EXCEPT ![r] = [req[r] EXCEPT !.pc = "undo"]] /\ req[r] \in Request
    BY <1>5 DEF FinishLost, Goto
  <2> QED
    BY <1>1, <2>1 DEF Request
<1>6. ~Finish(r) /\ ~Undo(r) /\ ~UndoFails(r) /\ ~CrashRequest(r)
  BY <1>1, <1>2 DEF Finish, StillProcessing, Undo, UndoFails, StorageFails, CrashRequest,
     Reliable
<1>7. ASSUME NEW s \in Requests,
             Begin(s) \/ InsertRow(s) \/ SetPicture(s) \/ Erase(s)
      PROVE  req'[r] = req[r]
  BY <1>1, <1>7, Begun, Inserted, PictureSet, Erased DEF Leaves
<1>8. ASSUME NEW s \in Requests,
             \/ ProcessFails(s) \/ PutObject(s) \/ PutFails(s) \/ LockUser(s)
             \/ ReleaseFailedUpload(s) \/ LockUserRefused(s) \/ SetPictureNothing(s)
             \/ DeleteAccount(s)
      PROVE  req'[r] = req[r]
  BY <1>1, <1>8 DEF ProcessFails, PutObject, PutFails, LockUser, Goto, ReleaseFailedUpload,
                    LockUserRefused, SetPictureNothing, DeleteAccount, Answer
<1>9. ASSUME NEW s \in Requests, s # r,
             Finish(s) \/ FinishLost(s) \/ Undo(s) \/ UndoFails(s) \/ CrashRequest(s)
      PROVE  req'[r] = req[r]
  BY <1>9 DEF Finish, FinishLost, Undo, UndoFails, CrashRequest, Goto, Answer
<1>10. CASE req' = req
  BY <1>10
<1> QED
  BY <1>5, <1>6, <1>7, <1>8, <1>9, <1>10
     DEF Next, Proceed, Clean, ClaimUnused, ListBatch, DeleteObject, DeleteObjectFails,
         DeleteRow,
         RecordFailedDelete, StopCleaning, CrashCleaner, ReleaseUnattached, Grow, Expire

(* An upload that lost its row takes its object back. What is left behind       *)
(* without a row is what a crash, a put or an undo that fails leaves.          *)
THEOREM OrphansAreTakenBack ==
    ASSUME Reliable
    PROVE  Spec => []OrphansHaveAnUpload
<1>1. Init => OrphanInv
  BY DEF Init, OrphanInv
<1>2. IInv /\ OrphanInv /\ [Next]_vars => OrphanInv'
  <2>1. ASSUME IInv, OrphanInv, Next, NEW f \in object', Orphaned(f)'
        PROVE  Held(f)'
    <3>1. CASE f \notin object
      BY <2>1, <3>1, ObjectsGrow
    <3>2. CASE f \in object
      <4>1. Orphaned(f)
        BY <2>1, <3>2, StaysOrphaned
      <4>2. Held(f)
        BY <2>1, <3>2, <4>1 DEF OrphanInv
      <4> QED
        BY <2>1, <3>2, <4>1, <4>2, StaysHeld
    <3> QED
      BY <3>1, <3>2
  <2>2. ASSUME OrphanInv, UNCHANGED vars
        PROVE  OrphanInv'
    BY <2>2 DEF vars, OrphanInv, Orphaned, Held
  <2>3. ASSUME IInv, OrphanInv, Next
        PROVE  OrphanInv'
    BY <2>1, <2>3 DEF OrphanInv
  <2> QED
    BY <2>2, <2>3
<1>3. OrphanInv => OrphansHaveAnUpload
  BY DEF OrphanInv, Orphaned, Held, OrphansHaveAnUpload
<1> QED
  BY <1>1, <1>2, <1>3, Inductive, PTL DEF Spec
=============================================================================
