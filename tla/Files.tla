------------------------------- MODULE Files -------------------------------
(***************************************************************************)
(* Uploaded files: FilesService (upload, attach, release, the cleanup job)   *)
(* with the two callers that hold references to files, setProfileImage and   *)
(* gdprErase of UsersService. A file is a row of file_assets and an object   *)
(* in a bucket; no transaction spans the two.                                *)
(*                                                                          *)
(* Every storage call and every statement outside a transaction is a step.   *)
(* The statements a transaction runs on file rows come after its row lock on  *)
(* the account and hold the rows they touch until the commit: one step.      *)
(***************************************************************************)
EXTENDS Naturals, FiniteSets, FiniteSetsExt

CONSTANTS
    Users,
    Files,             \* bound: file ids that can ever be allocated
    Requests,          \* HTTP requests in flight at the same time
    Cleaners,          \* cleanup jobs running at the same time
    MaxUnattached,     \* MAX_UNATTACHED_FILES_PER_USER
    BatchSize,         \* CLEANUP_BATCH_SIZE
    FailureLimit,      \* CLEANUP_CONSECUTIVE_FAILURE_LIMIT
    MaxFailures,       \* bound: storage calls that fail in one behaviour
    FailingCalls,      \* which storage calls may fail: put, cleanup, undo
    MayCrash,          \* whether processes die
    Operations,        \* which of AllOperations clients call
    Nobody,            \* the holder of a free lock, the null user
    NoFile             \* the null file

AllOperations == {"upload", "setPicture", "release", "erase", "delete"}

ASSUME FilesAssumption ==
    /\ IsFiniteSet(Files) /\ IsFiniteSet(Requests)
    /\ MaxUnattached \in Nat \ {0}
    /\ BatchSize \in Nat \ {0}
    /\ FailureLimit \in Nat \ {0}
    /\ MaxFailures \in Nat
    /\ FailingCalls \subseteq {"put", "cleanup", "undo"}
    /\ MayCrash \in BOOLEAN
    /\ Operations \subseteq AllOperations
    /\ Nobody \notin Requests \cup Users
    /\ NoFile \notin Files

VARIABLES
    row,        \* the file_assets table
    object,     \* the keys that hold an object
    picture,    \* users.profile_image_file_asset_id
    account,    \* each user: live, deleted or erased
    userLock,   \* who holds each users row FOR UPDATE
    req,        \* every request's progress and local variables
    cleaner,    \* every cleanup job's progress
    failures    \* storage calls that failed so far

vars == <<row, object, picture, account, userLock, req, cleaner, failures>>

Unattached == {"PROCESSING", "READY"}          \* UNATTACHED_STATUSES
(* age 0: fresh; 1: past STALE_PROCESSING; 2: past RELEASED_FILE_QUOTA_WINDOW *)
Row == [status : {"NONE", "PROCESSING", "READY", "ATTACHED", "DELETING", "GONE"},
        by : Users \cup {Nobody},
        age : 0..2,
        expired : BOOLEAN,                     \* expiresAt has passed
        sized : BOOLEAN,                       \* sizeBytes is set
        attached : BOOLEAN,                    \* attachedAt is set
        attempts : Nat]                        \* deleteAttempts
NoRow == [status |-> "NONE", by |-> Nobody, age |-> 0, expired |-> FALSE,
          sized |-> FALSE, attached |-> FALSE, attempts |-> 0]

Request == [pc : {"idle", "insert", "put", "finish", "releaseFailed", "undo",
                  "lock", "write"},
            op : AllOperations \cup {"none"},
            user : Users \cup {Nobody},
            file : Files \cup {NoFile},
            current : Files \cup {NoFile}]     \* currentFileId
Idle == [pc |-> "idle", op |-> "none", user |-> Nobody, file |-> NoFile,
         current |-> NoFile]

Entry == [file : Files, attempts : Nat]
Cleaner == [pc : {"idle", "list", "next", "deleteRow", "count"},
            batch : SUBSET Entry,
            file : Files \cup {NoFile},        \* the last one worked on
            strikes : Nat]                     \* consecutiveFailures
Resting == [pc |-> "idle", batch |-> {}, file |-> NoFile, strikes |-> 0]

TypeOK ==
    /\ row \in [Files -> Row]
    /\ object \subseteq Files
    /\ picture \in [Users -> Files \cup {NoFile}]
    /\ account \in [Users -> {"live", "deleted", "erased"}]
    /\ userLock \in [Users -> Requests \cup {Nobody}]
    /\ req \in [Requests -> Request]
    /\ cleaner \in [Cleaners -> Cleaner]
    /\ failures \in 0..MaxFailures

Init ==
    /\ row = [f \in Files |-> NoRow]
    /\ object = {}
    /\ picture = [u \in Users |-> NoFile]
    /\ account = [u \in Users |-> "live"]
    /\ userLock = [u \in Users |-> Nobody]
    /\ req = [r \in Requests |-> Idle]
    /\ cleaner = [c \in Cleaners |-> Resting]
    /\ failures = 0

Goto(r, stage) == req' = [req EXCEPT ![r].pc = stage]
Answer(r) == req' = [req EXCEPT ![r] = Idle]

(* A storage call of this kind throws. *)
StorageFails(call) ==
    /\ call \in FailingCalls
    /\ failures < MaxFailures
    /\ failures' = failures + 1

Deleting(f) == [row[f] EXCEPT !.status = "DELETING", !.expired = FALSE]

-----------------------------------------------------------------------------
(* upload *)

(* Mutant of Counted: files released by their uploader are forgotten. *)
Counted_UnattachedOnly(u) ==
    {f \in Files : row[f].by = u /\ row[f].status \in Unattached}

(* quotaWhere *)
Counted(u) ==
    {f \in Files :
        /\ row[f].by = u
        /\ \/ row[f].status \in Unattached
           \/ /\ row[f].status = "DELETING"
              /\ row[f].sized
              /\ ~row[f].attached
              /\ row[f].age < 2}

(* The count is not locked: the row is inserted later. *)
BeginUpload(r, u) ==
    /\ Cardinality(Counted(u)) < MaxUnattached
    /\ req' = [req EXCEPT ![r] = [Idle EXCEPT !.pc = "insert", !.op = "upload",
                                              !.user = u]]
    /\ UNCHANGED <<row, object, picture, account, userLock, cleaner, failures>>

InsertRow(r) ==
    \E f \in Files :
        /\ req[r].pc = "insert"
        /\ row[f].status = "NONE"
        /\ row' = [row EXCEPT ![f] = [NoRow EXCEPT !.status = "PROCESSING",
                                                   !.by = req[r].user]]
        /\ req' = [req EXCEPT ![r].pc = "put", ![r].file = f]
        /\ UNCHANGED <<object, picture, account, userLock, cleaner, failures>>

(* The bytes cannot be processed. *)
ProcessFails(r) ==
    /\ req[r].pc = "put"
    /\ Goto(r, "releaseFailed")
    /\ UNCHANGED <<row, object, picture, account, userLock, cleaner, failures>>

PutObject(r) ==
    /\ req[r].pc = "put"
    /\ object' = object \cup {req[r].file}
    /\ Goto(r, "finish")
    /\ UNCHANGED <<row, picture, account, userLock, cleaner, failures>>

(* put throws; the object may have been written all the same. *)
PutFails(r) ==
    /\ req[r].pc = "put"
    /\ StorageFails("put")
    /\ object' \in {object, object \cup {req[r].file}}
    /\ Goto(r, "releaseFailed")
    /\ UNCHANGED <<row, picture, account, userLock, cleaner>>

(* releaseFailedUpload *)
ReleaseFailedUpload(r) ==
    LET f == req[r].file
    IN  /\ req[r].pc = "releaseFailed"
        /\ row' = [row EXCEPT ![f] = IF row[f].status = "PROCESSING"
                                     THEN Deleting(f) ELSE row[f]]
        /\ Answer(r)
        /\ UNCHANGED <<object, picture, account, userLock, cleaner, failures>>

(* Mutant of StillProcessing: the final UPDATE is not conditional. *)
StillProcessing_Always(f) == TRUE

StillProcessing(f) == row[f].status = "PROCESSING"

Finish(r) ==
    LET f == req[r].file
    IN  /\ req[r].pc = "finish"
        /\ StillProcessing(f)
        /\ row' = [row EXCEPT ![f].status = "READY", ![f].sized = TRUE]
        /\ Answer(r)
        /\ UNCHANGED <<object, picture, account, userLock, cleaner, failures>>

(* The row was released meanwhile. *)
FinishLost(r) ==
    /\ req[r].pc = "finish"
    /\ ~StillProcessing(req[r].file)
    /\ Goto(r, "undo")
    /\ UNCHANGED <<row, object, picture, account, userLock, cleaner, failures>>

(* Mutant of Undo: the object is left to the cleanup job. *)
Undo_LeftToCleanup(r) ==
    /\ req[r].pc = "undo"
    /\ Answer(r)
    /\ UNCHANGED <<row, object, picture, account, userLock, cleaner, failures>>

(* ... so the request removes the object it wrote. *)
Undo(r) ==
    /\ req[r].pc = "undo"
    /\ object' = object \ {req[r].file}
    /\ Answer(r)
    /\ UNCHANGED <<row, picture, account, userLock, cleaner, failures>>

(* ... and only logs it if that fails *)
UndoFails(r) ==
    /\ req[r].pc = "undo"
    /\ StorageFails("undo")
    /\ Answer(r)
    /\ UNCHANGED <<row, object, picture, account, userLock, cleaner>>

-----------------------------------------------------------------------------
(* References: setProfileImage, gdprErase and deleteAccount lock the account *)

BeginLocked(r, op, u, f) ==
    /\ op \in {"setPicture", "erase", "delete"}
    /\ op # "setPicture" => f = NoFile
    /\ f # NoFile => row[f].status # "NONE"
    /\ req' = [req EXCEPT ![r] = [Idle EXCEPT !.pc = "lock", !.op = op,
                                              !.user = u, !.file = f]]
    /\ UNCHANGED <<row, object, picture, account, userLock, cleaner, failures>>

(* Mutant of LockUser: the picture is read without the lock. *)
LockUser_ReadOnly(r) ==
    /\ req[r].pc = "lock"
    /\ req[r].op = "setPicture" => account[req[r].user] = "live"
    /\ req' = [req EXCEPT ![r].pc = "write", ![r].current = picture[req[r].user]]
    /\ UNCHANGED <<row, object, picture, account, userLock, cleaner, failures>>

(* lockUserRow, and the read under it *)
LockUser(r) ==
    LET u == req[r].user
    IN  /\ req[r].pc = "lock"
        /\ userLock[u] = Nobody
        /\ req[r].op = "setPicture" => account[u] = "live"
        /\ userLock' = [userLock EXCEPT ![u] = r]
        /\ req' = [req EXCEPT ![r].pc = "write", ![r].current = picture[u]]
        /\ UNCHANGED <<row, object, picture, account, cleaner, failures>>

Unlock(r) == userLock' = [u \in Users |-> IF userLock[u] = r THEN Nobody
                                          ELSE userLock[u]]

(* the account is gone *)
LockUserRefused(r) ==
    /\ req[r].pc = "lock"
    /\ userLock[req[r].user] = Nobody
    /\ req[r].op = "setPicture" /\ account[req[r].user] # "live"
    /\ Answer(r)
    /\ UNCHANGED <<row, object, picture, account, userLock, cleaner, failures>>

(* claimForAttachment *)
Claimable(f, u) ==
    /\ row[f].by = u
    /\ row[f].status = "READY"
    /\ ~row[f].expired

(* claimForAttachment and markDeleting, and the new reference *)
SetPicture(r) ==
    LET u == req[r].user
        f == req[r].file
    IN  /\ req[r].pc = "write" /\ req[r].op = "setPicture"
        /\ f # req[r].current
        /\ f # NoFile => Claimable(f, u)
        /\ row' = [g \in Files |->
               CASE g = f -> [row[g] EXCEPT !.status = "ATTACHED",
                                            !.attached = TRUE, !.expired = FALSE]
                 [] g # f /\ g = req[r].current -> Deleting(g)
                 [] OTHER -> row[g]]
        /\ picture' = [picture EXCEPT ![u] = f]
        /\ Unlock(r)
        /\ Answer(r)
        /\ UNCHANGED <<object, account, cleaner, failures>>

(* the current picture again, or a file that cannot be claimed *)
SetPictureNothing(r) ==
    LET f == req[r].file
    IN  /\ req[r].pc = "write" /\ req[r].op = "setPicture"
        /\ \/ f = req[r].current
           \/ f # NoFile /\ f # req[r].current /\ ~Claimable(f, req[r].user)
        /\ Unlock(r)
        /\ Answer(r)
        /\ UNCHANGED <<row, object, picture, account, cleaner, failures>>

(* markDeleting of the picture, markUnattachedDeleting *)
Released(r) ==
    {f \in Files : \/ f = req[r].current
                   \/ row[f].by = req[r].user /\ row[f].status \in Unattached}

(* gdprErase *)
Erase(r) ==
    LET u == req[r].user
    IN  /\ req[r].pc = "write" /\ req[r].op = "erase"
        /\ row' = [f \in Files |-> IF f \in Released(r) THEN Deleting(f)
                                   ELSE row[f]]
        /\ picture' = [picture EXCEPT ![u] = NoFile]
        /\ account' = [account EXCEPT ![u] = "erased"]
        /\ Unlock(r)
        /\ Answer(r)
        /\ UNCHANGED <<object, cleaner, failures>>

(* deleteAccount keeps the picture *)
DeleteAccount(r) ==
    LET u == req[r].user
    IN  /\ req[r].pc = "write" /\ req[r].op = "delete"
        /\ account' = [account EXCEPT ![u] = IF @ = "erased" THEN @ ELSE "deleted"]
        /\ Unlock(r)
        /\ Answer(r)
        /\ UNCHANGED <<row, object, picture, cleaner, failures>>

(* releaseUnattached: one conditional statement *)
ReleaseUnattached(u, f) ==
    /\ "release" \in Operations
    /\ account[u] = "live"
    /\ row[f].by = u /\ row[f].status = "READY"
    /\ row' = [row EXCEPT ![f] = Deleting(f)]
    /\ UNCHANGED <<object, picture, account, userLock, req, cleaner, failures>>

-----------------------------------------------------------------------------
(* cleanUp *)

(* Mutant of Reclaimed: old rows, whatever their status. *)
Reclaimed_ByAge ==
    {f \in Files : row[f].age > 0 /\ row[f].status \notin {"NONE", "GONE"}}

Reclaimed ==
    {f \in Files : \/ row[f].status = "READY" /\ row[f].expired
                   \/ row[f].status = "PROCESSING" /\ row[f].age > 0}

(* The claim: one conditional UPDATE. *)
ClaimUnused(c) ==
    /\ cleaner[c].pc = "idle"
    /\ row' = [f \in Files |-> IF f \in Reclaimed THEN Deleting(f) ELSE row[f]]
    /\ cleaner' = [cleaner EXCEPT ![c].pc = "list"]
    /\ UNCHANGED <<object, picture, account, userLock, req, failures>>

(* Mutant of ToDelete: a delete that failed once is not retried. *)
ToDelete_NeverRetried ==
    {f \in Files : row[f].status = "DELETING" /\ row[f].attempts = 0}

ToDelete == {f \in Files : row[f].status = "DELETING"}

(* a batch of BatchSize, fewest attempts first *)
Batches ==
    LET entries == {[file |-> f, attempts |-> row[f].attempts] : f \in ToDelete}
    IN  {B \in SUBSET entries :
            /\ Cardinality(B) <= BatchSize
            /\ B # entries =>
                 /\ Cardinality(B) = BatchSize
                 /\ \A e \in B, d \in entries \ B : e.attempts <= d.attempts}

ListBatch(c) ==
    \E B \in Batches :
        /\ cleaner[c].pc = "list"
        /\ cleaner' = [cleaner EXCEPT ![c] =
               IF B = {} THEN Resting ELSE [Resting EXCEPT !.pc = "next", !.batch = B]]
        /\ UNCHANGED <<row, object, picture, account, userLock, req, failures>>

(* in the order they were read *)
First(c, e) ==
    e \in cleaner[c].batch /\ \A d \in cleaner[c].batch : e.attempts <= d.attempts

(* storage.delete; an object that is not there is no error *)
DeleteObject(c) ==
    \E e \in cleaner[c].batch :
        /\ cleaner[c].pc = "next"
        /\ cleaner[c].strikes < FailureLimit
        /\ First(c, e)
        /\ object' = object \ {e.file}
        /\ cleaner' = [cleaner EXCEPT ![c].pc = "deleteRow", ![c].file = e.file,
                                      ![c].batch = @ \ {e}]
        /\ UNCHANGED <<row, picture, account, userLock, req, failures>>

DeleteObjectFails(c) ==
    \E e \in cleaner[c].batch :
        /\ cleaner[c].pc = "next"
        /\ cleaner[c].strikes < FailureLimit
        /\ First(c, e)
        /\ StorageFails("cleanup")
        /\ cleaner' = [cleaner EXCEPT ![c].pc = "count", ![c].file = e.file,
                                      ![c].batch = @ \ {e},
                                      ![c].strikes = @ + 1]
        /\ UNCHANGED <<row, object, picture, account, userLock, req>>

(* on to the rest of the batch, if any *)
NextFile(c, strikes) ==
    cleaner' = [cleaner EXCEPT ![c] =
        IF cleaner[c].batch = {} THEN Resting
        ELSE [cleaner[c] EXCEPT !.pc = "next", !.strikes = strikes]]

DeleteRow(c) ==
    LET f == cleaner[c].file
    IN  /\ cleaner[c].pc = "deleteRow"
        /\ row' = [row EXCEPT ![f] = IF row[f].status = "DELETING"
                                     THEN [NoRow EXCEPT !.status = "GONE",
                                                        !.by = row[f].by]
                                     ELSE row[f]]
        /\ NextFile(c, 0)
        /\ UNCHANGED <<object, picture, account, userLock, req, failures>>

Attempted(f) == IF row[f].status = "DELETING"
                THEN [row[f] EXCEPT !.attempts = @ + 1] ELSE row[f]

(* recordFailedDelete *)
RecordFailedDelete(c) ==
    LET f == cleaner[c].file
    IN  /\ cleaner[c].pc = "count"
        /\ row' = [row EXCEPT ![f] = Attempted(f)]
        /\ NextFile(c, cleaner[c].strikes)
        /\ UNCHANGED <<object, picture, account, userLock, req, failures>>

(* Too many failures in a row, or the time budget is spent: never before the   *)
(* first file.                                                               *)
StopCleaning(c) ==
    /\ cleaner[c].pc = "next"
    /\ cleaner[c].strikes >= FailureLimit \/ cleaner[c].file # NoFile
    /\ cleaner' = [cleaner EXCEPT ![c] = Resting]
    /\ UNCHANGED <<row, object, picture, account, userLock, req, failures>>

-----------------------------------------------------------------------------

(* Time passes for a file: it ages, and a ready one expires. *)
Grow(f) ==
    /\ row[f].status \in {"PROCESSING", "READY", "DELETING"}
    /\ row[f].age < 2
    /\ row' = [row EXCEPT ![f].age = @ + 1]
    /\ UNCHANGED <<object, picture, account, userLock, req, cleaner, failures>>

Expire(f) ==
    /\ row[f].status = "READY"
    /\ ~row[f].expired
    /\ row' = [row EXCEPT ![f].expired = TRUE]
    /\ UNCHANGED <<object, picture, account, userLock, req, cleaner, failures>>

(* The API process, or the worker, dies. *)
CrashRequest(r) ==
    /\ MayCrash
    /\ req[r].pc # "idle"
    /\ Unlock(r)
    /\ Answer(r)
    /\ UNCHANGED <<row, object, picture, account, cleaner, failures>>

CrashCleaner(c) ==
    /\ MayCrash
    /\ cleaner[c].pc # "idle"
    /\ cleaner' = [cleaner EXCEPT ![c] = Resting]
    /\ UNCHANGED <<row, object, picture, account, userLock, req, failures>>

Begin(r) ==
    \E u \in Users, op \in Operations :
        /\ req[r].pc = "idle"
        /\ account[u] = "live"
        /\ \/ op = "upload" /\ BeginUpload(r, u)
           \/ \E f \in Files \cup {NoFile} : BeginLocked(r, op, u, f)

Proceed(r) ==
    \/ InsertRow(r) \/ ProcessFails(r) \/ PutObject(r) \/ PutFails(r)
    \/ ReleaseFailedUpload(r) \/ Finish(r) \/ FinishLost(r)
    \/ Undo(r) \/ UndoFails(r)
    \/ LockUser(r) \/ LockUserRefused(r) \/ SetPicture(r)
    \/ SetPictureNothing(r) \/ Erase(r) \/ DeleteAccount(r)

Clean(c) ==
    \/ ClaimUnused(c) \/ ListBatch(c)
    \/ DeleteObject(c) \/ DeleteObjectFails(c)
    \/ DeleteRow(c) \/ RecordFailedDelete(c) \/ StopCleaning(c)

Next ==
    \/ \E r \in Requests : Begin(r) \/ Proceed(r) \/ CrashRequest(r)
    \/ \E u \in Users, f \in Files : ReleaseUnattached(u, f)
    \/ \E c \in Cleaners : Clean(c) \/ CrashCleaner(c)
    \/ \E f \in Files : Grow(f) \/ Expire(f)

Spec == Init /\ [][Next]_vars

(* The cleanup job recurs, requests make progress and time passes.           *)
FilesFairness ==
    /\ \A r \in Requests : WF_vars(Proceed(r))
    /\ \A c \in Cleaners : WF_vars(Clean(c))
    /\ \A f \in Files : WF_vars(Grow(f)) /\ WF_vars(Expire(f))

-----------------------------------------------------------------------------
(* Properties *)

(* A referenced file keeps its row and its bytes: no race of attach, release,  *)
(* erasure and cleanup deletes what an account still shows. And no attached    *)
(* file leaks: each belongs to exactly one account, whatever two changes of   *)
(* the picture, or a change and an erasure, were in flight.                    *)
PictureIsServable ==
    /\ \A u \in Users :
          picture[u] # NoFile =>
              row[picture[u]].status = "ATTACHED" /\ picture[u] \in object
    /\ \A f \in Files :
          row[f].status = "ATTACHED" =>
              \E u \in Users : \A v \in Users : picture[v] = f <=> v = u

(* A released file never comes back: not by the upload that was still writing   *)
(* it, not by an attach that raced the release.                               *)
ReleaseIsFinal ==
    [][\A f \in Files :
          /\ row[f].status = "DELETING" => row'[f].status \in {"DELETING", "GONE"}
          /\ row[f].status = "GONE" => row'[f].status = "GONE"]_vars

(* What the quota counts exceeds the limit at most by the uploads that passed   *)
(* the unlocked count together, those still to insert their row and releasing  *)
(* in a loop included.                                                        *)
QuotaOvershootBounded ==
    \A u \in Users :
        Cardinality({f \in Files :
            /\ row[f].by = u
            /\ \/ row[f].status \in {"PROCESSING", "READY"}
               \/ row[f].status = "DELETING" /\ row[f].sized
                     /\ ~row[f].attached /\ row[f].age < 2})
          + Cardinality({r \in Requests : req[r].pc = "insert" /\ req[r].user = u})
          < MaxUnattached + Cardinality(Requests)

(* An object whose row is gone is only ever the one an upload in flight has     *)
(* written and is about to take back.                                         *)
OrphansHaveAnUpload ==
    \A f \in object :
        row[f].status \in {"NONE", "GONE"} =>
            \E r \in Requests : req[r].file = f /\ req[r].pc \in {"finish", "undo"}

(* Released, or its owner erased, and not yet out of storage. *)
Leftover(f) ==
    \/ row[f].status = "DELETING"
    \/ f \in object /\ \E u \in Users : row[f].by = u /\ account[u] = "erased"

(* Every released file is deleted, object and row, once storage answers again;  *)
(* and files go with the person: after an erasure nothing they uploaded stays    *)
(* in storage, uploads that were in flight included. (GONE is final and files    *)
(* are finitely many: in the end none is left over.)                          *)
ReleasedFilesGo == <>[](\A f \in Files : ~Leftover(f))
=============================================================================
