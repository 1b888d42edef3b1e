----------------------------- MODULE AppVersions -----------------------------
(***************************************************************************)
(* The releases clients are told about (AppVersionsService). A release     *)
(* belongs to a train: a platform and, where the platform ships more than  *)
(* one, an operating system. An administrator's request reads the row,     *)
(* then looks for a clash, then writes the columns it names, three         *)
(* statements without a transaction.                                       *)
(***************************************************************************)
EXTENDS FiniteSets, Naturals

CONSTANTS
    AppRelease,       \* bound: the ids of rows
    Editor,         \* requests under way at once
    Forms,          \* the bodies requests send
    MaxEdits,       \* bound: the requests of a behaviour
    NoAppVersion,
    Absent,         \* a field the body leaves out; no operating system in a row
    Patched         \* the versions bodies may name

ASSUME AppVersionsAssumption == MaxEdits \in Nat

(* RELEASE_TRAIN_OS_BY_PLATFORM *)
TrainOs == [web |-> {}, mobile |-> {"ios", "android"},
            desktop |-> {"macos", "windows", "linux"}]

Platform == DOMAIN TrainOs
DeviceOs == UNION {TrainOs[p] : p \in Platform}

Form == [platform : Platform \union {Absent}, deviceOs : DeviceOs \union {Absent},
         version : Patched \union {Absent}]

ASSUME FormsAssumption == Forms \subseteq Form

VARIABLES
    appVersion,     \* the rows
    edit,           \* the requests under way
    edits,          \* bound: MaxEdits
    overlapped      \* history: rows written by a request that another writer's
                    \* request overlapped

appVersionVars == <<appVersion, edit, edits, overlapped>>

AppVersionRow == [platform : Platform, deviceOs : DeviceOs \union {Absent}, version : Patched]

IdleEdit == [kind |-> "none", step |-> "idle", row |-> NoAppVersion, form |-> NoAppVersion,
             existing |-> NoAppVersion, crossed |-> FALSE]

AppVersionsTypeOK ==
    /\ appVersion \in [AppRelease -> AppVersionRow \union {NoAppVersion}]
    /\ edit \in [Editor -> [kind : {"none", "create", "update", "remove"},
                            step : {"idle", "check", "write"},
                            row : AppRelease \union {NoAppVersion},
                            form : Forms \union {NoAppVersion},
                            existing : AppVersionRow \union {NoAppVersion},
                            crossed : BOOLEAN]]
    /\ edits \in 0 .. MaxEdits
    /\ overlapped \subseteq AppRelease

AppVersionsInit ==
    /\ appVersion = [r \in AppRelease |-> NoAppVersion]
    /\ edit = [e \in Editor |-> IdleEdit]
    /\ edits = 0
    /\ overlapped = {}

isSingleDistributionPlatform(p) == TrainOs[p] = {}

(* The body names a train its platform has. *)
TrainAccepted(p, os) == isSingleDistributionPlatform(p) \/ os \in TrainOs[p]

resolveDeviceOs(p, os) == IF isSingleDistributionPlatform(p) THEN Absent ELSE os

Given(value, stored) == IF value # Absent THEN value ELSE stored

(* mutant: only a change of the operating system is seen as one of the train. *)
isReleaseTrainAffected_OsOnly(form) == form.deviceOs # Absent

isReleaseTrainAffected(form) == form.platform # Absent \/ form.deviceOs # Absent

(* What update works with: the stored row under the body. *)
Effective(form, existing) ==
    LET p == Given(form.platform, existing.platform)
    IN  [platform |-> p,
         deviceOs |-> IF isReleaseTrainAffected(form) THEN resolveDeviceOs(p, form.deviceOs)
                      ELSE existing.deviceOs,
         version |-> Given(form.version, existing.version)]

Written(e) ==
    IF edit[e].kind = "create"
    THEN [platform |-> edit[e].form.platform, version |-> edit[e].form.version,
          deviceOs |-> resolveDeviceOs(edit[e].form.platform, edit[e].form.deviceOs)]
    ELSE Effective(edit[e].form, edit[e].existing)

Begin(e, kind, r, form) ==
    /\ edit[e].step = "idle"
    /\ edits < MaxEdits
    /\ edits' = edits + 1
    /\ edit' = [d \in Editor |->
            IF d = e
            THEN [kind |-> kind, step |-> IF kind = "remove" THEN "write" ELSE "check", row |-> r,
                  form |-> form, existing |-> appVersion[r],
                  crossed |-> \E o \in Editor \ {e} : edit[o].step # "idle"]
            ELSE [edit[d] EXCEPT !.crossed = edit[d].step # "idle"]]
    /\ UNCHANGED <<appVersion, overlapped>>

(* A body names everything on create; its train is checked before any read. *)
create(e, r, form) ==
    /\ appVersion[r] = NoAppVersion
    /\ \A d \in Editor : edit[d].row # r
    /\ form.platform # Absent /\ form.version # Absent
    /\ TrainAccepted(form.platform, form.deviceOs)
    /\ Begin(e, "create", r, form)

update(e, r, form) ==
    /\ appVersion[r] # NoAppVersion
    /\ isReleaseTrainAffected(form) =>
            TrainAccepted(Given(form.platform, appVersion[r].platform), form.deviceOs)
    /\ Begin(e, "update", r, form)

deleteVersion(e, r) ==
    /\ appVersion[r] # NoAppVersion
    /\ Begin(e, "remove", r, NoAppVersion)

End(e) == edit' = [edit EXCEPT ![e] = IdleEdit]

(* mutant: the version of the body alone is compared. *)
Clashes_BodyOnly(e) ==
    edit[e].form.version # Absent /\ \E r \in AppRelease \ {edit[e].row} : appVersion[r] = Written(e)

Clashes(e) == \E r \in AppRelease \ {edit[e].row} : appVersion[r] = Written(e)

(* One SELECT; a clash is a 409. *)
assertVersionAvailable(e) ==
    /\ edit[e].step = "check"
    /\ IF Clashes(e) THEN End(e) ELSE edit' = [edit EXCEPT ![e].step = "write"]
    /\ UNCHANGED <<appVersion, edits, overlapped>>

(* The columns the statement sets, over the row as it is by now. *)
Stored(e) ==
    IF edit[e].kind = "create" THEN Written(e)
    ELSE LET now == appVersion[edit[e].row]
         IN  [platform |-> Given(edit[e].form.platform, now.platform),
              deviceOs |-> IF isReleaseTrainAffected(edit[e].form) THEN Written(e).deviceOs
                           ELSE now.deviceOs,
              version |-> Given(edit[e].form.version, now.version)]

(* @@unique([platform, deviceOs, version]); NULLs are distinct. *)
UniqueIndexRefuses(e) ==
    /\ Stored(e).deviceOs # Absent
    /\ \E r \in AppRelease \ {edit[e].row} : appVersion[r] = Stored(e)

(* INSERT or UPDATE: refused by the index, or by a row that is gone. *)
Write(e) ==
    LET r == edit[e].row
        gone == edit[e].kind = "update" /\ appVersion[r] = NoAppVersion
    IN  /\ edit[e].step = "write" /\ edit[e].kind # "remove"
        /\ IF gone \/ UniqueIndexRefuses(e)
           THEN UNCHANGED <<appVersion, overlapped>>
           ELSE /\ appVersion' = [appVersion EXCEPT ![r] = Stored(e)]
                /\ overlapped' = IF edit[e].crossed THEN overlapped \union {r} ELSE overlapped
        /\ End(e)
        /\ UNCHANGED edits

Delete(e) ==
    /\ edit[e].step = "write" /\ edit[e].kind = "remove"
    /\ appVersion' = [appVersion EXCEPT ![edit[e].row] = NoAppVersion]
    /\ overlapped' = overlapped \ {edit[e].row}
    /\ End(e)
    /\ UNCHANGED edits

AppVersionsNext ==
    \E e \in Editor :
        \/ \E r \in AppRelease :
            \/ \E form \in Forms : create(e, r, form) \/ update(e, r, form)
            \/ deleteVersion(e, r)
        \/ assertVersionAvailable(e) \/ Write(e) \/ Delete(e)

AppVersionsSpec == AppVersionsInit /\ [][AppVersionsNext]_appVersionVars

----------------------------------------------------------------------------
(* Properties *)

Trains == UNION {{p} \X (IF TrainOs[p] = {} THEN {Absent} ELSE TrainOs[p]) : p \in Platform}

(* A row "no client ever matches" (a pairing that is no train) takes two   *)
(* requests that overlap: alone, no sequence of creates and partial        *)
(* updates makes one. "The unique index is the hard backstop everywhere it *)
(* applies": two rows of one train with one version need overlapping       *)
(* requests too, and a row without an operating system.                    *)
OneRowPerRelease ==
    \A r \in AppRelease : appVersion[r] # NoAppVersion =>
        /\ <<appVersion[r].platform, appVersion[r].deviceOs>> \in Trains \/ r \in overlapped
        /\ \A q \in AppRelease : r # q /\ appVersion[r] = appVersion[q] =>
               appVersion[r].deviceOs = Absent /\ (r \in overlapped \/ q \in overlapped)
=============================================================================
