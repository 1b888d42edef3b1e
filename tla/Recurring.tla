------------------------------ MODULE Recurring ------------------------------
(***************************************************************************)
(* The recurring schedules in Redis and the worker processes that bring    *)
(* them in line with what their release declares, one command after the    *)
(* other, when they start (RecurringScheduleInstaller). During a deploy    *)
(* workers of two releases do so at the same time. API processes never do. *)
(***************************************************************************)
EXTENDS FiniteSets, Naturals

CONSTANTS
    Scheduler,      \* scheduler ids
    Release, NoRelease,
    Declared,       \* RECURRING_SCHEDULES of each release
    Installer,      \* worker processes
    MaxBoots        \* bound: the starts of worker processes

ASSUME RecurringAssumption ==
    /\ Declared \in [Release -> SUBSET Scheduler]
    /\ MaxBoots \in Nat

VARIABLES
    installed,      \* the schedulers in Redis
    installer,      \* where each worker's installation is
    boots,          \* bound: MaxBoots
    authority       \* history: the release that last installed undisturbed

recurringVars == <<installed, installer, boots, authority>>

IdleInstaller == [step |-> "idle", release |-> NoRelease, todo |-> {}, alone |-> FALSE]

RecurringTypeOK ==
    /\ installed \subseteq Scheduler
    /\ installer \in [Installer -> [step : {"idle", "upsert", "remove"},
                                    release : Release \union {NoRelease},
                                    todo : SUBSET Scheduler,
                                    alone : BOOLEAN]]   \* history
    /\ boots \in 0 .. MaxBoots
    /\ authority \in Release \union {NoRelease}

(* Redis holds whatever earlier releases left. *)
RecurringInit ==
    /\ installed \in SUBSET Scheduler
    /\ installer = [i \in Installer |-> IdleInstaller]
    /\ boots = 0
    /\ authority = NoRelease

Installing(r) == \E i \in Installer : installer[i].step # "idle" /\ installer[i].release = r

(* A worker of some release starts. Installations of other releases that   *)
(* are under way, and the order they left, are disturbed (history).        *)
onApplicationBootstrap(i, r) ==
    /\ installer[i].step = "idle"
    /\ boots < MaxBoots
    /\ boots' = boots + 1
    /\ installer' = [k \in Installer |->
            IF k = i
            THEN [step |-> "upsert", release |-> r, todo |-> Declared[r],
                  alone |-> \A q \in Release \ {r} : ~Installing(q)]
            ELSE [installer[k] EXCEPT !.alone = @ /\ installer[k].release = r]]
    /\ authority' = IF authority = r THEN r ELSE NoRelease
    /\ UNCHANGED installed

upsertRecurringSchedule(i, s) ==
    /\ installer[i].step = "upsert"
    /\ s \in installer[i].todo
    /\ installed' = installed \union {s}
    /\ installer' = [installer EXCEPT ![i].todo = @ \ {s}]
    /\ UNCHANGED <<boots, authority>>

(* mutant: what is in Redis and no longer declared is left there. *)
Undeclared_None(r) == {}

Undeclared(r) == installed \ Declared[r]

(* removeUndeclaredSchedules works through the list it read. *)
listRecurringScheduleIds(i) ==
    /\ installer[i].step = "upsert" /\ installer[i].todo = {}
    /\ installer' = [installer EXCEPT ![i].step = "remove",
                                      ![i].todo = Undeclared(installer[i].release)]
    /\ UNCHANGED <<installed, boots, authority>>

removeRecurringSchedule(i, s) ==
    /\ installer[i].step = "remove"
    /\ s \in installer[i].todo
    /\ installed' = installed \ {s}
    /\ installer' = [installer EXCEPT ![i].todo = @ \ {s}]
    /\ UNCHANGED <<boots, authority>>

InstallEnds(i) ==
    /\ installer[i].step = "remove" /\ installer[i].todo = {}
    /\ authority' = IF installer[i].alone THEN installer[i].release ELSE authority
    /\ installer' = [installer EXCEPT ![i] = IdleInstaller]
    /\ UNCHANGED <<installed, boots>>

(* A command is rejected or the process stops: nothing tries again before  *)
(* the next start.                                                         *)
InstallFails(i) ==
    /\ installer[i].step # "idle"
    /\ installer' = [installer EXCEPT ![i] = IdleInstaller]
    /\ UNCHANGED <<installed, boots, authority>>

RecurringNext ==
    \E i \in Installer :
        \/ \E r \in Release : onApplicationBootstrap(i, r)
        \/ \E s \in Scheduler : upsertRecurringSchedule(i, s) \/ removeRecurringSchedule(i, s)
        \/ listRecurringScheduleIds(i) \/ InstallEnds(i) \/ InstallFails(i)

RecurringSpec == RecurringInit /\ [][RecurringNext]_recurringVars

----------------------------------------------------------------------------
(* "reconciliation makes the RUNNING release authoritative": once a worker *)
(* has installed without one of another release in between, Redis holds    *)
(* exactly what its release declares, and goes on doing so while workers   *)
(* of that release come, install together, fail and go, whatever failed    *)
(* or interleaved before.                                                  *)
RegistryIsAuthoritative ==
    authority # NoRelease => installed = Declared[authority]
=============================================================================
