------------------------------ MODULE Reschedule ------------------------------
(***************************************************************************)
(* Superseding a pending job of one entity (QueueProducerService.reschedule *)
(* and cancelPending). The job of schedule version v has an id of its own, *)
(* so a job is named by its version. Every Redis call is a step that may   *)
(* fail; several callers, a worker and an operator act in between.         *)
(***************************************************************************)
EXTENDS Naturals

CONSTANTS
    Caller,
    MaxVersion      \* bound: the reschedules of the entity

ASSUME RescheduleAssumption == MaxVersion \in Nat

VARIABLES
    version,        \* the schedule version in the domain row
    scheduled,      \* the state of each version's job in Redis
    caller,         \* the calls of reschedule under way
    consumed        \* history: a job was started, or cancelled by an operator

rescheduleVars == <<version, scheduled, caller, consumed>>

Version == 0 .. MaxVersion

IdleCaller == [step |-> "idle", new |-> 0, previous |-> 0]

RescheduleTypeOK ==
    /\ version \in Version
    /\ scheduled \in [Version -> {"none", "pending", "active", "finished"}]
    /\ caller \in [Caller -> [step : {"idle", "enqueue", "getJob", "getState", "remove"},
                              new : Version, previous : Version]]
    /\ consumed \in BOOLEAN

RescheduleInit ==
    /\ version = 0
    /\ scheduled = [v \in Version |-> IF v = 0 THEN "pending" ELSE "none"]
    /\ caller = [c \in Caller |-> IdleCaller]
    /\ consumed = FALSE

At(c, step) == caller[c].step = step
GoOn(c, step) == caller' = [caller EXCEPT ![c].step = step]
Done(c) == caller' = [caller EXCEPT ![c] = IdleCaller]

(* mutant: a replacement under the id of the job it replaces. *)
IdsDiffer_Unchecked(new, previous) == TRUE

(* The refusal at the head of reschedule. *)
IdsDiffer(new, previous) == new # previous

(* The caller has bumped the domain row's version first, as it must, or    *)
(* has forgotten to.                                                       *)
reschedule(c) ==
    /\ At(c, "idle")
    /\ version' \in {version, version + 1} \intersect Version
    /\ caller' = IF IdsDiffer(version', version)
                 THEN [caller EXCEPT ![c] = [step |-> "enqueue", new |-> version',
                                             previous |-> version]]
                 ELSE caller
    /\ UNCHANGED <<scheduled, consumed>>

(* queue.add under an id that exists already changes nothing. *)
enqueueAt(c) ==
    /\ At(c, "enqueue")
    /\ scheduled' = [scheduled EXCEPT ![caller[c].new] = IF @ = "none" THEN "pending" ELSE @]
    /\ GoOn(c, "getJob")
    /\ UNCHANGED <<version, consumed>>

getJob(c) ==
    /\ At(c, "getJob")
    /\ IF scheduled[caller[c].previous] = "none" THEN Done(c) ELSE GoOn(c, "getState")
    /\ UNCHANGED <<version, scheduled, consumed>>

(* CANCELLABLE_JOB_STATES; a job that is gone meanwhile is "unknown". *)
getState(c) ==
    /\ At(c, "getState")
    /\ IF scheduled[caller[c].previous] = "pending" THEN GoOn(c, "remove") ELSE Done(c)
    /\ UNCHANGED <<version, scheduled, consumed>>

(* remove() refuses a locked job only: one that has finished since is deleted. *)
remove(c) ==
    /\ At(c, "remove")
    /\ scheduled' = [scheduled EXCEPT ![caller[c].previous] =
                        IF @ = "active" THEN "active" ELSE "none"]
    /\ Done(c)
    /\ UNCHANGED <<version, consumed>>

(* Any of the calls is rejected, or the process dies. *)
RescheduleFails(c) ==
    /\ ~At(c, "idle")
    /\ Done(c)
    /\ UNCHANGED <<version, scheduled, consumed>>

StartJob(v) ==
    /\ scheduled[v] = "pending"
    /\ scheduled' = [scheduled EXCEPT ![v] = "active"]
    /\ consumed' = TRUE
    /\ UNCHANGED <<version, caller>>

(* It completes or fails for good, or waits for its next attempt. *)
EndJob(v) ==
    /\ scheduled[v] = "active"
    /\ \E s \in {"finished", "pending"} : scheduled' = [scheduled EXCEPT ![v] = s]
    /\ UNCHANGED <<version, caller, consumed>>

(* An operator removes a job that is not running, or retention does. *)
Discard(v) ==
    /\ scheduled[v] \in {"pending", "finished"}
    /\ scheduled' = [scheduled EXCEPT ![v] = "none"]
    /\ consumed' = TRUE
    /\ UNCHANGED <<version, caller>>

RescheduleNext ==
    \/ \E c \in Caller :
        \/ reschedule(c) \/ enqueueAt(c) \/ getJob(c) \/ getState(c) \/ remove(c)
        \/ RescheduleFails(c)
    \/ \E v \in Version : StartJob(v) \/ EndJob(v) \/ Discard(v)

RescheduleSpec == RescheduleInit /\ [][RescheduleNext]_rescheduleVars

----------------------------------------------------------------------------
(* "A duplicate is recoverable; a lost job is not": until a worker starts  *)
(* a job of the entity, or an operator removes one, one is pending,        *)
(* whatever calls fail half-way and however reschedules overtake one       *)
(* another.                                                                *)
NeverJobless == ~consumed => \E v \in Version : scheduled[v] = "pending"
=============================================================================
