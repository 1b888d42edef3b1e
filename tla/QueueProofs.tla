---------------------------- MODULE QueueProofs ----------------------------
(***************************************************************************)
(* Proofs about Recurring, Reschedule and Delivery: for any schedules,     *)
(* releases, workers and callers, the release that installs undisturbed    *)
(* decides what recurs, a rescheduled entity is never left without a job,  *)
(* and a destination's mail stays within its limit whatever is retried,    *)
(* stalls, hangs or is cut off by a shutdown.                              *)
(***************************************************************************)
EXTENDS Recurring, Reschedule, Delivery, FiniteSetTheorems, TLAPS

(* Recurring: the releases of the installations under way. An undisturbed  *)
(* one, and the registry it left, has only its own release around it.      *)
OneRelease ==
    /\ \A i, k \in Installer :
           installer[i].alone /\ installer[k].step # "idle"
               => installer[k].release = installer[i].release
    /\ \A k \in Installer :
           authority # NoRelease /\ installer[k].step # "idle"
               => installer[k].release = authority

(* What is still to be added is declared, what is to be removed is not.    *)
TodoOK ==
    \A i \in Installer :
        /\ installer[i].step = "upsert" =>
               installer[i].todo \subseteq Declared[installer[i].release]
        /\ installer[i].step = "remove" =>
               installer[i].todo \intersect Declared[installer[i].release] = {}

(* An installation under way is of some release. *)
RunningOK == \A i \in Installer : installer[i].step # "idle" => installer[i].release \in Release

(* How far an undisturbed installation has come.                           *)
AloneOK ==
    \A i \in Installer : installer[i].alone =>
        /\ installer[i].step = "upsert" =>
               Declared[installer[i].release] \ installer[i].todo \subseteq installed
        /\ installer[i].step = "remove" =>
               /\ Declared[installer[i].release] \subseteq installed
               /\ installed \ Declared[installer[i].release] \subseteq installer[i].todo

RecurringIInv ==
    /\ RecurringTypeOK
    /\ OneRelease
    /\ RunningOK
    /\ TodoOK
    /\ AloneOK
    /\ RegistryIsAuthoritative

LEMMA RecurringInitIInv == RecurringInit => RecurringIInv
BY RecurringAssumption
   DEF RecurringInit, RecurringIInv, RecurringTypeOK, OneRelease, RunningOK, TodoOK, AloneOK,
       RegistryIsAuthoritative, IdleInstaller

LEMMA RecurringNextIInv == RecurringIInv /\ [RecurringNext]_recurringVars => RecurringIInv'
<1> SUFFICES ASSUME RecurringIInv, [RecurringNext]_recurringVars
             PROVE  RecurringIInv'
  OBVIOUS
<1> USE RecurringAssumption DEF RecurringIInv
<1>1. ASSUME NEW i \in Installer, NEW r \in Release, onApplicationBootstrap(i, r)
      PROVE  RecurringIInv'
  <2> DEFINE undisturbed == \A q \in Release \ {r} : ~Installing(q)
             stays(k) == installer[k].alone /\ installer[k].release = r
  <2>a. undisturbed \in BOOLEAN /\ \A k \in Installer : stays(k) \in BOOLEAN
    OBVIOUS
  <2>b. installer' = [k \in Installer |->
            IF k = i THEN [step |-> "upsert", release |-> r, todo |-> Declared[r],
                           alone |-> undisturbed]
            ELSE [installer[k] EXCEPT !.alone = stays(k)]]
    BY <1>1 DEF onApplicationBootstrap
  <2> HIDE DEF undisturbed, stays
  <2>1. RecurringTypeOK'
    BY <1>1, <2>a, <2>b DEF onApplicationBootstrap, RecurringTypeOK
  <2>2. /\ installer'[i] = [step |-> "upsert", release |-> r, todo |-> Declared[r],
                            alone |-> undisturbed]
        /\ \A k \in Installer \ {i} :
              /\ installer'[k].step = installer[k].step
              /\ installer'[k].release = installer[k].release
              /\ installer'[k].todo = installer[k].todo
              /\ installer'[k].alone => installer[k].alone /\ installer[k].release = r
        /\ installed' = installed
    <3>1. ASSUME NEW k \in Installer \ {i}
          PROVE  /\ installer'[k] = [installer[k] EXCEPT !.alone = stays(k)]
                 /\ installer'[k].alone = stays(k)
      BY <2>b DEF RecurringTypeOK
    <3>2. ASSUME NEW k \in Installer \ {i}, installer'[k].alone
          PROVE  installer[k].alone /\ installer[k].release = r
      <4>1. stays(k)
        BY <3>1, <3>2
      <4> QED
        BY <4>1 DEF stays
    <3>3. ASSUME NEW k \in Installer \ {i}
          PROVE  /\ installer'[k].step = installer[k].step
                 /\ installer'[k].release = installer[k].release
                 /\ installer'[k].todo = installer[k].todo
      <4>1. installer[k] \in [step : {"idle", "upsert", "remove"},
                              release : Release \union {NoRelease},
                              todo : SUBSET Scheduler, alone : BOOLEAN]
        BY DEF RecurringTypeOK
      <4>2. installer'[k] = [installer[k] EXCEPT !.alone = stays(k)]
        BY <3>1
      <4> QED
        BY <4>1, <4>2
    <3>4. installer'[i] = [step |-> "upsert", release |-> r, todo |-> Declared[r],
                           alone |-> undisturbed]
      BY <2>b
    <3> QED
      BY <1>1, <3>2, <3>3, <3>4 DEF onApplicationBootstrap
  <2>3. OneRelease'
    <3>1. ASSUME NEW j \in Installer, NEW k \in Installer,
                 installer'[j].alone, installer'[k].step # "idle"
          PROVE  installer'[k].release = installer'[j].release
      <4>1. installer'[j].release = r
        BY <2>2, <3>1
      <4>2. CASE k = i
        BY <2>2, <4>1, <4>2
      <4>3. CASE k # i /\ j = i
        <5>1. \A q \in Release \ {r} : ~Installing(q)
          BY <2>2, <3>1, <4>3 DEF undisturbed
        <5>2. installer[k].step # "idle" /\ installer[k].release \in Release
          BY <2>2, <3>1, <4>3 DEF RecurringTypeOK, RunningOK
        <5> QED
          BY <2>2, <4>1, <4>3, <5>1, <5>2 DEF Installing
      <4>4. CASE k # i /\ j # i
        BY <2>2, <3>1, <4>1, <4>4 DEF OneRelease
      <4> QED
        BY <4>2, <4>3, <4>4
    <3>2. ASSUME NEW k \in Installer, authority' # NoRelease, installer'[k].step # "idle"
          PROVE  installer'[k].release = authority'
      BY <1>1, <2>2, <3>2 DEF onApplicationBootstrap, OneRelease
    <3> QED
      BY <3>1, <3>2 DEF OneRelease
  <2>5. TodoOK' /\ RunningOK'
    BY <2>2 DEF TodoOK, RunningOK
  <2>6. AloneOK'
    BY <2>2 DEF AloneOK
  <2>4. RegistryIsAuthoritative'
    BY <1>1 DEF onApplicationBootstrap, RegistryIsAuthoritative
  <2> QED
    BY <2>1, <2>3, <2>4, <2>5, <2>6
<1>2. ASSUME NEW i \in Installer, NEW s \in Scheduler, upsertRecurringSchedule(i, s)
      PROVE  RecurringIInv'
  <2>1. RecurringTypeOK'
    BY <1>2 DEF upsertRecurringSchedule, RecurringTypeOK
  <2>2. OneRelease' /\ RunningOK' /\ TodoOK'
    BY <1>2 DEF upsertRecurringSchedule, RecurringTypeOK, OneRelease, RunningOK, TodoOK
  <2>3. s \in Declared[installer[i].release]
    BY <1>2 DEF upsertRecurringSchedule, TodoOK
  <2>4. AloneOK'
    BY <1>2, <2>3 DEF upsertRecurringSchedule, RecurringTypeOK, OneRelease, AloneOK
  <2>5. RegistryIsAuthoritative'
    BY <1>2, <2>3 DEF upsertRecurringSchedule, OneRelease, RegistryIsAuthoritative
  <2> QED
    BY <2>1, <2>2, <2>4, <2>5
<1>3. ASSUME NEW i \in Installer, NEW s \in Scheduler, removeRecurringSchedule(i, s)
      PROVE  RecurringIInv'
  <2>1. RecurringTypeOK'
    BY <1>3 DEF removeRecurringSchedule, RecurringTypeOK
  <2>2. OneRelease' /\ RunningOK' /\ TodoOK'
    BY <1>3 DEF removeRecurringSchedule, RecurringTypeOK, OneRelease, RunningOK, TodoOK
  <2>3. s \notin Declared[installer[i].release]
    BY <1>3 DEF removeRecurringSchedule, TodoOK
  <2>4. AloneOK'
    BY <1>3, <2>3 DEF removeRecurringSchedule, RecurringTypeOK, OneRelease, AloneOK
  <2>5. RegistryIsAuthoritative'
    BY <1>3, <2>3 DEF removeRecurringSchedule, OneRelease, RegistryIsAuthoritative
  <2> QED
    BY <2>1, <2>2, <2>4, <2>5
<1>4. ASSUME NEW i \in Installer, listRecurringScheduleIds(i)
      PROVE  RecurringIInv'
  <2>1. RecurringTypeOK'
    BY <1>4 DEF listRecurringScheduleIds, Undeclared, RecurringTypeOK
  <2>2. /\ installer'[i].step = "remove" /\ installer[i].step = "upsert"
        /\ installer[i].todo = {}
        /\ installer'[i].todo = installed \ Declared[installer[i].release]
        /\ \A k \in Installer : /\ installer'[k].release = installer[k].release
                                /\ installer'[k].alone = installer[k].alone
                                /\ k # i => installer'[k] = installer[k]
        /\ UNCHANGED <<installed, authority>>
    BY <1>4 DEF listRecurringScheduleIds, Undeclared, RecurringTypeOK
  <2>3. OneRelease' /\ RunningOK'
    BY <2>2 DEF OneRelease, RunningOK
  <2>4. TodoOK' /\ AloneOK'
    BY <2>2 DEF TodoOK, AloneOK
  <2>5. RegistryIsAuthoritative'
    BY <2>2 DEF RegistryIsAuthoritative
  <2> QED
    BY <2>1, <2>3, <2>4, <2>5
<1>5. ASSUME NEW i \in Installer, InstallEnds(i)
      PROVE  RecurringIInv'
  <2>1. RecurringTypeOK'
    BY <1>5 DEF InstallEnds, RecurringTypeOK, IdleInstaller
  <2>2. OneRelease'
    BY <1>5 DEF InstallEnds, RecurringTypeOK, OneRelease, IdleInstaller
  <2>3. TodoOK' /\ AloneOK' /\ RunningOK'
    BY <1>5 DEF InstallEnds, RecurringTypeOK, TodoOK, AloneOK, RunningOK, IdleInstaller
  <2>4. installer[i].alone => installed = Declared[installer[i].release]
    BY <1>5 DEF InstallEnds, AloneOK
  <2>5. RegistryIsAuthoritative'
    BY <1>5, <2>4 DEF InstallEnds, RegistryIsAuthoritative
  <2> QED
    BY <2>1, <2>2, <2>3, <2>5
<1>6. ASSUME NEW i \in Installer, InstallFails(i)
      PROVE  RecurringIInv'
  BY <1>6 DEF InstallFails, RecurringTypeOK, OneRelease, RunningOK, TodoOK, AloneOK,
              RegistryIsAuthoritative, IdleInstaller
<1>7. CASE UNCHANGED recurringVars
  BY <1>7 DEF recurringVars, RecurringTypeOK, OneRelease, RunningOK, TodoOK, AloneOK,
              RegistryIsAuthoritative
<1> QED
  BY <1>1, <1>2, <1>3, <1>4, <1>5, <1>6, <1>7 DEF RecurringNext

(* The release that installed last without one of another release in       *)
(* between decides what recurs, for any number of workers, schedules and   *)
(* releases (recurring-schedule.installer.ts).                             *)
THEOREM RegistryAuthority == RecurringSpec => [](RecurringTypeOK /\ RegistryIsAuthoritative)
<1>1. RecurringIInv => RecurringTypeOK /\ RegistryIsAuthoritative
  BY DEF RecurringIInv
<1> QED
  BY <1>1, RecurringInitIInv, RecurringNextIInv, PTL DEF RecurringSpec

----------------------------------------------------------------------------
(* Reschedule: a caller that may remove the superseded job has seen a      *)
(* newer one enqueued, and removals only ever reach older versions.        *)
NewerPending ==
    \A c \in Caller :
        /\ caller[c].step # "idle" => caller[c].previous < caller[c].new
        /\ ~consumed /\ caller[c].step \in {"getJob", "getState", "remove"} =>
               \E v \in Version : caller[c].new <= v /\ scheduled[v] = "pending"

(* Until one is started or removed by an operator, jobs only wait.         *)
OnlyWaiting == ~consumed => \A v \in Version : scheduled[v] \in {"none", "pending"}

RescheduleIInv ==
    /\ RescheduleTypeOK
    /\ NewerPending
    /\ OnlyWaiting
    /\ NeverJobless

LEMMA RescheduleInitIInv == RescheduleInit => RescheduleIInv
<1> SUFFICES ASSUME RescheduleInit
             PROVE  RescheduleIInv
  OBVIOUS
<1>1. 0 \in Version
  BY RescheduleAssumption DEF Version
<1>2. RescheduleTypeOK
  BY <1>1 DEF RescheduleInit, RescheduleTypeOK, IdleCaller
<1>3. \A c \in Caller : caller[c].step = "idle"
  BY DEF RescheduleInit, IdleCaller
<1>4. NewerPending
  BY <1>3 DEF NewerPending
<1>5. OnlyWaiting /\ NeverJobless
  BY <1>1 DEF RescheduleInit, OnlyWaiting, NeverJobless
<1> QED
  BY <1>2, <1>4, <1>5 DEF RescheduleIInv

(* The steps that only move a caller. *)
LEMMA CallerMoves ==
    ASSUME RescheduleIInv, NEW c \in Caller, UNCHANGED <<scheduled, consumed>>,
           \/ getJob(c) \/ getState(c) \/ RescheduleFails(c)
           \/ reschedule(c)
    PROVE  RescheduleIInv'
<1> USE DEF RescheduleIInv
<1>1. CASE getJob(c) \/ getState(c) \/ RescheduleFails(c)
  <2>1. /\ version' = version
        /\ \/ caller' = [caller EXCEPT ![c] = IdleCaller]
           \/ /\ caller[c].step \in {"getJob", "getState"}
              /\ \E s \in {"getState", "remove"} : caller' = [caller EXCEPT ![c].step = s]
    BY <1>1 DEF getJob, getState, RescheduleFails, At, GoOn, Done
  <2>2. IdleCaller.step = "idle" /\ IdleCaller.new \in Version /\ IdleCaller.previous \in Version
    BY RescheduleAssumption DEF IdleCaller, Version
  <2>3. CASE caller' = [caller EXCEPT ![c] = IdleCaller]
    <3>1. RescheduleTypeOK'
      BY <2>1, <2>2, <2>3 DEF RescheduleTypeOK, IdleCaller
    <3>2. NewerPending'
      BY <2>2, <2>3 DEF RescheduleTypeOK, NewerPending
    <3> QED
      BY <3>1, <3>2 DEF OnlyWaiting, NeverJobless
  <2>4. ASSUME NEW s \in {"getState", "remove"}, caller[c].step \in {"getJob", "getState"},
               caller' = [caller EXCEPT ![c].step = s]
        PROVE  RescheduleIInv'
    <3>1. RescheduleTypeOK'
      BY <2>1, <2>4 DEF RescheduleTypeOK
    <3>2. NewerPending'
      BY <2>4 DEF RescheduleTypeOK, NewerPending
    <3> QED
      BY <3>1, <3>2 DEF OnlyWaiting, NeverJobless
  <2> QED
    BY <2>1, <2>3, <2>4
<1>2. CASE reschedule(c)
  <2>1. version \in Version /\ version' \in Version /\ version' \in {version, version + 1}
    BY <1>2 DEF reschedule, RescheduleTypeOK
  <2>2. \/ caller' = caller
        \/ /\ version' # version
           /\ caller' = [caller EXCEPT ![c] = [step |-> "enqueue", new |-> version',
                                               previous |-> version]]
    BY <1>2 DEF reschedule, IdsDiffer
  <2>3. version' # version => version < version'
    BY <2>1 DEF Version
  <2>4. RescheduleTypeOK'
    BY <2>1, <2>2 DEF RescheduleTypeOK
  <2>5. NewerPending'
    BY <2>2, <2>3 DEF RescheduleTypeOK, NewerPending
  <2> QED
    BY <2>4, <2>5 DEF OnlyWaiting, NeverJobless
<1> QED
  BY <1>1, <1>2

LEMMA RescheduleNextIInv == RescheduleIInv /\ [RescheduleNext]_rescheduleVars => RescheduleIInv'
<1> SUFFICES ASSUME RescheduleIInv, [RescheduleNext]_rescheduleVars
             PROVE  RescheduleIInv'
  OBVIOUS
<1> USE RescheduleAssumption DEF RescheduleIInv, Version
<1>1. ASSUME NEW c \in Caller,
             getJob(c) \/ getState(c) \/ RescheduleFails(c) \/ reschedule(c)
      PROVE  RescheduleIInv'
  BY <1>1, CallerMoves DEF getJob, getState, RescheduleFails, reschedule
<1>2. ASSUME NEW c \in Caller, enqueueAt(c)
      PROVE  RescheduleIInv'
  <2>1. RescheduleTypeOK'
    BY <1>2 DEF enqueueAt, RescheduleTypeOK, At, GoOn
  <2>2. /\ caller[c].new \in Version
        /\ ~consumed => scheduled'[caller[c].new] = "pending"
        /\ \A v \in Version : scheduled[v] = "pending" => scheduled'[v] = "pending"
    BY <1>2 DEF enqueueAt, RescheduleTypeOK, OnlyWaiting, At
  <2>3. NewerPending'
    BY <1>2, <2>2 DEF enqueueAt, RescheduleTypeOK, NewerPending, At, GoOn
  <2>4. OnlyWaiting' /\ NeverJobless'
    BY <1>2, <2>2 DEF enqueueAt, RescheduleTypeOK, OnlyWaiting, NeverJobless
  <2> QED
    BY <2>1, <2>3, <2>4
<1>3. ASSUME NEW c \in Caller, remove(c)
      PROVE  RescheduleIInv'
  <2>1. RescheduleTypeOK'
    BY <1>3 DEF remove, RescheduleTypeOK, Done, IdleCaller
  <2>2. /\ caller[c].previous < caller[c].new
        /\ caller[c].previous \in Version /\ caller[c].new \in Version
        /\ \A v \in Version : v # caller[c].previous => scheduled'[v] = scheduled[v]
    BY <1>3 DEF remove, RescheduleTypeOK, NewerPending, At
  <2>3. ASSUME ~consumed
        PROVE  \E v \in Version : caller[c].new <= v /\ scheduled[v] = "pending"
    BY <1>3, <2>3 DEF remove, NewerPending, At
  <2>4. ASSUME NEW d \in Caller, ~consumed, caller'[d].step \in {"getJob", "getState", "remove"}
        PROVE  \E v \in Version : caller'[d].new <= v /\ scheduled'[v] = "pending"
    <3>1. caller'[d] = caller[d]
      BY <1>3, <2>4 DEF remove, Done, IdleCaller, RescheduleTypeOK
    <3>2. PICK v \in Version : caller[d].new <= v /\ scheduled[v] = "pending"
      BY <2>4, <3>1 DEF NewerPending
    <3>3. PICK w \in Version : caller[c].new <= w /\ scheduled[w] = "pending"
      BY <2>3, <2>4
    <3>4. CASE v # caller[c].previous
      BY <2>2, <3>1, <3>2, <3>4
    <3>5. CASE v = caller[c].previous
      <4>1. caller[d].new \in Version
        BY DEF RescheduleTypeOK
      <4>2. caller[d].new <= w /\ w # caller[c].previous
        BY <2>2, <3>2, <3>3, <3>5, <4>1
      <4> QED
        BY <2>2, <3>1, <3>3, <4>2
    <3> QED
      BY <3>4, <3>5
  <2>5. ASSUME NEW d \in Caller, caller'[d].step # "idle"
        PROVE  caller'[d].previous < caller'[d].new
    BY <1>3, <2>5 DEF remove, Done, IdleCaller, RescheduleTypeOK, NewerPending
  <2>6. NewerPending' /\ consumed' = consumed
    BY <1>3, <2>4, <2>5 DEF NewerPending, remove
  <2>7. OnlyWaiting'
    BY <1>3, <2>2 DEF remove, OnlyWaiting, RescheduleTypeOK
  <2>8. NeverJobless'
    BY <2>2, <2>3, <2>6 DEF NeverJobless
  <2> QED
    BY <2>1, <2>6, <2>7, <2>8
<1>4. ASSUME NEW v \in Version, StartJob(v) \/ Discard(v)
      PROVE  RescheduleIInv'
  BY <1>4 DEF StartJob, Discard, RescheduleTypeOK, NewerPending, OnlyWaiting, NeverJobless
<1>5. ASSUME NEW v \in Version, EndJob(v)
      PROVE  RescheduleIInv'
  <2>1. consumed
    BY <1>5 DEF EndJob, OnlyWaiting
  <2> QED
    BY <1>5, <2>1 DEF EndJob, RescheduleTypeOK, NewerPending, OnlyWaiting, NeverJobless
<1>6. CASE UNCHANGED rescheduleVars
  BY <1>6 DEF rescheduleVars, RescheduleTypeOK, NewerPending, OnlyWaiting, NeverJobless
<1> QED
  BY <1>1, <1>2, <1>3, <1>4, <1>5, <1>6 DEF RescheduleNext

(* Whatever calls of reschedule fail half-way or overtake one another, and *)
(* however many there are, the entity is never left without a pending job  *)
(* (queue-producer.service.ts: enqueue before cancel).                     *)
THEOREM NoJobLost == RescheduleSpec => [](RescheduleTypeOK /\ NeverJobless)
<1>1. RescheduleIInv => RescheduleTypeOK /\ NeverJobless
  BY DEF RescheduleIInv
<1> QED
  BY <1>1, RescheduleInitIInv, RescheduleNextIInv, PTL DEF RescheduleSpec

----------------------------------------------------------------------------
(* Delivery: the types, without the bounds of a run. *)
QueuedJob ==
    [state : {"none", "waiting", "delayed", "active", "completed", "failed", "removed"},
     readable : BOOLEAN, attemptsMade : Nat, stalls : Nat,
     lock : Slot \union {NoSlot}, event : {"none", "RETRIED", "FAILED"}]

SlotWork ==
    [job : Job \union {NoJob},
     step : {"idle", "started", "sending", "hung", "releasing", "reporting"},
     attempt : Nat, reserved : BOOLEAN,
     outcome : {"none", "done", "RETRIED", "FAILED"}, permanent : BOOLEAN,
     own : BOOLEAN, delivered : BOOLEAN]

DeliveryTypes ==
    /\ job \in [Job -> QueuedJob]
    /\ slot \in [Slot -> SlotWork]
    /\ worker \in [Worker -> {"down", "up", "draining", "closing"}]
    /\ counter \in [exists : BOOLEAN, count : Int, expires : BOOLEAN]
    /\ window \in [sent : Nat, credit : Nat]
    /\ mishaps \in Nat

(* A slot works on a job, and while it holds the lock on the job's next     *)
(* attempt; what it will report is what BullMQ will decide.                 *)
AttemptInv ==
    /\ \A s \in Slot : Running(s) =>
           /\ slot[s].job \in Job
           /\ job[slot[s].job].lock = s => slot[s].attempt = job[slot[s].job].attemptsMade + 1
    /\ \A s \in Slot : slot[s].step = "reporting" =>
           /\ slot[s].outcome # "none"
           /\ slot[s].outcome = "RETRIED" => willRetry(s)
           /\ slot[s].outcome = "FAILED" => ~willRetry(s)
    /\ \A s \in Slot : slot[s].step \in {"started", "sending", "hung", "releasing"} =>
           ~slot[s].permanent

(* A unit is its window's only while the counter of the window exists. *)
UnitInv ==
    /\ \A s \in Slot : slot[s].own => slot[s].reserved /\ counter.exists
    /\ \A s \in Slot : slot[s].step \in {"idle", "started"} => ~slot[s].reserved
    /\ ~counter.exists => counter.count = 0

DeliveryIInv == DeliveryTypes /\ AttemptInv /\ UnitInv

(* Units of the open window whose message is not out, or not known to be.   *)
Owed == {s \in Slot :
            /\ slot[s].own
            /\ \/ slot[s].step \in {"sending", "hung"}
               \/ slot[s].step = "releasing" /\ ~slot[s].delivered}

CapInv ==
    /\ window.sent + Cardinality(Owed) <= counter.count + window.credit
    /\ window.sent + Cardinality(Owed) <= Limit + window.credit

(* What is written of a job and of a slot stays a job and a slot. *)
LEMMA JobWrites ==
    ASSUME NEW x \in QueuedJob
    PROVE  /\ \A r \in BOOLEAN : [x EXCEPT !.state = "waiting", !.readable = r] \in QueuedJob
           /\ [x EXCEPT !.state = "waiting"] \in QueuedJob
           /\ \A s \in Slot : [x EXCEPT !.state = "active", !.lock = s] \in QueuedJob
           /\ \A n \in Nat : [x EXCEPT !.state = "waiting", !.stalls = n, !.lock = NoSlot] \in QueuedJob
BY DEF QueuedJob

LEMMA JobEndWrites ==
    ASSUME NEW x \in QueuedJob
    PROVE  /\ \A n \in Nat : [x EXCEPT !.state = "failed", !.stalls = n, !.lock = NoSlot,
                                       !.event = "none"] \in QueuedJob
           /\ \A n \in Nat, e \in {"RETRIED", "FAILED"}, st \in {"failed", "delayed"} :
                  [x EXCEPT !.lock = NoSlot, !.attemptsMade = n, !.event = e,
                            !.state = st] \in QueuedJob
           /\ Gone("completed") \in QueuedJob /\ Gone("removed") \in QueuedJob
           /\ NoRecord \in QueuedJob
BY DEF QueuedJob, Gone, NoRecord

LEMMA SlotWrites ==
    ASSUME NEW x \in SlotWork
    PROVE  /\ \A o \in {"done", "RETRIED", "FAILED"} :
                  [x EXCEPT !.step = "reporting", !.outcome = o] \in SlotWork
           /\ [x EXCEPT !.step = "reporting", !.permanent = TRUE, !.outcome = "FAILED"] \in SlotWork
           /\ [x EXCEPT !.step = "sending"] \in SlotWork
           /\ [x EXCEPT !.step = "hung"] \in SlotWork
           /\ [x EXCEPT !.own = FALSE] \in SlotWork
           /\ \A d \in BOOLEAN : [x EXCEPT !.step = "releasing", !.delivered = d] \in SlotWork
BY DEF SlotWork

LEMMA SlotStarts ==
    /\ \A x \in SlotWork :
           [x EXCEPT !.step = "sending", !.reserved = TRUE, !.own = TRUE] \in SlotWork
    /\ \A j \in Job, n \in Nat :
           [IdleSlot EXCEPT !.job = j, !.step = "started", !.attempt = n] \in SlotWork
    /\ IdleSlot \in SlotWork
BY DEF SlotWork, IdleSlot

(* A job's record under what BullMQ and operators do. *)
LEMMA JobTypes ==
    ASSUME DeliveryIInv, NEW j \in Job,
           enqueue(j) \/ Promote(j) \/ Stall(j) \/ retryFailedJob(j) \/ cancelJob(j)
    PROVE  DeliveryTypes'
<1> USE DEF DeliveryIInv, DeliveryTypes
<1>1. job[j] \in QueuedJob /\ job[j].stalls \in Nat
  BY DEF QueuedJob
<1>2. ASSUME NEW x \in QueuedJob, job' = [job EXCEPT ![j] = x]
      PROVE  job' \in [Job -> QueuedJob]
  BY <1>2
<1>3. Mishap => mishaps' \in Nat
  BY DEF Mishap
<1>4. CASE enqueue(j)
  <2>1. PICK readable \in BOOLEAN :
          job' = [job EXCEPT ![j] = [job[j] EXCEPT !.state = "waiting", !.readable = readable]]
    BY <1>4 DEF enqueue
  <2>2. job' \in [Job -> QueuedJob]
    BY <1>1, <1>2, <2>1, JobWrites
  <2>3. mishaps' \in Nat
    BY <1>3, <1>4 DEF enqueue
  <2> QED
    BY <1>4, <2>2, <2>3 DEF enqueue
<1>5. CASE Promote(j) \/ retryFailedJob(j)
  <2>1. [job[j] EXCEPT !.state = "waiting"] \in QueuedJob
    BY <1>1, JobWrites
  <2> QED
    BY <1>2, <1>3, <1>5, <2>1 DEF Promote, retryFailedJob
<1>6. CASE Stall(j)
  <2>1. MaxStalled + 1 \in Nat /\ job[j].stalls + 1 \in Nat
    BY <1>1, DeliveryAssumption
  <2>2. /\ [job[j] EXCEPT !.state = "failed", !.stalls = MaxStalled + 1, !.lock = NoSlot,
                          !.event = "none"] \in QueuedJob
        /\ [job[j] EXCEPT !.state = "waiting", !.stalls = job[j].stalls + 1,
                          !.lock = NoSlot] \in QueuedJob
    BY <1>1, <2>1, JobWrites, JobEndWrites
  <2>3. PICK x \in QueuedJob : job' = [job EXCEPT ![j] = x]
    <3>1. job' = [job EXCEPT ![j] =
                   IF job[j].stalls >= MaxStalled
                   THEN [job[j] EXCEPT !.state = "failed", !.stalls = MaxStalled + 1,
                                       !.lock = NoSlot, !.event = "none"]
                   ELSE [job[j] EXCEPT !.state = "waiting", !.stalls = job[j].stalls + 1,
                                       !.lock = NoSlot]]
      BY <1>6 DEF Stall
    <3> QED
      BY <2>2, <3>1
  <2>4. mishaps' \in Nat
    BY <1>3, <1>6 DEF Stall
  <2> QED
    BY <1>2, <1>6, <2>3, <2>4 DEF Stall
<1>7. CASE cancelJob(j)
  BY <1>1, <1>2, <1>3, <1>7, JobEndWrites DEF cancelJob
<1> QED
  BY <1>4, <1>5, <1>6, <1>7

(* Every call of a handler, and the report: how the slot goes on. *)
LEMMA HandlerTypes ==
    ASSUME DeliveryIInv, NEW s \in Slot,
           \/ Handle(s) \/ Send(s) \/ SendHangs(s)
           \/ \E delivered \in BOOLEAN : SendThrows(s, delivered)
           \/ release(s) \/ releaseFails(s)
    PROVE  DeliveryTypes'
<1> USE DEF DeliveryIInv, DeliveryTypes
<1>1. /\ slot[s] \in SlotWork
      /\ counter.count \in Int /\ counter.exists \in BOOLEAN /\ counter.expires \in BOOLEAN
      /\ window.sent \in Nat /\ window.credit \in Nat
  OBVIOUS
<1>2. ASSUME NEW x \in SlotWork, slot' = [slot EXCEPT ![s] = x]
      PROVE  slot' \in [Slot -> SlotWork]
  BY <1>2
<1>3. ASSUME Throw(s) \/ Return(s)
      PROVE  slot' \in [Slot -> SlotWork]
  <2>1. PICK o \in {"done", "RETRIED", "FAILED"} :
          slot' = [slot EXCEPT ![s] = [slot[s] EXCEPT !.step = "reporting", !.outcome = o]]
    <3>1. (IF willRetry(s) THEN "RETRIED" ELSE "FAILED") \in {"done", "RETRIED", "FAILED"}
      OBVIOUS
    <3> QED
      BY <1>3, <3>1 DEF Throw, Return
  <2>2. [slot[s] EXCEPT !.step = "reporting", !.outcome = o] \in SlotWork
    BY <1>1, SlotWrites
  <2> QED
    BY <1>2, <2>1, <2>2
<1>4. CASE resolveJobFails(s) \/ SendUncapped(s)
  BY <1>1, <1>2, <1>4, SlotWrites DEF resolveJobFails, SendUncapped
<1>5. CASE NothingToSend(s) \/ releaseFails(s)
  BY <1>3, <1>5 DEF NothingToSend, releaseFails
<1>6. CASE reserve(s)
  <2>1. counter' \in [exists : BOOLEAN, count : Int, expires : BOOLEAN]
    BY <1>1, <1>6 DEF reserve
  <2>2. slot' \in [Slot -> SlotWork]
    BY <1>1, <1>2, <1>3, <1>6, SlotStarts DEF reserve
  <2> QED
    BY <1>6, <2>1, <2>2 DEF reserve
<1>7. CASE Send(s)
  <2>1. window' \in [sent : Nat, credit : Nat]
    <3>1. window' = [window EXCEPT !.sent = window.sent + 1] \/ window' = window
      BY <1>7 DEF Send
    <3>2. window.sent + 1 \in Nat
      BY <1>1
    <3> QED
      BY <3>1, <3>2
  <2> QED
    BY <1>3, <1>7, <2>1 DEF Send
<1>8. CASE SendHangs(s)
  <2>1. [slot[s] EXCEPT !.step = "hung"] \in SlotWork
    BY <1>1, SlotWrites
  <2>2. slot' \in [Slot -> SlotWork]
    BY <1>2, <1>8, <2>1 DEF SendHangs
  <2>3. mishaps' \in Nat
    BY <1>8 DEF SendHangs, Mishap
  <2> QED
    BY <1>8, <2>2, <2>3 DEF SendHangs
<1>9. ASSUME NEW d \in BOOLEAN, SendThrows(s, d)
      PROVE  DeliveryTypes'
  <2>1. window' \in [sent : Nat, credit : Nat]
    <3>1. window' = [window EXCEPT !.sent = window.sent + 1] \/ window' = window
      BY <1>9 DEF SendThrows
    <3>2. window.sent + 1 \in Nat
      BY <1>1
    <3> QED
      BY <3>1, <3>2
  <2>2. slot' \in [Slot -> SlotWork]
    BY <1>1, <1>2, <1>3, <1>9, SlotWrites DEF SendThrows
  <2> QED
    BY <1>9, <2>1, <2>2 DEF SendThrows
<1>10. CASE release(s)
  <2>1. window' \in [sent : Nat, credit : Nat]
    <3>1. window' = [window EXCEPT !.credit = window.credit + 1] \/ window' = window
      BY <1>10 DEF release
    <3>2. window.credit + 1 \in Nat
      BY <1>1
    <3> QED
      BY <3>1, <3>2
  <2>2. counter' \in [exists : BOOLEAN, count : Int, expires : BOOLEAN]
    <3>1. counter' = [counter EXCEPT !.count = counter.count - 1] \/ counter' = counter
      BY <1>10 DEF release, GivenBack
    <3>2. counter.count - 1 \in Int
      BY <1>1
    <3> QED
      BY <3>1, <3>2
  <2> QED
    BY <1>3, <1>10, <2>1, <2>2 DEF release
<1> QED
  BY <1>4, <1>5, <1>6, <1>7, <1>8, <1>9, <1>10 DEF Handle

LEMMA OtherTypes ==
    ASSUME DeliveryIInv,
           \/ \E s \in Slot : (\E j \in Job : Take(s, j)) \/ Report(s)
           \/ \E w \in Worker : Boot(w) \/ shutdown(w) \/ closeContext(w) \/ exitCleanly(w)
                                    \/ exitAnyway(w) \/ Die(w)
           \/ WindowEnds
    PROVE  DeliveryTypes'
<1> USE DEF DeliveryIInv, DeliveryTypes
<1>1. Mishap => mishaps' \in Nat
  BY DEF Mishap
<1>2. ASSUME NEW s \in Slot, NEW j \in Job, Take(s, j)
      PROVE  DeliveryTypes'
  <2>1. job[j] \in QueuedJob /\ job[j].attemptsMade + 1 \in Nat
    BY DEF QueuedJob
  <2>2. [job[j] EXCEPT !.state = "active", !.lock = s] \in QueuedJob
    BY <2>1, JobWrites
  <2>3. [IdleSlot EXCEPT !.job = j, !.step = "started",
                         !.attempt = job[j].attemptsMade + 1] \in SlotWork
    BY <2>1, SlotStarts
  <2> QED
    BY <1>2, <2>2, <2>3 DEF Take
<1>3. ASSUME NEW s \in Slot, Report(s)
      PROVE  DeliveryTypes'
  <2> DEFINE j == slot[s].job
  <2>1. /\ j \in Job /\ job[j] \in QueuedJob /\ job[j].attemptsMade + 1 \in Nat
        /\ slot[s].outcome \in {"done", "RETRIED", "FAILED"}
    BY <1>3 DEF Report, AttemptInv, Running, QueuedJob, SlotWork
  <2>2. slot[s].outcome # "done" =>
          MoveToFailed(j, slot[s].permanent, slot[s].outcome) \in QueuedJob
    BY <2>1, JobEndWrites DEF MoveToFailed
  <2>3. job' \in [Job -> QueuedJob]
    BY <1>3, <2>1, <2>2, JobEndWrites DEF Report
  <2> QED
    BY <1>3, <2>3, SlotStarts DEF Report
<1>4. ASSUME NEW w \in Worker, exitCleanly(w) \/ exitAnyway(w) \/ Die(w)
      PROVE  DeliveryTypes'
  <2>1. Exit(w) /\ mishaps' \in Nat
    BY <1>1, <1>4 DEF exitCleanly, exitAnyway, Die
  <2> QED
    BY <2>1, SlotStarts DEF Exit
<1>5. ASSUME NEW w \in Worker, Boot(w) \/ shutdown(w) \/ closeContext(w)
      PROVE  DeliveryTypes'
  BY <1>1, <1>5 DEF Boot, startConsuming, shutdown, closeContext
<1>6. CASE WindowEnds
  <2>1. slot' \in [Slot -> SlotWork]
    BY <1>6, SlotWrites DEF WindowEnds
  <2> QED
    BY <1>1, <1>6, <2>1 DEF WindowEnds, NoCounter
<1> QED
  BY <1>2, <1>3, <1>4, <1>5, <1>6

(* The end of a handler keeps both. *)
LEMMA HandlerEnds ==
    ASSUME DeliveryIInv, NEW s \in Slot, Throw(s) \/ Return(s), UNCHANGED job,
           slot[s].step \in {"started", "sending", "hung", "releasing"}
    PROVE  AttemptInv'
<1> USE DEF DeliveryIInv, DeliveryTypes, AttemptInv, Running, SlotWork
<1>1. CASE Throw(s)
  <2>1. CASE willRetry(s)
    BY <1>1, <2>1 DEF Throw, willRetry
  <2>2. CASE ~willRetry(s)
    BY <1>1, <2>2 DEF Throw, willRetry
  <2> QED
    BY <2>1, <2>2
<1>2. CASE Return(s)
  BY <1>2 DEF Return, willRetry
<1> QED
  BY <1>1, <1>2

(* A record written without a lock binds no slot. *)
LEMMA Unlocked ==
    ASSUME DeliveryIInv, NEW j \in Job, NEW x, x.lock = NoSlot,
           job' = [job EXCEPT ![j] = x], UNCHANGED slot
    PROVE  AttemptInv'
<1>1. NoSlot \notin Slot
  BY DeliveryAssumption DEF Slot
<1>2. \A k \in Job : job'[k] = job[k] \/ job'[k].lock = NoSlot
  BY DEF DeliveryIInv, DeliveryTypes
<1> QED
  BY <1>1, <1>2 DEF DeliveryIInv, AttemptInv, Running, willRetry

(* What a slot will report stays what BullMQ will decide. *)
LEMMA AttemptKept ==
    ASSUME DeliveryIInv, DeliveryNext
    PROVE  AttemptInv'
<1> USE DeliveryAssumption DEF DeliveryIInv
<1>1. ASSUME NEW j \in Job, enqueue(j)
      PROVE  AttemptInv'
  BY <1>1 DEF AttemptInv, enqueue, DeliveryTypes, Running, willRetry, QueuedJob, SlotWork
<1>2. ASSUME NEW j \in Job, Promote(j)
      PROVE  AttemptInv'
  BY <1>2 DEF AttemptInv, Promote, DeliveryTypes, Running, willRetry, QueuedJob, SlotWork
<1>3. ASSUME NEW j \in Job, Stall(j)
      PROVE  AttemptInv'
  <2>1. PICK x : x.lock = NoSlot /\ job' = [job EXCEPT ![j] = x]
    <3>1. job[j] \in QueuedJob
      BY DEF DeliveryTypes
    <3> DEFINE failed == [job[j] EXCEPT !.state = "failed", !.stalls = MaxStalled + 1,
                                        !.lock = NoSlot, !.event = "none"]
               again == [job[j] EXCEPT !.state = "waiting", !.stalls = job[j].stalls + 1,
                                       !.lock = NoSlot]
    <3>2. failed.lock = NoSlot /\ again.lock = NoSlot
      BY <3>1 DEF QueuedJob
    <3>3. job' = [job EXCEPT ![j] = failed] \/ job' = [job EXCEPT ![j] = again]
      BY <1>3 DEF Stall
    <3> QED
      BY <3>2, <3>3
  <2> QED
    BY <1>3, <2>1, Unlocked DEF Stall
<1>4. ASSUME NEW j \in Job, retryFailedJob(j)
      PROVE  AttemptInv'
  BY <1>4 DEF AttemptInv, retryFailedJob, DeliveryTypes, Running, willRetry, QueuedJob,
      SlotWork
<1>5. ASSUME NEW j \in Job, cancelJob(j)
      PROVE  AttemptInv'
  <2>1. Gone("removed").lock = NoSlot
    BY DEF Gone, NoRecord
  <2> QED
    BY <1>5, <2>1, Unlocked DEF cancelJob
<1>6. ASSUME NEW s \in Slot, NEW j \in Job, Take(s, j)
      PROVE  AttemptInv'
  BY <1>6 DEF AttemptInv, Take, IdleSlot, DeliveryTypes, Running, willRetry, QueuedJob,
      SlotWork
<1>7. ASSUME NEW s \in Slot, resolveJobFails(s)
      PROVE  AttemptInv'
  BY <1>7 DEF AttemptInv, resolveJobFails, DeliveryTypes, Running, willRetry, QueuedJob,
      SlotWork
<1>8. ASSUME NEW s \in Slot, NothingToSend(s)
      PROVE  AttemptInv'
  BY <1>8, HandlerEnds DEF NothingToSend, Handles
<1>9. ASSUME NEW s \in Slot, SendUncapped(s)
      PROVE  AttemptInv'
  BY <1>9 DEF AttemptInv, SendUncapped, Handles, DeliveryTypes, Running, willRetry,
      QueuedJob, SlotWork
<1>10. ASSUME NEW s \in Slot, reserve(s)
      PROVE  AttemptInv'
  <2>1. CASE Return(s) \/ Throw(s)
    BY <1>10, <2>1, HandlerEnds DEF reserve, Handles
  <2>2. CASE slot' = [slot EXCEPT ![s].step = "sending", ![s].reserved = TRUE, ![s].own = TRUE]
    <3>1. slot[s].step = "started" /\ UNCHANGED job
      BY <1>10 DEF reserve, Handles
    <3> QED
      BY <2>2, <3>1 DEF DeliveryTypes, AttemptInv, Running, willRetry, SlotWork
  <2> QED
    BY <1>10, <2>1, <2>2 DEF reserve
<1>11. ASSUME NEW s \in Slot, Send(s)
      PROVE  AttemptInv'
  BY <1>11 DEF AttemptInv, Send, Return, DeliveryTypes, Running, willRetry, QueuedJob,
      SlotWork
<1>12. ASSUME NEW s \in Slot, SendHangs(s)
      PROVE  AttemptInv'
  BY <1>12 DEF AttemptInv, SendHangs, DeliveryTypes, Running, willRetry, QueuedJob, SlotWork
<1>13. ASSUME NEW s \in Slot, NEW d \in BOOLEAN, SendThrows(s, d)
      PROVE  AttemptInv'
  <2>1. CASE slot[s].reserved
    BY <1>13, <2>1 DEF SendThrows, DeliveryTypes, AttemptInv, Running, willRetry, SlotWork
  <2>2. CASE ~slot[s].reserved
    BY <1>13, <2>2, HandlerEnds DEF SendThrows
  <2> QED
    BY <2>1, <2>2
<1>14. ASSUME NEW s \in Slot, release(s)
      PROVE  AttemptInv'
  BY <1>14 DEF AttemptInv, release, Throw, willRetry, GivenBack, DeliveryTypes, Running,
      QueuedJob, SlotWork
<1>15. ASSUME NEW s \in Slot, releaseFails(s)
      PROVE  AttemptInv'
  BY <1>15 DEF AttemptInv, releaseFails, Throw, willRetry, DeliveryTypes, Running,
      QueuedJob, SlotWork
<1>16. ASSUME NEW s \in Slot, Report(s)
      PROVE  AttemptInv'
  <2>1. \A r \in Slot \ {s} : slot'[r] = slot[r]
    BY <1>16 DEF Report, DeliveryTypes
  <2>2. slot'[s] = IdleSlot
    BY <1>16 DEF Report, DeliveryTypes
  <2>3. \A r \in Slot, k \in Job : r # s /\ job'[k].lock = r => job'[k] = job[k]
    <3>1. NoSlot \notin Slot
      BY DeliveryAssumption DEF Slot
    <3>2. CASE job[slot[s].job].lock # s
      BY <1>16, <3>2 DEF Report
    <3>3. CASE job[slot[s].job].lock = s
      BY <1>16, <3>1, <3>3
      DEF Report, DeliveryTypes, QueuedJob, Gone, NoRecord, MoveToFailed
    <3> QED
      BY <3>2, <3>3
  <2> QED
    BY <2>1, <2>2, <2>3 DEF AttemptInv, Running, willRetry, IdleSlot
<1>17. ASSUME NEW w \in Worker, Boot(w)
      PROVE  AttemptInv'
  BY <1>17 DEF AttemptInv, Boot, startConsuming, DeliveryTypes, Running, willRetry,
      QueuedJob, SlotWork
<1>18. ASSUME NEW w \in Worker, shutdown(w)
      PROVE  AttemptInv'
  BY <1>18 DEF AttemptInv, shutdown, DeliveryTypes, Running, willRetry, QueuedJob, SlotWork
<1>19. ASSUME NEW w \in Worker, closeContext(w)
      PROVE  AttemptInv'
  BY <1>19 DEF AttemptInv, closeContext, Drained, DeliveryTypes, Running, willRetry,
      QueuedJob, SlotWork
<1>20. ASSUME NEW w \in Worker, exitCleanly(w)
      PROVE  AttemptInv'
  BY <1>20 DEF AttemptInv, exitCleanly, Exit, IdleSlot, DeliveryTypes, Running, willRetry,
      QueuedJob, SlotWork
<1>21. ASSUME NEW w \in Worker, exitAnyway(w)
      PROVE  AttemptInv'
  BY <1>21 DEF AttemptInv, exitAnyway, Exit, IdleSlot, DeliveryTypes, Running, willRetry,
      QueuedJob, SlotWork
<1>22. ASSUME NEW w \in Worker, Die(w)
      PROVE  AttemptInv'
  BY <1>22 DEF AttemptInv, Die, Exit, IdleSlot, DeliveryTypes, Running, willRetry,
      QueuedJob, SlotWork
<1>23. CASE WindowEnds
  BY <1>23 DEF AttemptInv, WindowEnds, NoCounter, DeliveryTypes, Running, willRetry,
      QueuedJob, SlotWork
<1> QED
  BY <1>1, <1>2, <1>3, <1>4, <1>5, <1>6, <1>7, <1>8, <1>9, <1>10, <1>11, <1>12,
     <1>13, <1>14, <1>15, <1>16, <1>17, <1>18, <1>19, <1>20, <1>21, <1>22, <1>23
  DEF DeliveryNext, Handle

(* A unit stays its window's while the counter exists. *)
LEMMA UnitKept ==
    ASSUME DeliveryIInv, DeliveryNext
    PROVE  UnitInv'
<1> USE DeliveryAssumption DEF DeliveryIInv
<1>1. ASSUME NEW j \in Job, enqueue(j)
      PROVE  UnitInv'
  BY <1>1 DEF UnitInv, enqueue, DeliveryTypes, Running, AttemptInv, QueuedJob, SlotWork
<1>2. ASSUME NEW j \in Job, Promote(j)
      PROVE  UnitInv'
  BY <1>2 DEF UnitInv, Promote, DeliveryTypes, Running, AttemptInv, QueuedJob, SlotWork
<1>3. ASSUME NEW j \in Job, Stall(j)
      PROVE  UnitInv'
  BY <1>3 DEF UnitInv, Stall, DeliveryTypes, Running, AttemptInv, QueuedJob, SlotWork
<1>4. ASSUME NEW j \in Job, retryFailedJob(j)
      PROVE  UnitInv'
  BY <1>4 DEF UnitInv, retryFailedJob, DeliveryTypes, Running, AttemptInv, QueuedJob,
      SlotWork
<1>5. ASSUME NEW j \in Job, cancelJob(j)
      PROVE  UnitInv'
  BY <1>5 DEF UnitInv, cancelJob, Gone, NoRecord, DeliveryTypes, Running, AttemptInv,
      QueuedJob, SlotWork
<1>6. ASSUME NEW s \in Slot, NEW j \in Job, Take(s, j)
      PROVE  UnitInv'
  BY <1>6 DEF UnitInv, Take, IdleSlot, DeliveryTypes, Running, AttemptInv, QueuedJob,
      SlotWork
<1>7. ASSUME NEW s \in Slot, resolveJobFails(s)
      PROVE  UnitInv'
  BY <1>7 DEF UnitInv, resolveJobFails, DeliveryTypes, Running, AttemptInv, QueuedJob,
      SlotWork
<1>8. ASSUME NEW s \in Slot, NothingToSend(s)
      PROVE  UnitInv'
  <2>1. CASE Return(s)
    BY <1>8, <2>1 DEF NothingToSend, Handles, Return, UnitInv, DeliveryTypes, SlotWork
  <2>2. CASE Throw(s)
    BY <1>8, <2>2 DEF NothingToSend, Handles, Throw, UnitInv, DeliveryTypes, SlotWork
  <2> QED
    BY <1>8, <2>1, <2>2 DEF NothingToSend
<1>9. ASSUME NEW s \in Slot, SendUncapped(s)
      PROVE  UnitInv'
  BY <1>9 DEF UnitInv, SendUncapped, Handles, DeliveryTypes, Running, AttemptInv, QueuedJob,
      SlotWork
<1>10. ASSUME NEW s \in Slot, reserve(s)
      PROVE  UnitInv'
  <2>1. counter'.exists /\ slot[s].step = "started" /\ UNCHANGED job
    BY <1>10 DEF reserve, Handles
  <2>2. CASE Return(s)
    BY <2>1, <2>2 DEF Return, UnitInv, DeliveryTypes, SlotWork
  <2>3. CASE Throw(s)
    BY <2>1, <2>3 DEF Throw, UnitInv, DeliveryTypes, SlotWork
  <2>4. CASE slot' = [slot EXCEPT ![s].step = "sending", ![s].reserved = TRUE, ![s].own = TRUE]
    BY <2>1, <2>4 DEF UnitInv, DeliveryTypes, SlotWork
  <2> QED
    BY <1>10, <2>2, <2>3, <2>4 DEF reserve
<1>11. ASSUME NEW s \in Slot, Send(s)
      PROVE  UnitInv'
  BY <1>11 DEF UnitInv, Send, Return, DeliveryTypes, Running, AttemptInv, QueuedJob,
      SlotWork
<1>12. ASSUME NEW s \in Slot, SendHangs(s)
      PROVE  UnitInv'
  BY <1>12 DEF UnitInv, SendHangs, DeliveryTypes, Running, AttemptInv, QueuedJob, SlotWork
<1>13. ASSUME NEW s \in Slot, NEW d \in BOOLEAN, SendThrows(s, d)
      PROVE  UnitInv'
  <2>1. CASE slot[s].reserved
    BY <1>13, <2>1 DEF SendThrows, UnitInv, DeliveryTypes, SlotWork
  <2>2. CASE ~slot[s].reserved
    BY <1>13, <2>2 DEF SendThrows, Throw, UnitInv, DeliveryTypes, SlotWork
  <2> QED
    BY <2>1, <2>2
<1>14. ASSUME NEW s \in Slot, release(s)
      PROVE  UnitInv'
  BY <1>14 DEF UnitInv, release, Throw, willRetry, GivenBack, DeliveryTypes, Running,
      AttemptInv, QueuedJob, SlotWork
<1>15. ASSUME NEW s \in Slot, releaseFails(s)
      PROVE  UnitInv'
  BY <1>15 DEF UnitInv, releaseFails, Throw, willRetry, DeliveryTypes, Running, AttemptInv,
      QueuedJob, SlotWork
<1>16. ASSUME NEW s \in Slot, Report(s)
      PROVE  UnitInv'
  BY <1>16 DEF UnitInv, Report, IdleSlot, Gone, NoRecord, MoveToFailed, AttemptsUsedUp,
      willRetry, DeliveryTypes, Running, AttemptInv, QueuedJob, SlotWork
<1>17. ASSUME NEW w \in Worker, Boot(w)
      PROVE  UnitInv'
  BY <1>17 DEF UnitInv, Boot, startConsuming, DeliveryTypes, Running, AttemptInv, QueuedJob,
      SlotWork
<1>18. ASSUME NEW w \in Worker, shutdown(w)
      PROVE  UnitInv'
  BY <1>18 DEF UnitInv, shutdown, DeliveryTypes, Running, AttemptInv, QueuedJob, SlotWork
<1>19. ASSUME NEW w \in Worker, closeContext(w)
      PROVE  UnitInv'
  BY <1>19 DEF UnitInv, closeContext, Drained, DeliveryTypes, Running, AttemptInv,
      QueuedJob, SlotWork
<1>20. ASSUME NEW w \in Worker, exitCleanly(w)
      PROVE  UnitInv'
  BY <1>20 DEF UnitInv, exitCleanly, Exit, IdleSlot, DeliveryTypes, Running, AttemptInv,
      QueuedJob, SlotWork
<1>21. ASSUME NEW w \in Worker, exitAnyway(w)
      PROVE  UnitInv'
  BY <1>21 DEF UnitInv, exitAnyway, Exit, IdleSlot, DeliveryTypes, Running, AttemptInv,
      QueuedJob, SlotWork
<1>22. ASSUME NEW w \in Worker, Die(w)
      PROVE  UnitInv'
  BY <1>22 DEF UnitInv, Die, Exit, IdleSlot, DeliveryTypes, Running, AttemptInv, QueuedJob,
      SlotWork
<1>23. CASE WindowEnds
  BY <1>23 DEF UnitInv, WindowEnds, NoCounter, DeliveryTypes, Running, AttemptInv,
      QueuedJob, SlotWork
<1> QED
  BY <1>1, <1>2, <1>3, <1>4, <1>5, <1>6, <1>7, <1>8, <1>9, <1>10, <1>11, <1>12,
     <1>13, <1>14, <1>15, <1>16, <1>17, <1>18, <1>19, <1>20, <1>21, <1>22, <1>23
  DEF DeliveryNext, Handle

(* A slot runs only in a process that has its pools. *)
LEMMA PoolsKept ==
    ASSUME DeliveryIInv, NoJobOnAClosedPool, DeliveryNext
    PROVE  NoJobOnAClosedPool'
<1> USE DeliveryAssumption DEF DeliveryIInv
<1>1. ASSUME NEW j \in Job, enqueue(j)
      PROVE  NoJobOnAClosedPool'
  BY <1>1 DEF NoJobOnAClosedPool, enqueue, DeliveryTypes, Running, Slot, SlotWork
<1>2. ASSUME NEW j \in Job, Promote(j)
      PROVE  NoJobOnAClosedPool'
  BY <1>2 DEF NoJobOnAClosedPool, Promote, DeliveryTypes, Running, Slot, SlotWork
<1>3. ASSUME NEW j \in Job, Stall(j)
      PROVE  NoJobOnAClosedPool'
  BY <1>3 DEF NoJobOnAClosedPool, Stall, DeliveryTypes, Running, Slot, SlotWork
<1>4. ASSUME NEW j \in Job, retryFailedJob(j)
      PROVE  NoJobOnAClosedPool'
  BY <1>4 DEF NoJobOnAClosedPool, retryFailedJob, DeliveryTypes, Running, Slot, SlotWork
<1>5. ASSUME NEW j \in Job, cancelJob(j)
      PROVE  NoJobOnAClosedPool'
  BY <1>5 DEF NoJobOnAClosedPool, cancelJob, Gone, NoRecord, DeliveryTypes, Running, Slot,
      SlotWork
<1>6. ASSUME NEW s \in Slot, NEW j \in Job, Take(s, j)
      PROVE  NoJobOnAClosedPool'
  BY <1>6 DEF NoJobOnAClosedPool, Take, IdleSlot, DeliveryTypes, Running, Slot, SlotWork
<1>7. ASSUME NEW s \in Slot, resolveJobFails(s)
      PROVE  NoJobOnAClosedPool'
  BY <1>7 DEF NoJobOnAClosedPool, resolveJobFails, DeliveryTypes, Running, Slot, SlotWork
<1>8. ASSUME NEW s \in Slot, NothingToSend(s)
      PROVE  NoJobOnAClosedPool'
  BY <1>8 DEF NoJobOnAClosedPool, NothingToSend, Return, Throw, willRetry, Handles,
      DeliveryTypes, Running, Slot, SlotWork
<1>9. ASSUME NEW s \in Slot, SendUncapped(s)
      PROVE  NoJobOnAClosedPool'
  BY <1>9 DEF NoJobOnAClosedPool, SendUncapped, Handles, DeliveryTypes, Running, Slot,
      SlotWork
<1>10. ASSUME NEW s \in Slot, reserve(s)
      PROVE  NoJobOnAClosedPool'
  BY <1>10 DEF NoJobOnAClosedPool, reserve, Handles, Return, Throw, DeliveryTypes, Running,
      Slot, SlotWork
<1>11. ASSUME NEW s \in Slot, Send(s)
      PROVE  NoJobOnAClosedPool'
  BY <1>11 DEF NoJobOnAClosedPool, Send, Return, DeliveryTypes, Running, Slot, SlotWork
<1>12. ASSUME NEW s \in Slot, SendHangs(s)
      PROVE  NoJobOnAClosedPool'
  BY <1>12 DEF NoJobOnAClosedPool, SendHangs, DeliveryTypes, Running, Slot, SlotWork
<1>13. ASSUME NEW s \in Slot, NEW d \in BOOLEAN, SendThrows(s, d)
      PROVE  NoJobOnAClosedPool'
  BY <1>13 DEF NoJobOnAClosedPool, SendThrows, Throw, willRetry, DeliveryTypes, Running,
      Slot, SlotWork
<1>14. ASSUME NEW s \in Slot, release(s)
      PROVE  NoJobOnAClosedPool'
  BY <1>14 DEF NoJobOnAClosedPool, release, Throw, willRetry, GivenBack, DeliveryTypes,
      Running, Slot, SlotWork
<1>15. ASSUME NEW s \in Slot, releaseFails(s)
      PROVE  NoJobOnAClosedPool'
  BY <1>15 DEF NoJobOnAClosedPool, releaseFails, Throw, willRetry, DeliveryTypes, Running,
      Slot, SlotWork
<1>16. ASSUME NEW s \in Slot, Report(s)
      PROVE  NoJobOnAClosedPool'
  BY <1>16 DEF NoJobOnAClosedPool, Report, IdleSlot, Gone, NoRecord, MoveToFailed,
      AttemptsUsedUp, willRetry, DeliveryTypes, Running, Slot, SlotWork
<1>17. ASSUME NEW w \in Worker, Boot(w)
      PROVE  NoJobOnAClosedPool'
  BY <1>17 DEF NoJobOnAClosedPool, Boot, startConsuming, DeliveryTypes, Running, Slot,
      SlotWork
<1>18. ASSUME NEW w \in Worker, shutdown(w)
      PROVE  NoJobOnAClosedPool'
  BY <1>18 DEF NoJobOnAClosedPool, shutdown, DeliveryTypes, Running, Slot, SlotWork
<1>19. ASSUME NEW w \in Worker, closeContext(w)
      PROVE  NoJobOnAClosedPool'
  BY <1>19 DEF NoJobOnAClosedPool, closeContext, Drained, DeliveryTypes, Running, Slot,
      SlotWork
<1>20. ASSUME NEW w \in Worker, exitCleanly(w)
      PROVE  NoJobOnAClosedPool'
  BY <1>20 DEF NoJobOnAClosedPool, exitCleanly, Exit, IdleSlot, DeliveryTypes, Running,
      Slot, SlotWork
<1>21. ASSUME NEW w \in Worker, exitAnyway(w)
      PROVE  NoJobOnAClosedPool'
  BY <1>21 DEF NoJobOnAClosedPool, exitAnyway, Exit, IdleSlot, DeliveryTypes, Running, Slot,
      SlotWork
<1>22. ASSUME NEW w \in Worker, Die(w)
      PROVE  NoJobOnAClosedPool'
  BY <1>22 DEF NoJobOnAClosedPool, Die, Exit, IdleSlot, DeliveryTypes, Running, Slot,
      SlotWork
<1>23. CASE WindowEnds
  BY <1>23 DEF NoJobOnAClosedPool, WindowEnds, NoCounter, DeliveryTypes, Running, Slot,
      SlotWork
<1> QED
  BY <1>1, <1>2, <1>3, <1>4, <1>5, <1>6, <1>7, <1>8, <1>9, <1>10, <1>11, <1>12,
     <1>13, <1>14, <1>15, <1>16, <1>17, <1>18, <1>19, <1>20, <1>21, <1>22, <1>23
  DEF DeliveryNext, Handle

(* What is logged of a failed attempt stays what becomes of the job. *)
LEMMA OutcomeKept ==
    ASSUME DeliveryIInv, LoggedOutcomeIsReal, DeliveryNext
    PROVE  LoggedOutcomeIsReal'
<1> USE DeliveryAssumption DEF DeliveryIInv
<1>1. ASSUME NEW j \in Job, enqueue(j)
      PROVE  LoggedOutcomeIsReal'
  BY <1>1 DEF LoggedOutcomeIsReal, enqueue, DeliveryTypes, AttemptInv, QueuedJob, SlotWork,
      Running, willRetry
<1>2. ASSUME NEW j \in Job, Promote(j)
      PROVE  LoggedOutcomeIsReal'
  BY <1>2 DEF LoggedOutcomeIsReal, Promote, DeliveryTypes, AttemptInv, QueuedJob, SlotWork,
      Running, willRetry
<1>3. ASSUME NEW j \in Job, Stall(j)
      PROVE  LoggedOutcomeIsReal'
  BY <1>3 DEF LoggedOutcomeIsReal, Stall, DeliveryTypes, AttemptInv, QueuedJob, SlotWork,
      Running, willRetry
<1>4. ASSUME NEW j \in Job, retryFailedJob(j)
      PROVE  LoggedOutcomeIsReal'
  BY <1>4 DEF LoggedOutcomeIsReal, retryFailedJob, DeliveryTypes, AttemptInv, QueuedJob,
      SlotWork, Running, willRetry
<1>5. ASSUME NEW j \in Job, cancelJob(j)
      PROVE  LoggedOutcomeIsReal'
  BY <1>5 DEF LoggedOutcomeIsReal, cancelJob, Gone, NoRecord, DeliveryTypes, AttemptInv,
      QueuedJob, SlotWork, Running, willRetry
<1>6. ASSUME NEW s \in Slot, NEW j \in Job, Take(s, j)
      PROVE  LoggedOutcomeIsReal'
  BY <1>6 DEF LoggedOutcomeIsReal, Take, IdleSlot, DeliveryTypes, AttemptInv, QueuedJob,
      SlotWork, Running, willRetry
<1>7. ASSUME NEW s \in Slot, resolveJobFails(s)
      PROVE  LoggedOutcomeIsReal'
  BY <1>7 DEF LoggedOutcomeIsReal, resolveJobFails, DeliveryTypes, AttemptInv, QueuedJob,
      SlotWork, Running, willRetry
<1>8. ASSUME NEW s \in Slot, NothingToSend(s)
      PROVE  LoggedOutcomeIsReal'
  BY <1>8 DEF LoggedOutcomeIsReal, NothingToSend, Return, Throw, willRetry, Handles,
      DeliveryTypes, AttemptInv, QueuedJob, SlotWork, Running
<1>9. ASSUME NEW s \in Slot, SendUncapped(s)
      PROVE  LoggedOutcomeIsReal'
  BY <1>9 DEF LoggedOutcomeIsReal, SendUncapped, Handles, DeliveryTypes, AttemptInv,
      QueuedJob, SlotWork, Running, willRetry
<1>10. ASSUME NEW s \in Slot, reserve(s)
      PROVE  LoggedOutcomeIsReal'
  BY <1>10 DEF LoggedOutcomeIsReal, reserve, Handles, Return, DeliveryTypes, AttemptInv,
      QueuedJob, SlotWork, Running, willRetry
<1>11. ASSUME NEW s \in Slot, Send(s)
      PROVE  LoggedOutcomeIsReal'
  BY <1>11 DEF LoggedOutcomeIsReal, Send, Return, DeliveryTypes, AttemptInv, QueuedJob,
      SlotWork, Running, willRetry
<1>12. ASSUME NEW s \in Slot, SendHangs(s)
      PROVE  LoggedOutcomeIsReal'
  BY <1>12 DEF LoggedOutcomeIsReal, SendHangs, DeliveryTypes, AttemptInv, QueuedJob,
      SlotWork, Running, willRetry
<1>13. ASSUME NEW s \in Slot, NEW d \in BOOLEAN, SendThrows(s, d)
      PROVE  LoggedOutcomeIsReal'
  BY <1>13 DEF LoggedOutcomeIsReal, SendThrows, Throw, willRetry, DeliveryTypes, AttemptInv,
      QueuedJob, SlotWork, Running
<1>14. ASSUME NEW s \in Slot, release(s)
      PROVE  LoggedOutcomeIsReal'
  BY <1>14 DEF LoggedOutcomeIsReal, release, Throw, willRetry, GivenBack, DeliveryTypes,
      AttemptInv, QueuedJob, SlotWork, Running
<1>15. ASSUME NEW s \in Slot, releaseFails(s)
      PROVE  LoggedOutcomeIsReal'
  BY <1>15 DEF LoggedOutcomeIsReal, releaseFails, Throw, willRetry, DeliveryTypes,
      AttemptInv, QueuedJob, SlotWork, Running
<1>16. ASSUME NEW s \in Slot, Report(s)
      PROVE  LoggedOutcomeIsReal'
  BY <1>16 DEF LoggedOutcomeIsReal, Report, IdleSlot, Gone, NoRecord, MoveToFailed,
      AttemptsUsedUp, willRetry, DeliveryTypes, AttemptInv, QueuedJob, SlotWork, Running
<1>17. ASSUME NEW w \in Worker, Boot(w)
      PROVE  LoggedOutcomeIsReal'
  BY <1>17 DEF LoggedOutcomeIsReal, Boot, startConsuming, DeliveryTypes, AttemptInv,
      QueuedJob, SlotWork, Running, willRetry
<1>18. ASSUME NEW w \in Worker, shutdown(w)
      PROVE  LoggedOutcomeIsReal'
  BY <1>18 DEF LoggedOutcomeIsReal, shutdown, DeliveryTypes, AttemptInv, QueuedJob,
      SlotWork, Running, willRetry
<1>19. ASSUME NEW w \in Worker, closeContext(w)
      PROVE  LoggedOutcomeIsReal'
  BY <1>19 DEF LoggedOutcomeIsReal, closeContext, Drained, DeliveryTypes, AttemptInv,
      QueuedJob, SlotWork, Running, willRetry
<1>20. ASSUME NEW w \in Worker, exitCleanly(w)
      PROVE  LoggedOutcomeIsReal'
  BY <1>20 DEF LoggedOutcomeIsReal, exitCleanly, Exit, IdleSlot, DeliveryTypes, AttemptInv,
      QueuedJob, SlotWork, Running, willRetry
<1>21. ASSUME NEW w \in Worker, exitAnyway(w)
      PROVE  LoggedOutcomeIsReal'
  BY <1>21 DEF LoggedOutcomeIsReal, exitAnyway, Exit, IdleSlot, DeliveryTypes, AttemptInv,
      QueuedJob, SlotWork, Running, willRetry
<1>22. ASSUME NEW w \in Worker, Die(w)
      PROVE  LoggedOutcomeIsReal'
  BY <1>22 DEF LoggedOutcomeIsReal, Die, Exit, IdleSlot, DeliveryTypes, AttemptInv,
      QueuedJob, SlotWork, Running, willRetry
<1>23. CASE WindowEnds
  BY <1>23 DEF LoggedOutcomeIsReal, WindowEnds, NoCounter, DeliveryTypes, AttemptInv,
      QueuedJob, SlotWork, Running, willRetry
<1> QED
  BY <1>1, <1>2, <1>3, <1>4, <1>5, <1>6, <1>7, <1>8, <1>9, <1>10, <1>11, <1>12,
     <1>13, <1>14, <1>15, <1>16, <1>17, <1>18, <1>19, <1>20, <1>21, <1>22, <1>23
  DEF DeliveryNext, Handle

(* There are finitely many slots, so what is owed can be counted. *)
LEMMA Counted ==
    /\ \A O \in SUBSET Slot : Cardinality(O) \in Nat
    /\ \A O \in SUBSET Slot : \A P \in SUBSET O : Cardinality(P) <= Cardinality(O)
    /\ \A O \in SUBSET Slot : \A s \in O : Cardinality(O \ {s}) = Cardinality(O) - 1
    /\ \A O \in SUBSET Slot, s \in Slot : Cardinality(O \union {s}) <= Cardinality(O) + 1
<1>1. IsFiniteSet(Slot)
  <2>1. 1 \in Int /\ Concurrency \in Int
    BY DeliveryAssumption
  <2>2. IsFiniteSet(1 .. Concurrency)
    BY <2>1, FS_Interval
  <2> QED
    BY <2>2, DeliveryAssumption, FS_Product DEF Slot
<1>2. \A O \in SUBSET Slot : IsFiniteSet(O)
  BY <1>1, FS_Subset
<1>3. \A O \in SUBSET Slot : Cardinality(O) \in Nat
  BY <1>2, FS_CardinalityType
<1>4. \A O \in SUBSET Slot : \A P \in SUBSET O : Cardinality(P) <= Cardinality(O)
  BY <1>2, FS_Subset
<1>5. \A O \in SUBSET Slot : \A s \in O : Cardinality(O \ {s}) = Cardinality(O) - 1
  BY <1>2, FS_RemoveElement
<1>6. \A O \in SUBSET Slot, s \in Slot : Cardinality(O \union {s}) <= Cardinality(O) + 1
  <2> TAKE O \in SUBSET Slot, s \in Slot
  <2>1. CASE s \in O
    <3>1. O \union {s} = O
      BY <2>1
    <3> QED
      BY <1>3, <3>1
  <2>2. CASE s \notin O
    <3>1. Cardinality(O \union {s}) = Cardinality(O) + 1
      BY <1>2, <2>2, FS_AddElement
    <3> QED
      BY <1>3, <3>1
  <2> QED
    BY <2>1, <2>2
<1> QED
  BY <1>3, <1>4, <1>5, <1>6

(* A step that owes nothing new and writes nothing of the window keeps the cap. *)
LEMMA NothingNewOwed ==
    ASSUME DeliveryIInv, CapInv, Owed' \subseteq Owed, UNCHANGED <<counter, window>>
    PROVE  CapInv'
<1>1. Owed \in SUBSET Slot /\ Cardinality(Owed) \in Nat /\ Cardinality(Owed') \in Nat
      /\ Cardinality(Owed') <= Cardinality(Owed)
  BY Counted DEF Owed
<1>2. /\ window.sent \in Nat /\ window.credit \in Nat /\ counter.count \in Int /\ Limit \in Nat
  BY DeliveryAssumption DEF DeliveryIInv, DeliveryTypes
<1> QED
  BY <1>1, <1>2 DEF CapInv

(* The steps that touch the counter or the window. *)
LEMMA CapReserve ==
    ASSUME DeliveryIInv, CapInv, NEW s \in Slot, reserve(s)
    PROVE  CapInv'
<1> USE DEF DeliveryIInv, DeliveryTypes
<1>1. /\ Owed \in SUBSET Slot /\ Owed' \in SUBSET Slot
      /\ Cardinality(Owed) \in Nat /\ Cardinality(Owed') \in Nat
  BY Counted DEF Owed
<1>2. /\ window.sent \in Nat /\ window.credit \in Nat /\ counter.count \in Int /\ Limit \in Nat
      /\ counter'.count = counter.count + 1 /\ window' = window
  BY DeliveryAssumption DEF reserve
<1>3. CASE Return(s) \/ Throw(s)
  <2>1. Owed' \in SUBSET Owed
    BY <1>3 DEF reserve, Return, Throw, Owed, SlotWork
  <2>2. Cardinality(Owed') <= Cardinality(Owed)
    BY <1>1, <2>1, Counted
  <2> QED
    BY <1>1, <1>2, <2>2 DEF CapInv
<1>4. CASE /\ counter'.count <= Limit
            /\ slot' = [slot EXCEPT ![s].step = "sending", ![s].reserved = TRUE, ![s].own = TRUE]
  <2>1. Owed' \in SUBSET (Owed \union {s})
    BY <1>4 DEF Owed, SlotWork
  <2>2. Cardinality(Owed') <= Cardinality(Owed \union {s})
    BY <1>1, <2>1, Counted
  <2>3. /\ Cardinality(Owed \union {s}) <= Cardinality(Owed) + 1
        /\ Cardinality(Owed \union {s}) \in Nat
    BY <1>1, Counted
  <2> QED
    BY <1>1, <1>2, <1>4, <2>2, <2>3 DEF CapInv
<1> QED
  BY <1>3, <1>4 DEF reserve

(* A message that goes out takes its unit with it. *)
LEMMA CapSend ==
    ASSUME DeliveryIInv, CapInv, NEW s \in Slot,
           Send(s) \/ \E delivered \in BOOLEAN : SendThrows(s, delivered)
    PROVE  CapInv'
<1> USE DEF DeliveryIInv, DeliveryTypes
<1>1. /\ Owed \in SUBSET Slot /\ Owed' \in SUBSET Slot
      /\ Cardinality(Owed) \in Nat /\ Cardinality(Owed') \in Nat
  BY Counted DEF Owed
<1>2. /\ window.sent \in Nat /\ window.credit \in Nat /\ counter.count \in Int /\ Limit \in Nat
      /\ counter' = counter
  BY DeliveryAssumption DEF Send, SendThrows
<1>3. CASE window' = window
  <2>1. Owed' \in SUBSET Owed
    <3>1. CASE Send(s)
      BY <3>1 DEF Send, Return, Owed, SlotWork
    <3>2. ASSUME NEW d \in BOOLEAN, SendThrows(s, d)
          PROVE  Owed' \in SUBSET Owed
      <4>1. CASE slot[s].reserved
        BY <3>2, <4>1 DEF SendThrows, Owed, SlotWork
      <4>2. CASE ~slot[s].reserved
        BY <3>2, <4>2 DEF SendThrows, Throw, Owed, SlotWork
      <4> QED
        BY <4>1, <4>2
    <3> QED
      BY <3>1, <3>2
  <2> QED
    BY <1>2, <1>3, <2>1, NothingNewOwed
<1>4. CASE window' # window
  <2>1. /\ s \in Owed /\ Owed' \in SUBSET (Owed \ {s})
        /\ window'.sent = window.sent + 1 /\ window'.credit = window.credit
    <3>1. CASE Send(s)
      BY <1>4, <3>1 DEF Send, Return, Owed, SlotWork
    <3>2. ASSUME NEW d \in BOOLEAN, SendThrows(s, d)
          PROVE  /\ s \in Owed /\ Owed' \in SUBSET (Owed \ {s})
                 /\ window'.sent = window.sent + 1 /\ window'.credit = window.credit
      <4>1. slot[s].own /\ d /\ slot[s].reserved
        BY <1>4, <3>2 DEF SendThrows, UnitInv
      <4> QED
        BY <3>2, <4>1 DEF SendThrows, Owed, SlotWork
    <3> QED
      BY <3>1, <3>2
  <2>2. Cardinality(Owed') <= Cardinality(Owed \ {s})
    BY <1>1, <2>1, Counted
  <2>3. Cardinality(Owed \ {s}) = Cardinality(Owed) - 1
    BY <1>1, <2>1, Counted
  <2> QED
    BY <1>1, <1>2, <2>1, <2>2, <2>3 DEF CapInv
<1> QED
  BY <1>3, <1>4

(* A unit that is given back is owed no more, or is credited. *)
LEMMA CapRelease ==
    ASSUME DeliveryIInv, CapInv, NEW s \in Slot, release(s)
    PROVE  CapInv'
<1> USE DEF DeliveryIInv, DeliveryTypes
<1>1. /\ Owed \in SUBSET Slot /\ Owed' \in SUBSET Slot
      /\ Cardinality(Owed) \in Nat /\ Cardinality(Owed') \in Nat
  BY Counted DEF Owed
<1>2. /\ window.sent \in Nat /\ window.credit \in Nat /\ counter.count \in Int /\ Limit \in Nat
  BY DeliveryAssumption
<1>3. Owed' = Owed \ {s}
  BY DEF release, Throw, Owed, SlotWork
<1>4. Cardinality(Owed') <= Cardinality(Owed)
  BY <1>1, <1>3, Counted
<1>5. CASE ~counter.exists
  <2>1. UNCHANGED <<counter, window>>
    BY <1>5 DEF release, GivenBack
  <2> QED
    BY <1>3, <2>1, NothingNewOwed
<1>6. CASE counter.exists /\ s \in Owed
  <2>1. counter'.count = counter.count - 1 /\ window' = window
    BY <1>6 DEF release, GivenBack, Owed
  <2>2. Cardinality(Owed') = Cardinality(Owed) - 1
    BY <1>1, <1>3, <1>6, Counted
  <2> QED
    BY <1>1, <1>2, <2>1, <2>2 DEF CapInv
<1>7. CASE counter.exists /\ s \notin Owed
  <2>1. /\ counter'.count = counter.count - 1
        /\ window'.sent = window.sent /\ window'.credit = window.credit + 1
    BY <1>7 DEF release, GivenBack, Owed
  <2> QED
    BY <1>1, <1>2, <1>4, <2>1 DEF CapInv
<1> QED
  BY <1>5, <1>6, <1>7

(* The destination's cap, step by step. *)
LEMMA CapKept ==
    ASSUME DeliveryIInv, CapInv, DeliveryNext
    PROVE  CapInv'
<1> USE DEF DeliveryIInv
<1>1. ASSUME NEW j \in Job,
             enqueue(j) \/ Promote(j) \/ Stall(j) \/ retryFailedJob(j) \/ cancelJob(j)
      PROVE  CapInv'
  <2>1. UNCHANGED <<slot, counter, window>>
    BY <1>1 DEF enqueue, Promote, Stall, retryFailedJob, cancelJob
  <2> QED
    BY <2>1, NothingNewOwed DEF Owed
<1>2. ASSUME NEW s \in Slot, NEW j \in Job, Take(s, j)
      PROVE  CapInv'
  <2>1. Owed' \subseteq Owed
    BY <1>2 DEF Take, Owed, IdleSlot, DeliveryTypes
  <2> QED
    BY <1>2, <2>1, NothingNewOwed DEF Take
<1>3. ASSUME NEW s \in Slot, resolveJobFails(s)
      PROVE  CapInv'
  <2>1. Owed' \subseteq Owed
    BY <1>3 DEF resolveJobFails, Owed, DeliveryTypes, SlotWork
  <2> QED
    BY <1>3, <2>1, NothingNewOwed DEF resolveJobFails
<1>4. ASSUME NEW s \in Slot, NothingToSend(s) \/ releaseFails(s)
      PROVE  CapInv'
  <2>1. Return(s) \/ Throw(s)
    BY <1>4 DEF NothingToSend, releaseFails
  <2>2. Owed' \subseteq Owed
    BY <2>1 DEF Return, Throw, Owed, DeliveryTypes, SlotWork
  <2> QED
    BY <1>4, <2>2, NothingNewOwed DEF NothingToSend, releaseFails
<1>5. ASSUME NEW s \in Slot, SendUncapped(s)
      PROVE  CapInv'
  <2>1. ~slot[s].own
    BY <1>5 DEF SendUncapped, Handles, UnitInv
  <2>2. Owed' \subseteq Owed
    BY <1>5, <2>1 DEF SendUncapped, Owed, DeliveryTypes, SlotWork
  <2> QED
    BY <1>5, <2>2, NothingNewOwed DEF SendUncapped
<1>6. ASSUME NEW s \in Slot, SendHangs(s)
      PROVE  CapInv'
  <2>1. Owed' \subseteq Owed
    BY <1>6 DEF SendHangs, Owed, DeliveryTypes, SlotWork
  <2> QED
    BY <1>6, <2>1, NothingNewOwed DEF SendHangs
<1>7. ASSUME NEW s \in Slot, Report(s)
      PROVE  CapInv'
  <2>1. Owed' \subseteq Owed
    BY <1>7 DEF Report, Owed, IdleSlot, DeliveryTypes
  <2> QED
    BY <1>7, <2>1, NothingNewOwed DEF Report
<1>8. ASSUME NEW w \in Worker,
             Boot(w) \/ shutdown(w) \/ closeContext(w)
      PROVE  CapInv'
  <2>1. UNCHANGED <<slot, counter, window>>
    BY <1>8 DEF Boot, shutdown, closeContext
  <2> QED
    BY <2>1, NothingNewOwed DEF Owed
<1>9. ASSUME NEW w \in Worker, exitCleanly(w) \/ exitAnyway(w) \/ Die(w)
      PROVE  CapInv'
  <2>1. Exit(w)
    BY <1>9 DEF exitCleanly, exitAnyway, Die
  <2>2. Owed' \subseteq Owed
    BY <2>1 DEF Exit, Owed, IdleSlot, DeliveryTypes
  <2> QED
    BY <2>1, <2>2, NothingNewOwed DEF Exit
<1>10. CASE WindowEnds
  <2>1. Owed' = {}
    BY <1>10 DEF WindowEnds, Owed, DeliveryTypes, SlotWork
  <2>2. Cardinality(Owed') = 0
    BY <2>1, FS_EmptySet
  <2>3. counter'.count = 0 /\ window'.sent = 0 /\ window'.credit = 0
    BY <1>10 DEF WindowEnds, NoCounter
  <2> QED
    BY <2>2, <2>3, DeliveryAssumption DEF CapInv
<1> QED
  BY <1>1, <1>2, <1>3, <1>4, <1>5, <1>6, <1>7, <1>8, <1>9, <1>10, CapReserve, CapSend,
     CapRelease
  DEF DeliveryNext, Handle

(* The initial states, and the invariants together. *)
LEMMA DeliveryBegins ==
    ASSUME DeliveryInit
    PROVE  DeliveryIInv /\ CapInv /\ NoJobOnAClosedPool /\ LoggedOutcomeIsReal
<1>1. PICK b \in Budgets :
        /\ job = [j \in Job |-> IF j \in b.jobs THEN NoRecord ELSE Gone("removed")]
        /\ mishaps = b.mishaps
  BY DEF DeliveryInit
<1>2. NoRecord \in QueuedJob /\ Gone("removed") \in QueuedJob
  BY DEF QueuedJob, NoRecord, Gone
<1>3. /\ job \in [Job -> QueuedJob] /\ mishaps \in Nat
      /\ \A j \in Job : job[j].state \in {"none", "removed"}
  BY <1>1, <1>2, DeliveryAssumption DEF NoRecord, Gone
<1>4. /\ slot \in [Slot -> SlotWork]
      /\ \A s \in Slot : slot[s] = IdleSlot
  BY SlotStarts DEF DeliveryInit
<1>5. DeliveryTypes
  BY <1>3, <1>4 DEF DeliveryInit, DeliveryTypes, NoCounter
<1>6. AttemptInv /\ UnitInv /\ NoJobOnAClosedPool
  BY <1>4 DEF AttemptInv, UnitInv, NoJobOnAClosedPool, Running, IdleSlot, DeliveryInit,
     NoCounter
<1>7. LoggedOutcomeIsReal
  BY <1>3 DEF LoggedOutcomeIsReal
<1>8. CapInv
  <2>1. Owed = {}
    BY <1>4 DEF Owed, IdleSlot
  <2>2. Cardinality(Owed) = 0
    BY <2>1, FS_EmptySet
  <2> QED
    BY <2>2, DeliveryAssumption DEF DeliveryInit, NoCounter, CapInv
<1> QED
  BY <1>5, <1>6, <1>7, <1>8 DEF DeliveryIInv

(* A step of nothing in Delivery keeps every invariant. *)
LEMMA DeliveryStutters ==
    ASSUME UNCHANGED deliveryVars
    PROVE  /\ DeliveryIInv => DeliveryIInv'
           /\ CapInv => CapInv'
           /\ NoJobOnAClosedPool => NoJobOnAClosedPool'
           /\ LoggedOutcomeIsReal => LoggedOutcomeIsReal'
BY DEF deliveryVars, DeliveryIInv, DeliveryTypes, AttemptInv, UnitInv, Running, willRetry,
   CapInv,
       Owed, NoJobOnAClosedPool, LoggedOutcomeIsReal

(* Every step keeps the inductive invariant. *)
LEMMA DeliveryKept ==
    ASSUME DeliveryIInv, DeliveryNext
    PROVE  DeliveryIInv'
<1>1. DeliveryTypes'
  BY JobTypes, HandlerTypes, OtherTypes DEF DeliveryNext
<1> QED
  BY <1>1, AttemptKept, UnitKept DEF DeliveryIInv

(* What a failed attempt is logged as agrees with what BullMQ will make of it *)
(* while the slot holds the lock, and a unit is of the open window only while *)
(* its counter exists (QueueProcessor.process, SendLimitService).             *)
THEOREM DeliveryInductive == DeliverySpec => []DeliveryIInv
<1>1. DeliveryInit => DeliveryIInv
  BY DeliveryBegins
<1>2. DeliveryIInv /\ [DeliveryNext]_deliveryVars => DeliveryIInv'
  BY DeliveryKept, DeliveryStutters
<1> QED
  BY <1>1, <1>2, PTL DEF DeliverySpec

(* No handler runs in a process that has closed its pools: drainWorkers     *)
(* waits for every slot, and a process that is down has none.               *)
THEOREM PoolsOutliveHandlers == DeliverySpec => []NoJobOnAClosedPool
<1>1. DeliveryInit => NoJobOnAClosedPool
  BY DeliveryBegins
<1>2. DeliveryIInv /\ NoJobOnAClosedPool /\ [DeliveryNext]_deliveryVars => NoJobOnAClosedPool'
  BY PoolsKept, DeliveryStutters
<1> QED
  BY <1>1, <1>2, DeliveryInductive, PTL DEF DeliverySpec

(* What process() logs of a failed attempt is what becomes of the job, for  *)
(* any number of attempts, stalls, workers and jobs.                        *)
THEOREM FailuresAreLoggedTruly == DeliverySpec => []LoggedOutcomeIsReal
<1>1. DeliveryInit => LoggedOutcomeIsReal
  BY DeliveryBegins
<1>2. DeliveryIInv /\ LoggedOutcomeIsReal /\ [DeliveryNext]_deliveryVars => LoggedOutcomeIsReal'
  BY OutcomeKept, DeliveryStutters
<1> QED
  BY <1>1, <1>2, DeliveryInductive, PTL DEF DeliverySpec

(* What a destination is sent in a window stays within the limit, but for   *)
(* units given back that were not the window's or whose message went out    *)
(* (reserve and the release script), for any limit and any workers.         *)
THEOREM DestinationIsCapped == DeliverySpec => []WithinLimit
<1>1. DeliveryInit => CapInv
  BY DeliveryBegins
<1>2. DeliveryIInv /\ CapInv /\ [DeliveryNext]_deliveryVars => CapInv'
  BY CapKept, DeliveryStutters
<1>3. DeliveryIInv /\ CapInv => WithinLimit
  <2> SUFFICES ASSUME DeliveryIInv, CapInv
               PROVE  WithinLimit
    OBVIOUS
  <2> DEFINE sending == {s \in Slot : slot[s].step \in {"sending", "hung"} /\ slot[s].own}
  <2>1. sending \in SUBSET Owed /\ Owed \in SUBSET Slot /\ sending \in SUBSET Slot
    BY DEF Owed
  <2>2. Cardinality(sending) <= Cardinality(Owed)
    BY <2>1, Counted
  <2>3. Cardinality(sending) \in Nat /\ Cardinality(Owed) \in Nat
    BY <2>1, Counted
  <2>4. window.sent \in Nat /\ window.credit \in Nat /\ Limit \in Nat
    BY DeliveryAssumption DEF DeliveryIInv, DeliveryTypes
  <2>5. Held = Cardinality(sending)
    BY DEF Held
  <2> QED
    BY <2>2, <2>3, <2>4, <2>5 DEF WithinLimit, CapInv
<1> QED
  BY <1>1, <1>2, <1>3, DeliveryInductive, PTL DEF DeliverySpec
=============================================================================
