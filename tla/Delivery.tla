------------------------------ MODULE Delivery ------------------------------
(***************************************************************************)
(* Queued mail to one destination, under one purpose: the jobs of the      *)
(* notifications queue, the worker processes that run them, the counter in *)
(* Redis that caps what the destination receives, and the shutdown of a    *)
(* process under a running job (common/queue, common/send-limit,           *)
(* graceful-shutdown.ts). BullMQ and the mail provider are external.       *)
(*                                                                         *)
(* A job runs in a slot of a worker. Every call of the handler that leaves *)
(* the process is a step: the reservation, the send, the give-back, and    *)
(* the report to BullMQ, which counts only while the slot holds the job's  *)
(* lock. A job whose lock has run out is handed to another slot although   *)
(* the first may still be working on it.                                   *)
(*                                                                         *)
(* Fields and variables marked "history" are read by properties only.      *)
(***************************************************************************)
EXTENDS Integers, FiniteSets, FiniteSetsExt

CONSTANTS
    Job,           \* bound: the messages that are ever queued
    Worker,        \* the worker processes
    Concurrency,   \* slots of a worker
    NoJob, NoSlot,
    Limit,         \* SEND_LIMITS[purpose].limit
    MaxAttempts,   \* retryPolicy.attempts
    MaxStalled,    \* BullMQ's maxStalledCount
    Budgets        \* bounds: the jobs of a behaviour and its rare events, together

ASSUME DeliveryAssumption ==
    /\ Concurrency \in Nat \ {0}
    /\ Limit \in Nat \ {0}
    /\ MaxAttempts \in Nat \ {0}
    /\ MaxStalled \in Nat
    /\ IsFiniteSet(Worker) /\ NoSlot \notin Worker \X (1 .. Concurrency)
    /\ IsFiniteSet(Budgets) /\ Budgets \subseteq [jobs : SUBSET Job, mishaps : Nat]

Slot == Worker \X (1 .. Concurrency)

MaxMishaps == Max({b.mishaps : b \in Budgets})

VARIABLES
    job,       \* the jobs in Redis
    slot,      \* what each slot of each worker is doing
    worker,    \* the processes
    counter,   \* the destination's counter in Redis
    window,    \* history: the counter's window
    mishaps    \* bound: the rare events that may still happen

deliveryVars == <<job, slot, worker, counter, window, mishaps>>

JobRecord ==
    [state : {"none", "waiting", "delayed", "active", "completed", "failed", "removed"},
     readable : BOOLEAN,        \* this release knows its name, payload and version
     attemptsMade : 0 .. MaxAttempts + MaxMishaps,
     stalls : 0 .. MaxStalled + 1,
     lock : Slot \union {NoSlot},
     event : {"none", "RETRIED", "FAILED"}]   \* the last lifecycle event of a failure

(* own and delivered are history: the reservation was made in the window   *)
(* that is open; the provider took the message, whatever it answered.      *)
SlotRecord ==
    [job : Job \union {NoJob},
     step : {"idle", "started", "sending", "hung", "releasing", "reporting"},
     attempt : 0 .. MaxAttempts + MaxMishaps + 1,
     reserved : BOOLEAN,
     outcome : {"none", "done", "RETRIED", "FAILED"},
     permanent : BOOLEAN,
     own : BOOLEAN, delivered : BOOLEAN]

DeliveryTypeOK ==
    /\ job \in [Job -> JobRecord]
    /\ slot \in [Slot -> SlotRecord]
    /\ worker \in [Worker -> {"down", "up", "draining", "closing"}]
    /\ counter \in [exists : BOOLEAN, count : Int, expires : BOOLEAN]
    /\ window \in [sent : Nat, credit : Nat]
    /\ mishaps \in 0 .. MaxMishaps

NoRecord == [state |-> "none", readable |-> TRUE, attemptsMade |-> 0, stalls |-> 0,
             lock |-> NoSlot, event |-> "none"]

(* Of a job that is completed or removed nothing more is read. *)
Gone(state) == [NoRecord EXCEPT !.state = state]

IdleSlot == [job |-> NoJob, step |-> "idle", attempt |-> 0, reserved |-> FALSE,
             outcome |-> "none", permanent |-> FALSE, own |-> FALSE, delivered |-> FALSE]

NoCounter == [exists |-> FALSE, count |-> 0, expires |-> FALSE]

DeliveryInit ==
    /\ \E b \in Budgets :
        /\ job = [j \in Job |-> IF j \in b.jobs THEN NoRecord ELSE Gone("removed")]
        /\ mishaps = b.mishaps
    /\ slot = [s \in Slot |-> IdleSlot]
    /\ worker = [w \in Worker |-> "up"]
    /\ counter = NoCounter
    /\ window = [sent |-> 0, credit |-> 0]

Running(s) == slot[s].step # "idle"

(* Stops, deaths, lost locks, hung calls, expired windows and what operators *)
(* do are counted, so that a behaviour has finitely many of them.            *)
Mishap == mishaps > 0 /\ mishaps' = mishaps - 1

----------------------------------------------------------------------------
(* The producer and BullMQ *)

enqueue(j) ==
    /\ job[j].state = "none"
    /\ \E readable \in BOOLEAN :
        /\ job' = [job EXCEPT ![j].state = "waiting", ![j].readable = readable]
        /\ IF readable THEN UNCHANGED mishaps ELSE Mishap
    /\ UNCHANGED <<slot, worker, counter, window>>

(* A consuming worker takes a waiting job. A draining one takes no more. *)
Take(s, j) ==
    /\ job[j].state = "waiting"
    /\ worker[s[1]] = "up"
    /\ ~Running(s)
    /\ job' = [job EXCEPT ![j].state = "active", ![j].lock = s]
    /\ slot' = [slot EXCEPT ![s] = [IdleSlot EXCEPT !.job = j, !.step = "started",
                                         !.attempt = job[j].attemptsMade + 1]]
    /\ UNCHANGED <<worker, counter, window, mishaps>>

(* The backoff of a failed attempt is over. *)
Promote(j) ==
    /\ job[j].state = "delayed"
    /\ job' = [job EXCEPT ![j].state = "waiting"]
    /\ UNCHANGED <<slot, worker, counter, window, mishaps>>

(* The process that held the job's lock is gone. *)
Abandoned(j) == job[j].state = "active" /\ slot[job[j].lock].job # j

(* A lock was not renewed, and the stalled check of some worker finds it. *)
Stall(j) ==
    /\ job[j].state = "active"
    /\ \E w \in Worker : worker[w] = "up"
    /\ job' = [job EXCEPT
            ![j] = IF job[j].stalls >= MaxStalled
                   THEN [job[j] EXCEPT !.state = "failed", !.stalls = MaxStalled + 1,
                                       !.lock = NoSlot, !.event = "none"]
                   ELSE [job[j] EXCEPT !.state = "waiting", !.stalls = @ + 1,
                                       !.lock = NoSlot]]
    /\ IF Abandoned(j) THEN UNCHANGED mishaps ELSE Mishap
    /\ UNCHANGED <<slot, worker, counter, window>>

----------------------------------------------------------------------------
(* QueueProcessor.process and the handler *)

(* mutant: the attempt that is the last one is announced as retried. *)
willRetry_OffByOne(s) == ~slot[s].permanent /\ slot[s].attempt <= MaxAttempts

(* What the log says of a failed attempt. *)
willRetry(s) == ~slot[s].permanent /\ slot[s].attempt < MaxAttempts

Throw(s) == slot' = [slot EXCEPT ![s].step = "reporting",
                        ![s].outcome = IF willRetry(s) THEN "RETRIED" ELSE "FAILED"]

Return(s) == slot' = [slot EXCEPT ![s].step = "reporting", ![s].outcome = "done"]

(* resolveJob: a name, payload or version this release does not know. *)
resolveJobFails(s) ==
    /\ slot[s].step = "started"
    /\ ~job[slot[s].job].readable
    /\ slot' = [slot EXCEPT ![s].step = "reporting", ![s].permanent = TRUE,
                            ![s].outcome = "FAILED"]
    /\ UNCHANGED <<job, worker, counter, window, mishaps>>

Handles(s) == slot[s].step = "started" /\ job[slot[s].job].readable

(* The handler reloads its row: the account or invitation is gone, or needs *)
(* no message any more. Or the read fails.                                  *)
NothingToSend(s) ==
    /\ Handles(s)
    /\ Return(s) \/ Throw(s)
    /\ UNCHANGED <<job, worker, counter, window, mishaps>>

(* Mail to an address that is proven to be the owner's is not capped. *)
SendUncapped(s) ==
    /\ Handles(s)
    /\ slot' = [slot EXCEPT ![s].step = "sending"]
    /\ UNCHANGED <<job, worker, counter, window, mishaps>>

(* INCR and EXPIRE NX in one transaction; over the limit it is a skip. Or it *)
(* has counted and its answer does not arrive.                              *)
reserve(s) ==
    /\ Handles(s)
    /\ counter' = [exists |-> TRUE, count |-> counter.count + 1, expires |-> TRUE]
    /\ \/ counter'.count > Limit /\ Return(s)
       \/ /\ counter'.count <= Limit
          /\ slot' = [slot EXCEPT ![s].step = "sending", ![s].reserved = TRUE, ![s].own = TRUE]
       \/ Throw(s)
    /\ UNCHANGED <<job, worker, window, mishaps>>

(* The provider takes the message and says so. *)
Send(s) ==
    /\ slot[s].step \in {"sending", "hung"}
    /\ Return(s)
    /\ window' = [window EXCEPT !.sent = IF slot[s].own THEN @ + 1 ELSE @]
    /\ UNCHANGED <<job, worker, counter, mishaps>>

(* The call throws: nothing was sent, or it was and the answer was lost. *)
SendThrows(s, delivered) ==
    /\ slot[s].step \in {"sending", "hung"}
    /\ IF slot[s].reserved
       THEN slot' = [slot EXCEPT ![s].step = "releasing", ![s].delivered = delivered]
       ELSE Throw(s)
    /\ window' = [window EXCEPT !.sent = IF slot[s].own /\ delivered THEN @ + 1 ELSE @]
    /\ UNCHANGED <<job, worker, counter, mishaps>>

(* The provider may also never answer. *)
SendHangs(s) ==
    /\ slot[s].step = "sending"
    /\ Mishap
    /\ slot' = [slot EXCEPT ![s].step = "hung"]
    /\ UNCHANGED <<job, worker, counter, window>>

(* mutant: a bare DECR. *)
GivenBack_Bare(c) == [c EXCEPT !.exists = TRUE, !.count = @ - 1]

(* RELEASE_SCRIPT *)
GivenBack(c) == IF c.exists THEN [c EXCEPT !.count = @ - 1] ELSE c

(* sendReserved gives the unit back, and rethrows. The window is credited  *)
(* (history) with a unit that was not its own, or whose message did go out. *)
release(s) ==
    /\ slot[s].step = "releasing"
    /\ counter' = GivenBack(counter)
    /\ window' = [window EXCEPT !.credit =
                    IF counter.exists /\ (~slot[s].own \/ slot[s].delivered) THEN @ + 1 ELSE @]
    /\ Throw(s)
    /\ UNCHANGED <<job, worker, mishaps>>

releaseFails(s) ==
    /\ slot[s].step = "releasing"
    /\ Throw(s)
    /\ UNCHANGED <<job, worker, counter, window, mishaps>>

(* The counter expires with its window. *)
WindowEnds ==
    /\ counter.exists /\ counter.expires
    /\ counter' = NoCounter
    /\ window' = [sent |-> 0, credit |-> 0]
    /\ slot' = [s \in Slot |-> [slot[s] EXCEPT !.own = FALSE]]
    /\ Mishap
    /\ UNCHANGED <<job, worker>>

(* The attempts option every job is queued with. *)
AttemptsUsedUp(made) == made >= MaxAttempts

(* What BullMQ makes of a failed attempt. *)
MoveToFailed(j, permanent, event) ==
    LET made == job[j].attemptsMade + 1
    IN  [job[j] EXCEPT !.lock = NoSlot, !.attemptsMade = made, !.event = event,
            !.state = IF permanent \/ AttemptsUsedUp(made) THEN "failed" ELSE "delayed"]

(* The worker reports to BullMQ; without the lock it changes nothing. *)
Report(s) ==
    LET j == slot[s].job
    IN  /\ slot[s].step = "reporting"
        /\ job' = IF job[j].lock # s THEN job
                  ELSE IF slot[s].outcome = "done"
                       THEN [job EXCEPT ![j] = Gone("completed")]
                       ELSE [job EXCEPT ![j] =
                               MoveToFailed(j, slot[s].permanent, slot[s].outcome)]
        /\ slot' = [slot EXCEPT ![s] = IdleSlot]
        /\ UNCHANGED <<worker, counter, window, mishaps>>

----------------------------------------------------------------------------
(* Processes *)

startConsuming(w) == worker' = [worker EXCEPT ![w] = "up"]

Boot(w) ==
    /\ worker[w] = "down"
    /\ startConsuming(w)
    /\ UNCHANGED <<job, slot, counter, window, mishaps>>

(* SIGTERM or SIGINT: no job is taken any more. A second signal is ignored. *)
shutdown(w) ==
    /\ worker[w] = "up"
    /\ Mishap
    /\ worker' = [worker EXCEPT ![w] = "draining"]
    /\ UNCHANGED <<job, slot, counter, window>>

(* mutant: Nest's own order, which closes the pools first. *)
Drained_NotAwaited(w) == TRUE

(* worker.close() has waited for the jobs under way. *)
Drained(w) == \A s \in Slot : s[1] = w => ~Running(s)

(* shutDownGracefully: the context closes Prisma and Redis. *)
closeContext(w) ==
    /\ worker[w] = "draining"
    /\ Drained(w)
    /\ worker' = [worker EXCEPT ![w] = "closing"]
    /\ UNCHANGED <<job, slot, counter, window, mishaps>>

(* The process is gone, with whatever it was doing. *)
Exit(w) ==
    /\ worker' = [worker EXCEPT ![w] = "down"]
    /\ slot' = [s \in Slot |-> IF s[1] = w THEN IdleSlot ELSE slot[s]]
    /\ UNCHANGED <<job, counter, window>>

exitCleanly(w) ==
    /\ worker[w] = "closing"
    /\ Exit(w)
    /\ UNCHANGED mishaps

(* The timer of registerShutdownHandlers runs from the signal to the exit. *)
shutdownTimer(w) == worker[w] \in {"draining", "closing"}

(* mutant: process.exitCode = 1, and the process is left to end by itself,  *)
(* which it does not while a handler is at work.                            *)
exitAnyway_CodeOnly(w) ==
    /\ shutdownTimer(w)
    /\ Drained(w)
    /\ Exit(w)
    /\ UNCHANGED mishaps

(* Its process.exit(1) cuts off whatever the handlers are doing. *)
exitAnyway(w) ==
    /\ shutdownTimer(w)
    /\ Exit(w)
    /\ UNCHANGED mishaps

Die(w) ==
    /\ worker[w] # "down"
    /\ Mishap
    /\ Exit(w)

----------------------------------------------------------------------------
(* QueueAdminService over QueueInspectionService *)

retryFailedJob(j) ==
    /\ job[j].state = "failed"
    /\ Mishap
    /\ job' = [job EXCEPT ![j].state = "waiting"]
    /\ UNCHANGED <<slot, worker, counter, window>>

(* Anything but a running job; the queue's retention removes finished ones. *)
cancelJob(j) ==
    /\ job[j].state \notin {"none", "active", "removed"}
    /\ Mishap
    /\ job' = [job EXCEPT ![j] = Gone("removed")]
    /\ UNCHANGED <<slot, worker, counter, window>>

Handle(s) ==
    \/ resolveJobFails(s) \/ NothingToSend(s) \/ SendUncapped(s) \/ reserve(s)

DeliveryNext ==
    \/ \E j \in Job : enqueue(j) \/ Promote(j) \/ Stall(j) \/ retryFailedJob(j) \/ cancelJob(j)
    \/ \E s \in Slot :
        \/ \E j \in Job : Take(s, j)
        \/ Handle(s)
        \/ Send(s) \/ SendHangs(s) \/ \E delivered \in BOOLEAN : SendThrows(s, delivered)
        \/ release(s) \/ releaseFails(s) \/ Report(s)
    \/ \E w \in Worker :
        Boot(w) \/ shutdown(w) \/ closeContext(w) \/ exitCleanly(w) \/ exitAnyway(w) \/ Die(w)
    \/ WindowEnds

(* BullMQ goes on serving, a stopped process is started again, and a       *)
(* process that runs goes on; nothing is assumed of the provider, of       *)
(* operators or of the clock, except that the shutdown timer fires.        *)
DeliveryFairness ==
    /\ \A j \in Job :
        /\ WF_deliveryVars(\E s \in Slot : Take(s, j))
        /\ WF_deliveryVars(Promote(j))
        /\ WF_deliveryVars(Abandoned(j) /\ Stall(j))
    /\ \A s \in Slot :
        /\ WF_deliveryVars(Handle(s))
        /\ WF_deliveryVars(release(s) \/ releaseFails(s))
        /\ WF_deliveryVars(Report(s))
        /\ WF_deliveryVars(slot[s].step = "sending" /\
                (Send(s) \/ SendHangs(s) \/ \E d \in BOOLEAN : SendThrows(s, d)))
    /\ \A w \in Worker : WF_deliveryVars(Boot(w)) /\ WF_deliveryVars(exitAnyway(w))

DeliverySpec == DeliveryInit /\ [][DeliveryNext]_deliveryVars /\ DeliveryFairness

----------------------------------------------------------------------------
(* Properties *)

(* Sends under way whose reservation is of the open window. *)
Held == Cardinality({s \in Slot : slot[s].step \in {"sending", "hung"} /\ slot[s].own})

(* "Caps how many messages one destination receives per window": the       *)
(* messages sent or being sent on a reservation of the open window exceed  *)
(* the limit only by the units given back that were not its own or whose   *)
(* message had gone out, whatever is retried, cut off or run twice.        *)
WithinLimit == window.sent + Held <= Limit + window.credit

(* "finishing jobs against a closed pool" is what drainWorkers is for: no  *)
(* handler runs in a process that has closed Prisma and Redis.             *)
NoJobOnAClosedPool ==
    \A s \in Slot : Running(s) => worker[s[1]] \in {"up", "draining"}

(* What process() has logged of a failed attempt (retried or failed) is     *)
(* what BullMQ makes of the job when the attempt is reported under its lock, *)
(* however often the job stalled or was retried by an operator before. What  *)
(* an attempt logs that has lost its lock is the subject of the next one.    *)
LoggedOutcomeIsReal ==
    \A j \in Job :
        /\ job[j].state = "delayed" => job[j].event = "RETRIED"
        /\ job[j].state = "failed" =>
            job[j].event = "FAILED" \/ (job[j].event = "none" /\ job[j].stalls > MaxStalled)

(* "so the log says what is actually about to happen rather than guessing"   *)
(* (queue-processor.base.ts): a job that process() has logged as failed is    *)
(* not waiting to be run, running elsewhere or completed.                     *)
LogSaysWhatHappens ==
    \A s \in Slot : slot[s].step = "reporting" /\ slot[s].outcome = "FAILED" =>
        LET j == job[slot[s].job]
        IN  j.lock = s \/ j.state \in {"failed", "removed"}

(* A call of the job never answers, or every slot is in such a call, in     *)
(* processes that nobody stops.                                             *)
Hung(j) ==
    LET stuck == {s \in Slot : slot[s].step = "hung" /\ worker[s[1]] = "up"}
    IN  stuck = Slot \/ \E s \in stuck : slot[s].job = j

(* Every queued job ends and, once nobody retries it by hand, stays ended,   *)
(* whatever processes stop or die under it: "any job still active stays in   *)
(* Redis and is retried" once the shutdown's time is up. Unless the provider *)
(* never answers: nothing but a shutdown bounds a handler.                   *)
JobsEnd ==
    <>[](\A j \in Job :
            job[j].state \in {"none", "completed", "failed", "removed"} \/ Hung(j))
=============================================================================
