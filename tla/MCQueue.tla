------------------------------ MODULE MCQueue ------------------------------
(***************************************************************************)
(* Model-checking instance of the queue: the delivery of jobs, the         *)
(* recurring schedules, the rescheduling of one, and the recurring cleanup *)
(* of files. They share no state: a behaviour is one of the component it   *)
(* starts with.                                                            *)
(***************************************************************************)
EXTENDS Delivery, Recurring, Reschedule, Files

CONSTANTS j1, j2, s1, s2, s3, old, new

VARIABLE part

others(vs) == UNCHANGED <<part, vs>>

MCInit ==
    /\ part \in {"delivery", "recurring", "reschedule", "files"}
    /\ DeliveryInit /\ RecurringInit /\ RescheduleInit /\ Init
    /\ part # "delivery" => mishaps = 0
    /\ part = "delivery" => mishaps # 0
    /\ part # "recurring" => installed = {}

queueVars == <<deliveryVars, recurringVars, rescheduleVars>>

(* The queue may come to rest; the files, with requests and time, never do. *)
MCNext ==
    \/ part = "delivery" /\ DeliveryNext /\ others(<<recurringVars, rescheduleVars, vars>>)
    \/ part = "recurring" /\ RecurringNext /\ others(<<deliveryVars, rescheduleVars, vars>>)
    \/ part = "reschedule" /\ RescheduleNext /\ others(<<deliveryVars, recurringVars, vars>>)
    \/ part = "files" /\ Next /\ others(queueVars)
    \/ part # "files" /\ UNCHANGED <<part, queueVars, vars>>

MCSpec ==
    /\ MCInit /\ [][MCNext]_<<part, queueVars, vars>>
    /\ part # "files" => DeliveryFairness
    /\ part = "files" => FilesFairness

(* Two jobs and one rare event, or one job and three. *)
MCBudgets == {[jobs |-> {j1, j2}, mishaps |-> 1], [jobs |-> {j1}, mishaps |-> 3],
              [jobs |-> {}, mishaps |-> 0]}

(* One schedule comes with the new release, one goes. *)
MCDeclared == [r \in Release |-> IF r = old THEN {s1, s2} ELSE {s2, s3}]
=============================================================================
