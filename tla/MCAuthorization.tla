-------------------------- MODULE MCAuthorization --------------------------
(* Model-checking instance of Authorization. *)
EXTENDS Authorization, TLC

CONSTANTS root, bob, w1, w2, r1, r2, r3

(* root administers the platform and owns both workspaces; bob works in w1. *)
MCSeatRole == (root :> (w1 :> "WORKSPACE_OWNER" @@ w2 :> "WORKSPACE_OWNER"))
              @@ (bob :> (w1 :> "WORKSPACE_STAFF" @@ w2 :> NoRole))

MCAssignable == {"PLATFORM_ADMIN"}

RoleCall(op, u, t) == [op |-> op, user |-> u, target |-> t,
                       role |-> "PLATFORM_ADMIN", workspace |-> NoWorkspace]

ListCall(u, w) == [op |-> "list", user |-> u, target |-> Nobody,
                   role |-> NoRole, workspace |-> w]

Suspend(u, w) == [op |-> "reseat", user |-> Nobody, target |-> u,
                  role |-> NoRole, workspace |-> w]

(* root gives up the administrator's role; bob reads the roster of his *)
(* workspace and loses his seat.                                       *)
AgeingCalls == {RoleCall("revoke", root, root), ListCall(bob, w1), Suspend(bob, w1)}

(* root also makes bob one; bob tries to take the role himself and reads the roster *)
(* of a workspace he has no seat in.                                       *)
EpochCalls == {RoleCall("assign", root, bob), RoleCall("revoke", root, root),
               RoleCall("assign", bob, bob), ListCall(bob, w2)}

AllCalls == AgeingCalls \union EpochCalls

(* A behaviour has time pass under the first calls, or the epoch move under *)
(* the others: part says which, and WithinBudget keeps it so.               *)
VARIABLE part

MCInit == Init /\ part \in {"age", "epoch"}

MCNext == Next /\ UNCHANGED part

MCSpec == MCInit /\ [][MCNext]_<<vars, part>>

WithinBudget ==
    IF part = "age"
    THEN epoch' = 0 /\ \A r \in Request : req'[r].call \in AgeingCalls \union {NoCall}
    ELSE now' = 0 /\ \A r \in Request : req'[r].call \in EpochCalls \union {NoCall}

RequestSymmetry == Permutations(Request)
=============================================================================
