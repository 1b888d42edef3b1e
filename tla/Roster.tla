------------------------------ MODULE Roster ------------------------------
(***************************************************************************)
(* Who belongs to which workspace: WorkspacesService,                       *)
(* WorkspaceMembershipsService, WorkspaceInvitationsService and the account  *)
(* lifecycle of UsersService, with the two policies they share               *)
(* (WorkspaceOwnershipPolicy, WorkspaceRoleAssignmentPolicy) and the row     *)
(* locks of row-lock.util.ts.                                               *)
(*                                                                          *)
(* A request is: a Begin step (the permission guard and every read made      *)
(* before the transaction), one step per row lock, one step for the reads     *)
(* that decide under the locks, one for the writes with the commit, and one  *)
(* per cached grant it drops afterwards. Statements that wait for a row lock      *)
(* without taking one (a bare UPDATE, the FOR KEY SHARE a foreign key takes    *)
(* on the referenced users row) are steps whose guard is that lock.          *)
(*                                                                          *)
(* An address is named by the user who owns it.                             *)
(***************************************************************************)
EXTENDS Naturals, FiniteSets, FiniteSetsExt

CONSTANTS
    Users,            \* accounts that exist or may register
    Workspaces,       \* workspace ids: naturals, locked in ascending order
    Requests,         \* HTTP requests in flight at the same time
    Invitations,      \* bound: invitation rows that can ever be written
    PlatformAdmins,   \* the users holding `manage all`
    RolesOffered,     \* bound: the roles a request body may name
    MaxRotations,     \* bound: resends of one invitation
    Strangers,        \* users that have no account yet
    Nobody,           \* the holder of a free lock, the null user
    NoInvitation,     \* the null invitation
    NotCached,        \* no cached grants
    RedisReachable,   \* whether the grants cache can be used
    MayCrash,         \* whether processes die
    Operations        \* which of AllOperations clients call

Roles == {"OWNER", "ADMIN", "MANAGER", "STAFF"}

MembershipOps == {"add", "changeRole", "suspend", "reactivate", "remove",
                  "transferOwnership"}
InvitationOps == {"invite", "revoke", "resend", "accept"}
AccountOps == {"delete", "erase", "deactivate", "activate", "deactivateAgain"}
AllOperations == {"create", "close"} \cup MembershipOps \cup InvitationOps
                    \cup AccountOps

ASSUME RosterAssumption ==
    /\ Workspaces \subseteq Nat
    /\ IsFiniteSet(Requests)
    /\ PlatformAdmins \subseteq Users
    /\ Strangers \subseteq Users
    /\ RolesOffered \subseteq Roles
    /\ Operations \subseteq AllOperations
    /\ Nobody \notin Requests \cup Users
    /\ NoInvitation \notin Invitations
    /\ MaxRotations \in Nat
    /\ RedisReachable \in BOOLEAN
    /\ MayCrash \in BOOLEAN

VARIABLES
    account,      \* the users table
    workspace,    \* the workspaces table: absent, live or closed (deletedAt)
    member,       \* workspace_memberships, by workspace and user
    invitation,   \* workspace_invitations
    grants,       \* the Redis copies of loadGrants
    userLock,     \* who holds each users row FOR UPDATE
    workspaceLock,\* who holds each workspaces row FOR UPDATE
    req,          \* every request's progress and local variables
    outdated      \* history: invitations sent before their addressee was
                  \* suspended or removed

tables == <<account, workspace, member, invitation>>
locks == <<userLock, workspaceLock>>
vars == <<tables, grants, locks, req, outdated>>

NoRole == "none"
Unbounded == 1000            \* UNBOUNDED_RANK

Account == [exists : BOOLEAN, active : BOOLEAN, deleted : BOOLEAN,
            verified : BOOLEAN]
Membership == [status : {"NONE", "ACTIVE", "SUSPENDED", "LEFT"},
               role : Roles \cup {NoRole}]
Invitation == [status : {"NONE", "PENDING", "ACCEPTED", "REVOKED", "EXPIRED"},
               in : Workspaces \cup {0},
               to : Users \cup {Nobody},        \* the address
               bound : BOOLEAN,                 \* invitedUserId is set
               role : Roles \cup {NoRole},
               by : Users \cup {Nobody},
               lapsed : BOOLEAN,                \* expiresAt has passed
               rotations : 0..MaxRotations]     \* how often the token changed

Stages == {"idle", "lockUser", "lockWorkspaces", "check", "write",
           "statement", "drop"}
Request == [pc : Stages,
            op : AllOperations \cup {"none"},
            actor : Users \cup {Nobody},
            target : Users \cup {Nobody},       \* the user row concerned
            in : Workspaces \cup {0},
            role : Roles \cup {NoRole},
            rank : Nat,                         \* actorRank
            todo : SUBSET Workspaces,           \* workspace rows left to lock
            owned : SUBSET Workspaces,
            inv : Invitations \cup {NoInvitation},
            rotations : 0..MaxRotations,        \* which token was presented
            bound : BOOLEAN,                    \* existingUser was found
            drop : SUBSET Users]                \* invalidateUser calls to make

Idle == [pc |-> "idle", op |-> "none", actor |-> Nobody, target |-> Nobody,
         in |-> 0, role |-> NoRole, rank |-> 0, todo |-> {}, owned |-> {},
         inv |-> NoInvitation, rotations |-> 0, bound |-> FALSE, drop |-> {}]

TypeOK ==
    /\ account \in [Users -> Account]
    /\ workspace \in [Workspaces -> {"absent", "live", "closed"}]
    /\ member \in [Workspaces -> [Users -> Membership]]
    /\ invitation \in [Invitations -> Invitation]
    /\ grants \in [Users -> [Workspaces -> Roles \cup {NoRole}] \cup {NotCached}]
    /\ userLock \in [Users -> Requests \cup {Nobody}]
    /\ workspaceLock \in [Workspaces -> Requests \cup {Nobody}]
    /\ req \in [Requests -> Request]
    /\ outdated \subseteq Invitations

NoInvitationRow == [status |-> "NONE", in |-> 0, to |-> Nobody, bound |-> FALSE,
                    role |-> NoRole, by |-> Nobody, lapsed |-> FALSE,
                    rotations |-> 0]

(* Accounts exist and are verified except the strangers; there is no         *)
(* workspace yet.                                                            *)
Init ==
    /\ account = [u \in Users |->
           [exists |-> u \notin Strangers, active |-> TRUE, deleted |-> FALSE,
            verified |-> u \notin Strangers]]
    /\ workspace = [w \in Workspaces |-> "absent"]
    /\ member = [w \in Workspaces |->
           [u \in Users |-> [status |-> "NONE", role |-> NoRole]]]
    /\ invitation = [i \in Invitations |-> NoInvitationRow]
    /\ grants = [u \in Users |-> NotCached]
    /\ userLock = [u \in Users |-> Nobody]
    /\ workspaceLock = [w \in Workspaces |-> Nobody]
    /\ req = [r \in Requests |-> Idle]
    /\ outdated = {}

-----------------------------------------------------------------------------
(* Roles, ranks and permissions *)

Rank(role) == CASE role = "OWNER" -> 100
                [] role = "ADMIN" -> 70
                [] role = "MANAGER" -> 40
                [] role = "STAFF" -> 20
                [] OTHER -> 0

Growing == {"read", "create", "invite"}
Administering == Growing \cup {"delete", "assignRole", "suspend", "revoke"}

Permissions(role) ==
    CASE role = "OWNER" -> Administering \cup {"close", "transferOwnership"}
      [] role = "ADMIN" -> Administering
      [] role = "MANAGER" -> Growing
      [] role = "STAFF" -> {"read"}
      [] OTHER -> {}

(* prisma.scoped.user: not soft-deleted *)
Present(u) == account[u].exists /\ ~account[u].deleted
(* JwtStrategy and assertUserMayHoldActiveMembership: may sign in *)
Usable(u) == Present(u) /\ account[u].active

(* loadGrantsFromDatabase *)
FreshGrants(u) ==
    [w \in Workspaces |->
        IF Present(u) /\ workspace[w] = "live" /\ member[w][u].status = "ACTIVE"
        THEN member[w][u].role ELSE NoRole]

(* loadGrants: the cached copy if there is one; without Redis, the database *)
Grants(u) == IF grants[u] = NotCached THEN FreshGrants(u) ELSE grants[u]
LoadGrants(U) ==
    grants' = [u \in Users |-> IF RedisReachable /\ u \in U THEN Grants(u)
                               ELSE grants[u]]

Can(u, action, w) ==
    u \in PlatformAdmins \/ action \in Permissions(Grants(u)[w])

(* resolveActorRank: refuses, or answers with a ceiling *)
HasRank(u, w) == u \in PlatformAdmins \/ member[w][u].status = "ACTIVE"
ActorRank(u, w) == IF u \in PlatformAdmins THEN Unbounded
                   ELSE Rank(member[w][u].role)

(* assertMayAssign *)
MayAssign(u, w, role) ==
    /\ Can(u, "assignRole", w) \/ role = "STAFF"
    /\ HasRank(u, w)
    /\ Rank(role) <= ActorRank(u, w)

-----------------------------------------------------------------------------
(* Ownership *)

(* ACTIVE_OWNER *)
ActiveOwner(w, u) == member[w][u].status = "ACTIVE" /\ member[w][u].role = "OWNER"

(* Mutant of UsableOwner: a deactivated owner is counted. *)
UsableOwner_CountsInactive(w, u) == ActiveOwner(w, u) /\ Present(u)

(* ACTIVE_OWNER_OF_USABLE_ACCOUNT *)
UsableOwner(w, u) == ActiveOwner(w, u) /\ Usable(u)

(* assertAnotherActiveOwnerExists *)
AnotherOwner(w, u) == \E v \in Users \ {u} : UsableOwner(w, v)

(* findSolelyOwnedLiveWorkspaces, first query: before the workspace locks *)
OwnedLive(u) == {w \in Workspaces : workspace[w] = "live" /\ ActiveOwner(w, u)}

(* ... and second query: under them *)
SolelyOwned(r) == {w \in req[r].owned : ~AnotherOwner(w, req[r].target)}

-----------------------------------------------------------------------------
(* Row locks *)

FreeFor(r, holder) == holder \in {Nobody, r}

Goto(r, stage) == req' = [req EXCEPT ![r].pc = stage]

(* the transaction ends *)
ReleaseLocks(r) ==
    /\ userLock' = [u \in Users |->
                       IF userLock[u] = r THEN Nobody ELSE userLock[u]]
    /\ workspaceLock' = [w \in Workspaces |->
                       IF workspaceLock[w] = r THEN Nobody ELSE workspaceLock[w]]

(* COMMIT; the cached grants of the users in U are dropped afterwards. *)
Commit(r, U) ==
    /\ ReleaseLocks(r)
    /\ req' = [req EXCEPT ![r] = IF U = {} \/ ~RedisReachable THEN Idle
                                 ELSE [Idle EXCEPT !.pc = "drop", !.drop = U]]

(* The handler throws: ROLLBACK. *)
Refuse(r) ==
    /\ ReleaseLocks(r)
    /\ req' = [req EXCEPT ![r] = Idle]
    /\ UNCHANGED <<tables, grants, outdated>>

(* Operations that take the users row of their target first. *)
LocksUser == {"create", "add", "changeRole", "reactivate", "transferOwnership",
              "accept", "delete", "erase", "deactivate"}
(* ... and re-read it, refusing if the account may not sign in *)
NeedsUsable == LocksUser \ {"delete", "erase", "deactivate"}
Lifecycle == {"delete", "erase", "deactivate"}

(* Mutant of MayHoldActive: the lock without the re-read. *)
MayHoldActive_NoReRead(r) == TRUE

(* assertUserMayHoldActiveMembership, after lockUserRow *)
MayHoldActive(r) == req[r].op \in NeedsUsable => Usable(req[r].target)

(* lockUserRow, with the read that follows it: the account itself for a      *)
(* membership path, the owned workspaces for an account path.                *)
LockUser(r) ==
    LET u == req[r].target
        owned == IF req[r].op \in Lifecycle THEN OwnedLive(u) ELSE {}
        todo == IF req[r].op \in Lifecycle THEN owned ELSE req[r].todo
    IN  /\ req[r].pc = "lockUser"
        /\ userLock[u] = Nobody
        /\ MayHoldActive(r)
        /\ userLock' = [userLock EXCEPT ![u] = r]
        /\ req' = [req EXCEPT ![r].owned = owned, ![r].todo = todo,
                      ![r].pc = IF todo = {} THEN "check" ELSE "lockWorkspaces"]
        /\ UNCHANGED <<tables, grants, workspaceLock, outdated>>

(* The re-read finds the account gone. *)
LockUserRefused(r) ==
    /\ req[r].pc = "lockUser"
    /\ userLock[req[r].target] = Nobody
    /\ ~MayHoldActive(r)
    /\ Refuse(r)

(* Mutant of NextWorkspace: no order. *)
NextWorkspace_Unordered(r, w) == w \in req[r].todo

(* lockWorkspaceRows: ascending by id *)
NextWorkspace(r, w) == w \in req[r].todo /\ w = Min(req[r].todo)

(* lockWorkspaceRow *)
LockWorkspace(r) ==
    \E w \in Workspaces :
        /\ req[r].pc = "lockWorkspaces"
        /\ NextWorkspace(r, w)
        /\ workspaceLock[w] = Nobody
        /\ workspaceLock' = [workspaceLock EXCEPT ![w] = r]
        /\ req' = [req EXCEPT ![r].todo = @ \ {w},
                      ![r].pc = IF req[r].todo = {w} THEN "check"
                                ELSE "lockWorkspaces"]
        /\ UNCHANGED <<tables, grants, userLock, outdated>>

-----------------------------------------------------------------------------
(* Begin: the permission guard and the reads before the transaction. Only     *)
(* requests that get past them are modelled; the others change nothing but    *)
(* the cached copy of their caller's grants, which LoadForRead covers.        *)

(* r is idle and a, its caller, may sign in: see BeginAny. *)
Begin(r, op, a, local) ==
    /\ op \in Operations
    /\ req' = [req EXCEPT ![r] = local]
    /\ LoadGrants({a})
    /\ UNCHANGED <<tables, locks, outdated>>

LockingFirst(op) == IF op \in LocksUser THEN "lockUser" ELSE "lockWorkspaces"

(* Any authorized read: fills the caller's cached grants. *)
LoadForRead(u) ==
    /\ Usable(u)
    /\ RedisReachable /\ grants[u] = NotCached
    /\ LoadGrants({u})
    /\ UNCHANGED <<tables, locks, req, outdated>>

(* WorkspacesService.create: any authenticated user holds CREATE_WORKSPACE. *)
BeginCreate(r, a, w) ==
    /\ workspace[w] = "absent"
    /\ \A s \in Requests : req[s].op = "create" => req[s].in # w  \* a fresh id
    /\ Begin(r, "create", a,
             [Idle EXCEPT !.pc = "lockUser", !.op = "create", !.actor = a,
                          !.target = a, !.in = w])

(* findById: rows of a live workspace and an account that is not deleted *)
Visible(w, u) ==
    /\ member[w][u].status # "NONE"
    /\ Present(u)
    /\ workspace[w] = "live"

(* WorkspaceMembershipsService.add *)
BeginAdd(r, a, w, u, role) ==
    /\ workspace[w] # "absent"
    /\ Can(a, "create", w)
    /\ Present(u)
    /\ MayAssign(a, w, role)
    /\ Begin(r, "add", a,
             [Idle EXCEPT !.pc = "lockUser", !.op = "add", !.actor = a,
                          !.target = u, !.in = w, !.role = role, !.todo = {w}])

(* changeRole *)
BeginChangeRole(r, a, w, u, role) ==
    /\ Can(a, "assignRole", w)
    /\ Visible(w, u)
    /\ MayAssign(a, w, role)
    /\ Begin(r, "changeRole", a,
             [Idle EXCEPT !.pc = "lockUser", !.op = "changeRole", !.actor = a,
                          !.target = u, !.in = w, !.role = role,
                          !.rank = ActorRank(a, w), !.todo = {w}])

(* transition: suspend, reactivate and remove; only the one that ends in      *)
(* ACTIVE takes the users row.                                                *)
BeginTransition(r, op, a, w, u) ==
    /\ op \in {"suspend", "reactivate", "remove"}
    /\ Can(a, IF op = "remove" THEN "delete" ELSE "suspend", w)
    /\ Visible(w, u)
    /\ HasRank(a, w)
    /\ Begin(r, op, a,
             [Idle EXCEPT !.pc = LockingFirst(op), !.op = op, !.actor = a,
                          !.target = u, !.in = w, !.rank = ActorRank(a, w),
                          !.todo = {w}])

(* transferOwnership: no rank is read *)
BeginTransfer(r, a, w, u) ==
    /\ Can(a, "transferOwnership", w)
    /\ Visible(w, u)
    /\ Begin(r, "transferOwnership", a,
             [Idle EXCEPT !.pc = "lockUser", !.op = "transferOwnership",
                          !.actor = a, !.target = u, !.in = w, !.todo = {w}])

(* WorkspacesService.remove *)
BeginClose(r, a, w) ==
    /\ Can(a, "close", w)
    /\ workspace[w] = "live"
    /\ Begin(r, "close", a,
             [Idle EXCEPT !.pc = "statement", !.op = "close", !.actor = a, !.in = w,
                !.drop = {u \in Users : member[w][u].status # "NONE"}])

(* softDelete and gdprErase by the owner; remove, and update with             *)
(* isActive = false, by an administrator. findById finds deleted rows too.    *)
BeginAccount(r, op, a, u) ==
    /\ \/ op \in {"delete", "erase"} /\ a = u
       \/ op = "delete" /\ a \in PlatformAdmins
       \/ op = "deactivate" /\ a \in PlatformAdmins /\ account[u].active
    /\ account[u].exists
    /\ Begin(r, op, a,
             [Idle EXCEPT !.pc = "lockUser", !.op = op, !.actor = a, !.target = u])

(* UsersService.update whenever it is not a deactivation as far as its own     *)
(* read can tell: a bare UPDATE. deactivateAgain is isActive = false sent for  *)
(* an account that was read inactive.                                         *)
BeginUpdate(r, op, a, u) ==
    /\ op \in {"activate", "deactivateAgain"}
    /\ op = "deactivateAgain" => ~account[u].active
    /\ a \in PlatformAdmins
    /\ account[u].exists
    /\ Begin(r, op, a,
             [Idle EXCEPT !.pc = "statement", !.op = op, !.actor = a, !.target = u])

(* WorkspaceInvitationsService.create *)
BeginInvite(r, a, w, u, role) ==
    /\ Can(a, "invite", w)
    /\ MayAssign(a, w, role)
    /\ workspace[w] = "live"
    /\ Begin(r, "invite", a,
             [Idle EXCEPT !.pc = "lockWorkspaces", !.op = "invite", !.actor = a,
                          !.target = u, !.in = w, !.role = role, !.todo = {w},
                          !.bound = Present(u)])

(* revoke *)
BeginRevoke(r, a, i) ==
    /\ invitation[i].status # "NONE"
    /\ Can(a, "revoke", invitation[i].in)
    /\ Begin(r, "revoke", a,
             [Idle EXCEPT !.pc = "statement", !.op = "revoke", !.actor = a, !.inv = i])

(* resend; a destination without send budget is answered without a step *)
BeginResend(r, a, i) ==
    /\ invitation[i].status # "NONE"
    /\ Can(a, "invite", invitation[i].in)
    /\ MayAssign(a, invitation[i].in, invitation[i].role)
    /\ workspace[invitation[i].in] = "live"
    /\ Begin(r, "resend", a,
             [Idle EXCEPT !.pc = "statement", !.op = "resend", !.actor = a, !.inv = i])

(* assertIsInvitee *)
IsInvitee(i, a) ==
    /\ invitation[i].to = a
    /\ invitation[i].bound \/ account[a].verified

(* accept: the invitation is found by its current token, read PENDING and not  *)
(* lapsed. `now` is taken here, so the later expiresAt > now cannot fail.      *)
BeginAccept(r, a, i) ==
    /\ invitation[i].status = "PENDING"
    /\ ~invitation[i].lapsed
    /\ workspace[invitation[i].in] = "live"
    /\ IsInvitee(i, a)
    /\ Begin(r, "accept", a,
             [Idle EXCEPT !.pc = "lockUser", !.op = "accept", !.actor = a,
                          !.target = a, !.in = invitation[i].in, !.inv = i,
                          !.rotations = invitation[i].rotations,
                          !.todo = {invitation[i].in}])

-----------------------------------------------------------------------------
(* Under the locks: the reads that decide, then the statements and the commit. *)
(* READ COMMITTED lets other transactions commit in between; only the locks    *)
(* keep them from it.                                                         *)

Row(r) == member[req[r].in][req[r].target]

SetRow(r, status, role) ==
    member' = [member EXCEPT ![req[r].in][req[r].target] =
                  [status |-> status, role |-> role]]

(* the status each transition ends in *)
NewStatus(op) == CASE op = "suspend" -> "SUSPENDED"
                   [] op = "reactivate" -> "ACTIVE"
                   [] OTHER -> "LEFT"

(* add: only a former member re-joins *)
AddAllowed(r) == Row(r).status \in {"NONE", "LEFT"}

(* changeRole: assertRankPermits on the existing role, the last-owner rule *)
ChangeRoleAllowed(r) ==
    /\ Rank(Row(r).role) <= req[r].rank
    /\ Row(r).role = "OWNER" /\ req[r].role # "OWNER"
          => AnotherOwner(req[r].in, req[r].target)

(* transition *)
TransitionAllowed(r) ==
    LET op == req[r].op
    IN  /\ Rank(Row(r).role) <= req[r].rank
        /\ Row(r).status # NewStatus(op)
        /\ op = "suspend" => Row(r).status = "ACTIVE"
        /\ op = "reactivate" => Row(r).status = "SUSPENDED"
        /\ op \in {"suspend", "remove"} /\ ActiveOwner(req[r].in, req[r].target)
              => AnotherOwner(req[r].in, req[r].target)

(* transferOwnership *)
TransferAllowed(r) ==
    /\ Visible(req[r].in, req[r].target)
    /\ Row(r).status = "ACTIVE"
    /\ req[r].target # req[r].actor

(* invitations.create: not on the roster, as far as the account was known *)
InviteAllowed(r) == req[r].bound => Row(r).status \in {"NONE", "LEFT"}

(* assertInviterMayStillAssign *)
InviterMayStillAssign(i) ==
    LET inv == invitation[i]
    IN  Usable(inv.by) /\ MayAssign(inv.by, inv.in, inv.role)

Allowed(r) ==
    CASE req[r].op = "add" -> AddAllowed(r)
      [] req[r].op = "changeRole" -> ChangeRoleAllowed(r)
      [] req[r].op \in {"suspend", "reactivate", "remove"} -> TransitionAllowed(r)
      [] req[r].op = "transferOwnership" -> TransferAllowed(r)
      [] req[r].op = "invite" -> InviteAllowed(r)
      [] req[r].op = "accept" -> InviterMayStillAssign(req[r].inv)
      [] req[r].op \in {"delete", "deactivate"} -> SolelyOwned(r) = {}
      [] OTHER -> TRUE                                 \* create, erase

(* accept loads the inviter's grants through the cache, for a usable inviter; *)
(* nothing else reads grants under its locks.                                *)
Inviter(r) == IF req[r].op = "accept"
              THEN {u \in {invitation[req[r].inv].by} : Usable(u)} ELSE {}

(* The checks pass. What an erasure will close is remembered. *)
Check(r) ==
    /\ req[r].pc = "check"
    /\ Allowed(r)
    /\ req' = [req EXCEPT ![r].pc = "write", ![r].owned = SolelyOwned(r)]
    /\ LoadGrants(Inviter(r))
    /\ UNCHANGED <<tables, locks, outdated>>

(* The handler throws. *)
CheckRefused(r) ==
    /\ req[r].pc = "check"
    /\ ~Allowed(r)
    /\ LoadGrants(Inviter(r))
    /\ ReleaseLocks(r)
    /\ req' = [req EXCEPT ![r] = Idle]
    /\ UNCHANGED <<tables, outdated>>

Writing(r, op) == req[r].pc = "write" /\ req[r].op = op

(* INSERT ... invited_by takes FOR KEY SHARE on the users row it names. *)
ReferenceFree(r, u) == FreeFor(r, userLock[u])

WriteCreate(r) ==
    /\ Writing(r, "create")
    /\ workspace' = [workspace EXCEPT ![req[r].in] = "live"]
    /\ SetRow(r, "ACTIVE", "OWNER")
    /\ Commit(r, {req[r].actor})
    /\ UNCHANGED <<account, invitation, grants, outdated>>

(* an UPDATE of the row of a former member, or an INSERT *)
WriteAdd(r) ==
    /\ Writing(r, "add")
    /\ Row(r).status = "NONE" => ReferenceFree(r, req[r].actor)
    /\ SetRow(r, "ACTIVE", req[r].role)
    /\ Commit(r, {req[r].target})
    /\ UNCHANGED <<account, workspace, invitation, grants, outdated>>

WriteChangeRole(r) ==
    /\ Writing(r, "changeRole")
    /\ SetRow(r, Row(r).status, req[r].role)
    /\ Commit(r, {req[r].target})
    /\ UNCHANGED <<account, workspace, invitation, grants, outdated>>

(* Mutant of Withdrawn: nothing is withdrawn. *)
Withdrawn_None(w, u) == {}

(* revokePendingInvitations: by account, or by address once it is verified *)
Withdrawn(w, u) ==
    {i \in Invitations :
        /\ invitation[i].status = "PENDING"
        /\ invitation[i].in = w
        /\ invitation[i].to = u
        /\ invitation[i].bound \/ account[u].verified}

AddressedTo(w, u) ==
    {i \in Invitations : invitation[i].in = w /\ invitation[i].to = u}

(* suspend, reactivate, remove; the two that end access withdraw invitations *)
WriteTransition(r) ==
    LET op == req[r].op
        ending == op # "reactivate"
        withdrawn == IF ending THEN Withdrawn(req[r].in, req[r].target) ELSE {}
    IN  /\ req[r].pc = "write" /\ op \in {"suspend", "reactivate", "remove"}
        /\ invitation' = [i \in Invitations |->
               IF i \in withdrawn THEN [invitation[i] EXCEPT !.status = "REVOKED"]
               ELSE invitation[i]]
        /\ SetRow(r, NewStatus(op), Row(r).role)
        /\ outdated' = IF ending
                       THEN outdated \cup AddressedTo(req[r].in, req[r].target)
                       ELSE outdated
        /\ Commit(r, {req[r].target})
        /\ UNCHANGED <<account, workspace, grants>>

(* Mutant of TransferRole: the demotion does not leave the target out. *)
TransferRole_DemotesTarget(r, u) ==
    CASE ActiveOwner(req[r].in, u) -> "ADMIN"
      [] u = req[r].target /\ ~ActiveOwner(req[r].in, u) -> "OWNER"
      [] OTHER -> member[req[r].in][u].role

(* every other ACTIVE owner is demoted, the target promoted *)
TransferRole(r, u) ==
    CASE u = req[r].target -> "OWNER"
      [] u # req[r].target /\ ActiveOwner(req[r].in, u) -> "ADMIN"
      [] OTHER -> member[req[r].in][u].role

WriteTransfer(r) ==
    LET w == req[r].in
        demoted == {u \in Users \ {req[r].target} : ActiveOwner(w, u)}
    IN  /\ Writing(r, "transferOwnership")
        /\ member' = [member EXCEPT ![w] =
               [u \in Users |-> [status |-> member[w][u].status,
                                 role |-> TransferRole(r, u)]]]
        /\ Commit(r, {req[r].target, req[r].actor} \cup demoted)
        /\ UNCHANGED <<account, workspace, invitation, grants, outdated>>

-----------------------------------------------------------------------------
(* Account paths, under the user's and the owned workspaces' locks *)

(* deleteAccount *)
WriteDelete(r) ==
    /\ Writing(r, "delete")
    /\ account' = [account EXCEPT ![req[r].target].deleted = TRUE]
    /\ Commit(r, {req[r].target})
    /\ UNCHANGED <<workspace, member, invitation, grants, outdated>>

(* deactivate *)
WriteDeactivate(r) ==
    /\ Writing(r, "deactivate")
    /\ account' = [account EXCEPT ![req[r].target].active = FALSE]
    /\ Commit(r, {req[r].target})
    /\ UNCHANGED <<workspace, member, invitation, grants, outdated>>

(* gdprErase: closeSolelyOwnedWorkspaces instead of a refusal *)
WriteErase(r) ==
    LET closed == req[r].owned
        roster == {u \in Users : \E w \in closed : member[w][u].status # "NONE"}
    IN  /\ Writing(r, "erase")
        /\ workspace' = [w \in Workspaces |->
                            IF w \in closed THEN "closed" ELSE workspace[w]]
        /\ account' = [account EXCEPT ![req[r].target].deleted = TRUE,
                                      ![req[r].target].verified = FALSE]
        /\ Commit(r, {req[r].target} \cup roster)
        /\ UNCHANGED <<member, invitation, grants, outdated>>

-----------------------------------------------------------------------------
(* Invitations *)

(* create retires what has lapsed but still holds the unique index *)
Superseded(w, u) ==
    {i \in AddressedTo(w, u) : invitation[i].status = "PENDING"
                               /\ invitation[i].lapsed}

(* the partial unique index, and a free row within the model's bound *)
Insertable(r, i) ==
    /\ invitation[i].status = "NONE"
    /\ \A j \in AddressedTo(req[r].in, req[r].target) :
           invitation[j].status = "PENDING"
               => j \in Superseded(req[r].in, req[r].target)

WriteInvite(r) ==
    \E i \in Invitations :
        /\ Writing(r, "invite")
        /\ Insertable(r, i)
        /\ req[r].bound => ReferenceFree(r, req[r].target)
        /\ invitation' = [j \in Invitations |->
               CASE j = i -> [status |-> "PENDING", in |-> req[r].in,
                              to |-> req[r].target, bound |-> req[r].bound,
                              role |-> req[r].role, by |-> req[r].actor,
                              lapsed |-> FALSE, rotations |-> 0]
                 [] j # i /\ j \in Superseded(req[r].in, req[r].target) ->
                             [invitation[j] EXCEPT !.status = "EXPIRED"]
                 [] OTHER -> invitation[j]]
        /\ Commit(r, {})
        /\ UNCHANGED <<account, workspace, member, grants, outdated>>

(* P2002: the transaction, with what it retired, rolls back *)
InviteCollides(r) ==
    /\ Writing(r, "invite")
    /\ \A i \in Invitations : ~Insertable(r, i)
    /\ Refuse(r)

(* the conditional UPDATE out of PENDING, and only a former member re-joins *)
MayConsume(r) ==
    /\ invitation[req[r].inv].status = "PENDING"
    /\ Row(r).status \in {"NONE", "LEFT"}

WriteAccept(r) ==
    LET i == req[r].inv
    IN  /\ Writing(r, "accept")
        /\ MayConsume(r)
        /\ Row(r).status = "NONE" => ReferenceFree(r, invitation[i].by)
        /\ invitation' = [invitation EXCEPT ![i].status = "ACCEPTED"]
        /\ SetRow(r, "ACTIVE", invitation[i].role)
        /\ Commit(r, {req[r].actor})
        /\ UNCHANGED <<account, workspace, grants, outdated>>

(* InvitationAlreadyConsumedError, or a current member *)
AcceptRefused(r) == Writing(r, "accept") /\ ~MayConsume(r) /\ Refuse(r)

-----------------------------------------------------------------------------
(* Statements outside a transaction: they wait for a row lock and take none *)

Stating(r, op) == req[r].pc = "statement" /\ req[r].op = op

WriteClose(r) ==
    LET w == req[r].in
    IN  /\ Stating(r, "close")
        /\ workspaceLock[w] = Nobody
        /\ workspace' = [workspace EXCEPT ![w] = "closed"]
        /\ Commit(r, req[r].drop)
        /\ UNCHANGED <<account, member, invitation, grants, outdated>>

WriteUpdate(r) ==
    LET u == req[r].target
    IN  /\ \E op \in {"activate", "deactivateAgain"} : Stating(r, op)
        /\ userLock[u] = Nobody
        /\ account' = [account EXCEPT ![u].active = (req[r].op = "activate")]
        /\ Commit(r, {})
        /\ UNCHANGED <<workspace, member, invitation, grants, outdated>>

(* Mutant of StillPending: the update is not conditional. *)
StillPending_Unconditional(i) == TRUE

(* updateMany ... WHERE status = PENDING *)
StillPending(i) == invitation[i].status = "PENDING"

WriteRevoke(r) ==
    /\ Stating(r, "revoke")
    /\ StillPending(req[r].inv)
    /\ invitation' = [invitation EXCEPT ![req[r].inv].status = "REVOKED"]
    /\ Commit(r, {})
    /\ UNCHANGED <<account, workspace, member, grants, outdated>>

(* the token is replaced and the expiry starts again *)
WriteResend(r) ==
    LET i == req[r].inv
    IN  /\ Stating(r, "resend")
        /\ StillPending(i)
        /\ invitation[i].rotations < MaxRotations
        /\ invitation' = [invitation EXCEPT ![i].rotations = @ + 1,
                                            ![i].lapsed = FALSE]
        /\ Commit(r, {})
        /\ UNCHANGED <<account, workspace, member, grants, outdated>>

NoLongerPending(r) ==
    /\ req[r].pc = "statement" /\ req[r].op \in {"revoke", "resend"}
    /\ \/ ~StillPending(req[r].inv)
       \/ req[r].op = "resend" /\ invitation[req[r].inv].rotations = MaxRotations
    /\ Refuse(r)

-----------------------------------------------------------------------------
(* After the commit, and around the requests *)

(* invalidateUser, one DEL at a time *)
DropGrants(r) ==
    \E u \in req[r].drop :
        /\ req[r].pc = "drop"
        /\ grants' = [grants EXCEPT ![u] = NotCached]
        /\ req' = [req EXCEPT ![r] = IF req[r].drop = {u} THEN Idle
                                     ELSE [req[r] EXCEPT !.drop = req[r].drop \ {u}]]
        /\ UNCHANGED <<tables, locks, outdated>>

(* A cached copy reaches its TTL. *)
GrantsExpire(u) ==
    /\ grants[u] # NotCached
    /\ grants' = [grants EXCEPT ![u] = NotCached]
    /\ UNCHANGED <<tables, locks, req, outdated>>

(* The expiry date of a pending invitation passes. *)
Lapse(i) ==
    /\ invitation[i].status = "PENDING"
    /\ ~invitation[i].lapsed
    /\ invitation' = [invitation EXCEPT ![i].lapsed = TRUE]
    /\ UNCHANGED <<account, workspace, member, grants, locks, req, outdated>>

(* A stranger registers, and later follows the verification link. *)
Register(u) ==
    /\ ~account[u].exists
    /\ account' = [account EXCEPT ![u].exists = TRUE]
    /\ UNCHANGED <<workspace, member, invitation, grants, locks, req, outdated>>

VerifyEmail(u) ==
    /\ Present(u) /\ ~account[u].verified
    /\ userLock[u] = Nobody
    /\ account' = [account EXCEPT ![u].verified = TRUE]
    /\ UNCHANGED <<workspace, member, invitation, grants, locks, req, outdated>>

(* The users row whose FOR KEY SHARE an INSERT about to run needs. *)
Referenced(r) ==
    CASE Writing(r, "add") /\ Row(r).status = "NONE" -> {req[r].actor}
      [] Writing(r, "invite") /\ req[r].bound
             /\ (\E i \in Invitations : Insertable(r, i)) -> {req[r].target}
      [] Writing(r, "accept") /\ MayConsume(r) /\ Row(r).status = "NONE"
             -> {invitation[req[r].inv].by}
      [] OTHER -> {}

(* Who holds the row that r's next SELECT ... FOR UPDATE asks for. *)
WaitsForLock(r) ==
    LET holders ==
          CASE req[r].pc = "lockUser" -> {userLock[req[r].target]}
            [] req[r].pc = "lockWorkspaces" ->
                   {workspaceLock[w] : w \in {x \in Workspaces : NextWorkspace(r, x)}}
            [] OTHER -> {}
    IN  holders \ {Nobody, r}

(* ... or that its INSERT references *)
WaitsForReference(r) == {userLock[u] : u \in Referenced(r)} \ {Nobody, r}

WaitsFor(r) == WaitsForLock(r) \cup WaitsForReference(r)

(* every member of S waits for a member of S, and no smaller set does *)
WaitCycle(S) ==
    /\ S # {}
    /\ \A r \in S : WaitsFor(r) \cap S # {}
    /\ \A T \in SUBSET S : T \notin {{}, S} =>
           \E r \in T : WaitsFor(r) \cap T = {}

(* PostgreSQL's deadlock detector aborts one transaction of the cycle. *)
DeadlockVictim(r) ==
    /\ WaitsFor(r) # {}
    /\ \E S \in SUBSET Requests : r \in S /\ WaitCycle(S)
    /\ Refuse(r)

(* The process dies: the transaction rolls back, cached grants that were      *)
(* still to be dropped stay.                                                  *)
Crash(r) == MayCrash /\ req[r].pc # "idle" /\ Refuse(r)

-----------------------------------------------------------------------------

BeginAny(r) ==
    /\ req[r].pc = "idle"
    /\ \E a \in {u \in Users : Usable(u)} :
           \/ \E w \in Workspaces :
                  \/ BeginCreate(r, a, w)
                  \/ BeginClose(r, a, w)
                  \/ \E u \in Users :
                         \/ BeginTransfer(r, a, w, u)
                         \/ \E op \in MembershipOps : BeginTransition(r, op, a, w, u)
                         \/ \E role \in RolesOffered :
                                \/ BeginAdd(r, a, w, u, role)
                                \/ BeginChangeRole(r, a, w, u, role)
                                \/ BeginInvite(r, a, w, u, role)
           \/ \E u \in Users, op \in AccountOps :
                  \/ BeginAccount(r, op, a, u)
                  \/ BeginUpdate(r, op, a, u)
           \/ \E i \in Invitations :
                  \/ BeginRevoke(r, a, i)
                  \/ BeginResend(r, a, i)
                  \/ BeginAccept(r, a, i)

Proceed(r) ==
    \/ LockUser(r) \/ LockUserRefused(r) \/ LockWorkspace(r)
    \/ Check(r) \/ CheckRefused(r)
    \/ WriteCreate(r) \/ WriteAdd(r) \/ WriteChangeRole(r)
    \/ WriteTransition(r) \/ WriteTransfer(r)
    \/ WriteDelete(r) \/ WriteDeactivate(r) \/ WriteErase(r)
    \/ WriteInvite(r) \/ InviteCollides(r)
    \/ WriteAccept(r) \/ AcceptRefused(r)
    \/ WriteClose(r) \/ WriteUpdate(r)
    \/ WriteRevoke(r) \/ WriteResend(r) \/ NoLongerPending(r)
    \/ DropGrants(r)
    \/ DeadlockVictim(r)

Environment ==
    \/ \E u \in Users : LoadForRead(u) \/ GrantsExpire(u) \/ Register(u)
                        \/ VerifyEmail(u)
    \/ \E i \in Invitations : Lapse(i)

Next ==
    \/ \E r \in Requests : BeginAny(r) \/ Proceed(r) \/ Crash(r)
    \/ Environment

Spec == Init /\ [][Next]_vars

-----------------------------------------------------------------------------
(* Properties *)

(* Every live workspace has an ACTIVE owner who can sign in: the invariant of *)
(* WorkspaceOwnershipPolicy, across membership, invitation and account paths. *)
OwnedWhileLive ==
    \A w \in Workspaces :
        workspace[w] = "live" =>
            \E u \in Users : ActiveOwner(w, u) /\ Usable(u)

(* A seat becomes ACTIVE only on an account that can sign in at that moment:   *)
(* what assertUserMayHoldActiveMembership's lock and re-read are for.          *)
SeatsGoToUsableAccounts ==
    [][\A w \in Workspaces, u \in Users :
          /\ member[w][u].status # "ACTIVE"
          /\ member'[w][u].status = "ACTIVE"
          => Usable(u)]_vars

(* No set of transactions waits for each other's FOR UPDATE locks: users before *)
(* workspaces, workspaces ascending, is an order that cannot deadlock.         *)
OrderedLocksNeverCycle ==
    \A S \in SUBSET Requests :
        S # {} => \E r \in S : WaitsForLock(r) \cap S = {}

Accepted(i) == invitation[i].status = "PENDING" /\ invitation'[i].status = "ACCEPTED"

(* A link sent to an account before that account was suspended or removed      *)
(* never brings it back: revokePendingInvitations against create and accept.   *)
BoundLinkCannotReturn ==
    [][\A i \in Invitations :
          Accepted(i) /\ invitation[i].bound => i \notin outdated]_vars

(* An invitation that left PENDING never changes status again, whatever revoke, *)
(* resend, accept, create and a removal were in flight.                        *)
SettledInvitations ==
    [][\A i \in Invitations :
          invitation[i].status \notin {"NONE", "PENDING"}
              => invitation'[i].status = invitation[i].status]_vars

-----------------------------------------------------------------------------
(* What the comments say and the code does not do *)

(* The order users -> workspaces -> invitations -> memberships is all that has  *)
(* to hold. The foreign keys of the rows inserted under the workspace lock go   *)
(* back to a users row, and wait for whoever holds it.                         *)
NoLockCycle == \A S \in SUBSET Requests : ~WaitCycle(S)

=============================================================================
