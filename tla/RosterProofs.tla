---------------------------- MODULE RosterProofs ----------------------------
(***************************************************************************)
(* Roster.tla's safety properties for any users, workspaces, requests and  *)
(* invitations, with processes that die.                                   *)
(***************************************************************************)
EXTENDS Roster, FiniteSetTheorems, WellFoundedInduction, TLAPS

(* A transaction that has taken what it takes first. *)
Holding(r) == req[r].pc \in {"lockWorkspaces", "check", "write"}
InTransaction(r) == Holding(r) \/ req[r].pc = "lockUser"

(* Operations on one workspace's roster take that workspace's row. *)
LocksWorkspace == {"add", "changeRole", "suspend", "reactivate", "remove",
                   "transferOwnership", "invite", "accept"}

(* A request carries what its next step reads. *)
FormedRequest(y) ==
    /\ y \in Request
    /\ y.op \in Operations \cup {"none"}
    /\ y.op # "none" => y.actor \in Users
    /\ y.pc \in {"lockUser", "lockWorkspaces", "check", "write"} =>
           /\ y.op \in LocksUser \cup LocksWorkspace
           /\ y.target \in Users
           /\ y.op \notin Lifecycle => y.in \in Workspaces
    /\ y.pc = "lockUser" =>
           /\ y.op \in LocksUser
           /\ y.op \in LocksWorkspace => y.todo = {y.in}
           /\ y.op \notin LocksWorkspace => y.todo = {}
    /\ y.pc = "statement" =>
           /\ y.op \in {"close", "activate", "deactivateAgain", "revoke", "resend"}
           /\ y.op = "close" => y.in \in Workspaces
           /\ y.op \in {"activate", "deactivateAgain"} => y.target \in Users
           /\ y.op \in {"revoke", "resend"} => y.inv \in Invitations
    /\ y.pc \in {"idle", "drop"} => y.op = "none" /\ y.todo = {} /\ y.owned = {}
    /\ y.op = "accept" => y.inv \in Invitations
    /\ y.pc \in {"check", "write"} => y.todo = {}

Formed == \A r \in Requests : FormedRequest(req[r])

HoldsUser(r, u) == Holding(r) /\ req[r].op \in LocksUser /\ req[r].target = u

(* Who holds which row, and that workspaces are taken in ascending order.   *)
LocksOf(r) ==
    /\ \A u \in Users : userLock[u] = r <=> HoldsUser(r, u)
    /\ \A w \in Workspaces : workspaceLock[w] = r =>
           Holding(r) /\ \A x \in req[r].todo : w < x
    /\ Holding(r) /\ req[r].op \in Lifecycle =>
           \A w \in req[r].owned : w \in req[r].todo \/ workspaceLock[w] = r
    /\ Holding(r) /\ req[r].op \in LocksWorkspace =>
           req[r].in \in req[r].todo \/ workspaceLock[req[r].in] = r

LockInv == \A r \in Requests : LocksOf(r)

(* A workspace being created is nobody else's yet. *)
FreshFor(r) ==
    /\ req[r].op = "create" =>
           /\ workspace[req[r].in] = "absent"
           /\ \A s \in Requests :
                  req[s].op = "create" /\ req[s].in = req[r].in => s = r
    /\ \A w \in req[r].todo \cup req[r].owned : workspace[w] # "absent"
    /\ \A w \in Workspaces : workspaceLock[w] = r => workspace[w] # "absent"
    /\ req[r].op = "close" => workspace[req[r].in] # "absent"

FreshInv ==
    /\ \A r \in Requests : FreshFor(r)
    /\ \A w \in Workspaces, u \in Users :
           workspace[w] = "absent" => member[w][u].status = "NONE"

(* The account found usable under its lock stays so while the lock is held. *)
SeatInv ==
    \A r \in Requests :
        Holding(r) /\ req[r].op \in NeedsUsable => Usable(req[r].target)

(* A row names a user and a workspace once it is written, and no invitation *)
(* sent before its addressee's access ended is both pending and bound to    *)
(* the account.                                                             *)
InvitationInv ==
    \A i \in Invitations :
        /\ invitation[i].status = "NONE" => invitation[i].to = Nobody
        /\ invitation[i].status # "NONE" => invitation[i].in \in Workspaces
        /\ i \in outdated => invitation[i].status # "NONE"
        /\ i \in outdated /\ invitation[i].bound => invitation[i].status # "PENDING"

RosterIInv == TypeOK /\ Formed /\ LockInv /\ FreshInv /\ SeatInv /\ InvitationInv

-----------------------------------------------------------------------------
(* What the steps have in common *)

(* r's transaction is over, and what is left of r drops grants or nothing.  *)
Ends(r) ==
    /\ ReleaseLocks(r)
    /\ \E y \in Request :
           /\ FormedRequest(y)
           /\ y.pc \in {"idle", "drop"}
           /\ req' = [req EXCEPT ![r] = y]

LEMMA IdleFormed == Idle \in Request /\ Idle.pc = "idle" /\ FormedRequest(Idle)
<1>1. 0 \in 0 .. MaxRotations
  BY RosterAssumption
<1>2. Idle \in Request
  BY <1>1 DEF Idle, Request, Stages
<1> QED  BY <1>2 DEF Idle, FormedRequest

(* Commit ends the transaction. *)
LEMMA CommitEnds ==
    ASSUME NEW r, NEW U \in SUBSET Users, Commit(r, U)
    PROVE  Ends(r)
<1>1. CASE U = {} \/ ~RedisReachable
  <2>1. req' = [req EXCEPT ![r] = Idle]
    BY <1>1 DEF Commit
  <2> QED  BY <2>1, IdleFormed DEF Commit, Ends
<1>2. CASE ~(U = {} \/ ~RedisReachable)
  <2> DEFINE y == [Idle EXCEPT !.pc = "drop", !.drop = U]
  <2>1. y \in Request
    BY IdleFormed DEF Request, Stages
  <2>2. /\ y.pc = "drop" /\ y.op = "none" /\ y.todo = {} /\ y.owned = {}
    BY DEF Idle
  <2>3. req' = [req EXCEPT ![r] = y]
    BY <1>2 DEF Commit
  <2> HIDE DEF y
  <2>4. FormedRequest(y)
    BY <2>1, <2>2 DEF FormedRequest
  <2> QED  BY <2>1, <2>2, <2>3, <2>4 DEF Commit, Ends
<1> QED  BY <1>1, <1>2

(* So does a refusal. *)
LEMMA RefuseEnds ==
    ASSUME NEW r, ReleaseLocks(r), req' = [req EXCEPT ![r] = Idle]
    PROVE  Ends(r)
  BY IdleFormed DEF Ends

(* What a request is when its first step is done. *)
Starts(y) ==
    /\ FormedRequest(y)
    /\ y.pc \in {"lockUser", "lockWorkspaces", "statement"}
    /\ y.op # "none"
    /\ y.owned = {}
    /\ y.pc = "lockWorkspaces" => y.op \in LocksWorkspace \ LocksUser /\ y.todo = {y.in}
    /\ y.op = "create" =>
           /\ workspace[y.in] = "absent"
           /\ \A s \in Requests : req[s].op = "create" => req[s].in # y.in
    /\ \A w \in y.todo : w \in Workspaces /\ workspace[w] # "absent"
    /\ y.op = "close" => workspace[y.in] # "absent"

Started(r) ==
    /\ \E y \in Request : Starts(y) /\ req' = [req EXCEPT ![r] = y]
    /\ \E a \in Users : LoadGrants({a})
    /\ UNCHANGED <<tables, locks, outdated>>

LEMMA RanksAreNumbers ==
    ASSUME TypeOK, NEW u \in Users, NEW w \in Workspaces
    PROVE  ActorRank(u, w) \in Nat
<1>1. \A x : Rank(x) \in Nat
  BY DEF Rank
<1> QED  BY <1>1 DEF ActorRank, Unbounded

LEMMA BeginStarts ==
    ASSUME TypeOK, InvitationInv, NEW r \in Requests, BeginAny(r)
    PROVE  Started(r)
<1> USE DEF AllOperations, MembershipOps, InvitationOps, AccountOps
<1>1. PICK a \in Users :
           \/ \E w \in Workspaces :
                  \/ BeginCreate(r, a, w)
                  \/ BeginClose(r, a, w)
                  \/ \E u \in Users :
                         \/ BeginTransfer(r, a, w, u)
                         \/ \E op \in MembershipOps : BeginTransition(r, op, a, w, u)
                         \/ \E role \in RolesOffered :
                                \/ BeginAdd(r, a, w, u, role)
                                \/ BeginChangeRole(r, a, w, u, role)
                                \/ BeginInvite(r, a, w, u, role)
           \/ \E u \in Users, op \in AccountOps :
                  \/ BeginAccount(r, op, a, u)
                  \/ BeginUpdate(r, op, a, u)
           \/ \E i \in Invitations :
                  \/ BeginRevoke(r, a, i)
                  \/ BeginResend(r, a, i)
                  \/ BeginAccept(r, a, i)
  BY DEF BeginAny
<1>2. ASSUME NEW w \in Workspaces, BeginCreate(r, a, w) PROVE Started(r)
  <2> DEFINE y == [Idle EXCEPT !.pc = "lockUser", !.op = "create", !.actor = a, !.target = a,
                               !.in = w]
  <2>1. /\ workspace[w] = "absent"
             /\ \A s \in Requests : req[s].op = "create" => req[s].in # w
        /\ y.op \in Operations
        /\ req' = [req EXCEPT ![r] = y]
        /\ UNCHANGED <<tables, locks, outdated>> /\ LoadGrants({a})
    BY <1>2, RosterAssumption DEF BeginCreate, Begin
  <2>2. y \in Request
    BY <2>1, IdleFormed, RosterAssumption DEF Request, Stages
  <2>3. /\ y.todo = {} /\ y.owned = {} /\ y.pc = "lockUser" /\ y.op = "create"
        /\ y.target = a /\ y.in = w /\ y.actor = a
    BY DEF Idle
  <2> HIDE DEF y
  <2>4. Starts(y)
    BY <2>1, <2>2, <2>3, RosterAssumption DEF Starts, FormedRequest, LocksUser,
       LocksWorkspace, Lifecycle
  <2> QED  BY <2>1, <2>2, <2>4 DEF Started
<1>3. ASSUME NEW w \in Workspaces, BeginClose(r, a, w) PROVE Started(r)
  <2> DEFINE y == [Idle EXCEPT !.pc = "statement", !.op = "close", !.actor = a, !.in = w,
                               !.drop = {u \in Users : member[w][u].status # "NONE"}]
  <2>1. /\ workspace[w] = "live"
        /\ y.op \in Operations
        /\ req' = [req EXCEPT ![r] = y]
        /\ UNCHANGED <<tables, locks, outdated>> /\ LoadGrants({a})
    BY <1>3, RosterAssumption DEF BeginClose, Begin
  <2>2. y \in Request
    BY <2>1, IdleFormed, RosterAssumption DEF Request, Stages
  <2>3. /\ y.todo = {} /\ y.owned = {} /\ y.pc = "statement" /\ y.op = "close"
        /\ y.in = w /\ y.actor = a
    BY DEF Idle
  <2> HIDE DEF y
  <2>4. Starts(y)
    BY <2>1, <2>2, <2>3, RosterAssumption DEF Starts, FormedRequest, LocksUser,
       LocksWorkspace, Lifecycle
  <2> QED  BY <2>1, <2>2, <2>4 DEF Started
<1>4. ASSUME NEW w \in Workspaces, NEW u \in Users, BeginTransfer(r, a, w, u) PROVE Started(r)
  <2> DEFINE y == [Idle EXCEPT !.pc = "lockUser", !.op = "transferOwnership", !.actor = a,
                               !.target = u, !.in = w, !.todo = {w}]
  <2>1. /\ workspace[w] = "live"
        /\ y.op \in Operations
        /\ req' = [req EXCEPT ![r] = y]
        /\ UNCHANGED <<tables, locks, outdated>> /\ LoadGrants({a})
    BY <1>4, RosterAssumption DEF BeginTransfer, Visible, Begin
  <2>2. y \in Request
    <3>1. "transferOwnership" \in AllOperations /\ {w} \in SUBSET Workspaces
      OBVIOUS
    <3> HIDE DEF AllOperations
    <3> QED  BY <3>1, IdleFormed DEF Request, Stages
  <2>3. /\ y.todo = {w} /\ y.owned = {} /\ y.pc = "lockUser"
        /\ y.op = "transferOwnership" /\ y.target = u /\ y.in = w /\ y.actor = a
    BY DEF Idle
  <2> HIDE DEF y
  <2>4. Starts(y)
    BY <2>1, <2>2, <2>3, RosterAssumption DEF Starts, FormedRequest, LocksUser,
       LocksWorkspace, Lifecycle
  <2> QED  BY <2>1, <2>2, <2>4 DEF Started
<1>5. ASSUME NEW w \in Workspaces, NEW u \in Users, NEW op, BeginTransition(r, op, a, w, u)
      PROVE Started(r)
  <2> DEFINE y == [Idle EXCEPT !.pc = LockingFirst(op), !.op = op, !.actor = a, !.target = u,
                               !.in = w, !.rank = ActorRank(a, w), !.todo = {w}]
  <2>1. /\ workspace[w] = "live" /\ op \in {"suspend", "reactivate", "remove"}
        /\ y.op \in Operations
        /\ req' = [req EXCEPT ![r] = y]
        /\ UNCHANGED <<tables, locks, outdated>> /\ LoadGrants({a})
    BY <1>5, RosterAssumption DEF BeginTransition, Visible, Begin, LockingFirst
  <2>2. y \in Request
    <3>1. /\ op \in AllOperations /\ {w} \in SUBSET Workspaces
          /\ ActorRank(a, w) \in Nat
          /\ LockingFirst(op) \in Stages
      BY <2>1, RanksAreNumbers DEF LockingFirst, Stages
    <3> HIDE DEF AllOperations
    <3> QED  BY <3>1, IdleFormed DEF Request
  <2>3. /\ y.todo = {w} /\ y.owned = {} /\ y.pc = LockingFirst(op) /\ y.op = op
        /\ y.target = u /\ y.in = w /\ y.actor = a
    BY DEF Idle
  <2> HIDE DEF y
  <2>4. Starts(y)
    BY <2>1, <2>2, <2>3, RosterAssumption DEF Starts, FormedRequest, LocksUser,
       LocksWorkspace, Lifecycle, LockingFirst
  <2> QED  BY <2>1, <2>2, <2>4 DEF Started
<1>6. ASSUME NEW w \in Workspaces, NEW u \in Users, NEW role \in RolesOffered, BeginAdd(r, a, w, u, role)
      PROVE Started(r)
  <2> DEFINE y == [Idle EXCEPT !.pc = "lockUser", !.op = "add", !.actor = a, !.target = u, !.in = w,
                               !.role = role, !.todo = {w}]
  <2>1. /\ workspace[w] # "absent"
        /\ y.op \in Operations
        /\ req' = [req EXCEPT ![r] = y]
        /\ UNCHANGED <<tables, locks, outdated>> /\ LoadGrants({a})
    BY <1>6, RosterAssumption DEF BeginAdd, Begin
  <2>2. y \in Request
    <3>1. "add" \in AllOperations /\ {w} \in SUBSET Workspaces /\ role \in Roles
      BY RosterAssumption
    <3> HIDE DEF AllOperations
    <3> QED  BY <3>1, IdleFormed DEF Request, Stages
  <2>3. /\ y.todo = {w} /\ y.owned = {} /\ y.pc = "lockUser" /\ y.op = "add"
        /\ y.target = u /\ y.in = w /\ y.actor = a
    BY DEF Idle
  <2> HIDE DEF y
  <2>4. Starts(y)
    BY <2>1, <2>2, <2>3, RosterAssumption DEF Starts, FormedRequest, LocksUser,
       LocksWorkspace, Lifecycle
  <2> QED  BY <2>1, <2>2, <2>4 DEF Started
<1>7. ASSUME NEW w \in Workspaces, NEW u \in Users, NEW role \in RolesOffered, BeginChangeRole(r, a, w, u, role)
      PROVE Started(r)
  <2> DEFINE y == [Idle EXCEPT !.pc = "lockUser", !.op = "changeRole", !.actor = a, !.target = u,
                               !.in = w, !.role = role, !.rank = ActorRank(a, w), !.todo = {w}]
  <2>1. /\ workspace[w] = "live"
        /\ y.op \in Operations
        /\ req' = [req EXCEPT ![r] = y]
        /\ UNCHANGED <<tables, locks, outdated>> /\ LoadGrants({a})
    BY <1>7, RosterAssumption DEF BeginChangeRole, Visible, Begin
  <2>2. y \in Request
    BY <2>1, RanksAreNumbers, IdleFormed, RosterAssumption DEF Request, Stages
  <2>3. /\ y.todo = {w} /\ y.owned = {} /\ y.pc = "lockUser"
        /\ y.op = "changeRole" /\ y.target = u /\ y.in = w /\ y.actor = a
    BY DEF Idle
  <2> HIDE DEF y
  <2>4. Starts(y)
    BY <2>1, <2>2, <2>3, RosterAssumption DEF Starts, FormedRequest, LocksUser,
       LocksWorkspace, Lifecycle
  <2> QED  BY <2>1, <2>2, <2>4 DEF Started
<1>8. ASSUME NEW w \in Workspaces, NEW u \in Users, NEW role \in RolesOffered, BeginInvite(r, a, w, u, role)
      PROVE Started(r)
  <2> DEFINE y == [Idle EXCEPT !.pc = "lockWorkspaces", !.op = "invite", !.actor = a, !.target = u,
                               !.in = w, !.role = role, !.todo = {w}, !.bound = Present(u)]
  <2>1. /\ workspace[w] = "live" /\ Present(u) \in BOOLEAN
        /\ y.op \in Operations
        /\ req' = [req EXCEPT ![r] = y]
        /\ UNCHANGED <<tables, locks, outdated>> /\ LoadGrants({a})
    BY <1>8, RosterAssumption DEF BeginInvite, Present, TypeOK, Account, Begin
  <2>2. y \in Request
    BY <2>1, IdleFormed, RosterAssumption DEF Request, Stages
  <2>3. /\ y.todo = {w} /\ y.owned = {} /\ y.pc = "lockWorkspaces"
        /\ y.op = "invite" /\ y.target = u /\ y.in = w /\ y.actor = a
    BY DEF Idle
  <2> HIDE DEF y
  <2>4. Starts(y)
    BY <2>1, <2>2, <2>3, RosterAssumption DEF Starts, FormedRequest, LocksUser,
       LocksWorkspace, Lifecycle
  <2> QED  BY <2>1, <2>2, <2>4 DEF Started
<1>9. ASSUME NEW u \in Users, NEW op, BeginAccount(r, op, a, u) PROVE Started(r)
  <2> DEFINE y == [Idle EXCEPT !.pc = "lockUser", !.op = op, !.actor = a, !.target = u]
  <2>1. /\ op \in Lifecycle
        /\ y.op \in Operations
        /\ req' = [req EXCEPT ![r] = y]
        /\ UNCHANGED <<tables, locks, outdated>> /\ LoadGrants({a})
    BY <1>9, RosterAssumption DEF BeginAccount, Lifecycle, Begin
  <2>2. y \in Request
    BY <2>1, IdleFormed, RosterAssumption DEF Request, Stages, Lifecycle
  <2>3. /\ y.todo = {} /\ y.owned = {} /\ y.pc = "lockUser" /\ y.op = op
        /\ y.target = u /\ y.actor = a
    BY DEF Idle
  <2> HIDE DEF y
  <2>4. Starts(y)
    BY <2>1, <2>2, <2>3, RosterAssumption DEF Starts, FormedRequest, LocksUser,
       LocksWorkspace, Lifecycle
  <2> QED  BY <2>1, <2>2, <2>4 DEF Started
<1>10. ASSUME NEW u \in Users, NEW op, BeginUpdate(r, op, a, u) PROVE Started(r)
  <2> DEFINE y == [Idle EXCEPT !.pc = "statement", !.op = op, !.actor = a, !.target = u]
  <2>1. /\ op \in {"activate", "deactivateAgain"}
        /\ y.op \in Operations
        /\ req' = [req EXCEPT ![r] = y]
        /\ UNCHANGED <<tables, locks, outdated>> /\ LoadGrants({a})
    BY <1>10, RosterAssumption DEF BeginUpdate, Begin
  <2>2. y \in Request
    BY <2>1, IdleFormed, RosterAssumption DEF Request, Stages
  <2>3. /\ y.todo = {} /\ y.owned = {} /\ y.pc = "statement" /\ y.op = op
        /\ y.target = u /\ y.actor = a
    BY DEF Idle
  <2> HIDE DEF y
  <2>4. Starts(y)
    BY <2>1, <2>2, <2>3, RosterAssumption DEF Starts, FormedRequest, LocksUser,
       LocksWorkspace, Lifecycle
  <2> QED  BY <2>1, <2>2, <2>4 DEF Started
<1>11. ASSUME NEW i \in Invitations, BeginRevoke(r, a, i) PROVE Started(r)
  <2> DEFINE y == [Idle EXCEPT !.pc = "statement", !.op = "revoke", !.actor = a, !.inv = i]
  <2>1. /\ i \in Invitations
        /\ y.op \in Operations
        /\ req' = [req EXCEPT ![r] = y]
        /\ UNCHANGED <<tables, locks, outdated>> /\ LoadGrants({a})
    BY <1>11, RosterAssumption DEF BeginRevoke, Begin
  <2>2. y \in Request
    BY <2>1, IdleFormed, RosterAssumption DEF Request, Stages
  <2>3. /\ y.todo = {} /\ y.owned = {} /\ y.pc = "statement" /\ y.op = "revoke"
        /\ y.inv = i /\ y.actor = a
    BY DEF Idle
  <2> HIDE DEF y
  <2>4. Starts(y)
    BY <2>1, <2>2, <2>3, RosterAssumption DEF Starts, FormedRequest, LocksUser,
       LocksWorkspace, Lifecycle
  <2> QED  BY <2>1, <2>2, <2>4 DEF Started
<1>12. ASSUME NEW i \in Invitations, BeginResend(r, a, i) PROVE Started(r)
  <2> DEFINE y == [Idle EXCEPT !.pc = "statement", !.op = "resend", !.actor = a, !.inv = i]
  <2>1. /\ i \in Invitations
        /\ y.op \in Operations
        /\ req' = [req EXCEPT ![r] = y]
        /\ UNCHANGED <<tables, locks, outdated>> /\ LoadGrants({a})
    BY <1>12, RosterAssumption DEF BeginResend, Begin
  <2>2. y \in Request
    BY <2>1, IdleFormed, RosterAssumption DEF Request, Stages
  <2>3. /\ y.todo = {} /\ y.owned = {} /\ y.pc = "statement" /\ y.op = "resend"
        /\ y.inv = i /\ y.actor = a
    BY DEF Idle
  <2> HIDE DEF y
  <2>4. Starts(y)
    BY <2>1, <2>2, <2>3, RosterAssumption DEF Starts, FormedRequest, LocksUser,
       LocksWorkspace, Lifecycle
  <2> QED  BY <2>1, <2>2, <2>4 DEF Started
<1>13. ASSUME NEW i \in Invitations, BeginAccept(r, a, i) PROVE Started(r)
  <2> DEFINE y == [Idle EXCEPT !.pc = "lockUser", !.op = "accept", !.actor = a, !.target = a,
                               !.in = invitation[i].in, !.inv = i,
                               !.rotations = invitation[i].rotations, !.todo = {invitation[i].in}]
  <2>1. /\ workspace[invitation[i].in] = "live" /\ invitation[i].in \in Workspaces
        /\ y.op \in Operations
        /\ req' = [req EXCEPT ![r] = y]
        /\ UNCHANGED <<tables, locks, outdated>> /\ LoadGrants({a})
    BY <1>13 DEF BeginAccept, Begin, InvitationInv
  <2>2. y \in Request
    <3>1. /\ invitation[i].rotations \in 0 .. MaxRotations
          /\ {invitation[i].in} \in SUBSET Workspaces
          /\ "accept" \in AllOperations
      BY <2>1 DEF TypeOK, Invitation
    <3> QED  BY <2>1, <3>1, IdleFormed DEF Request, Stages
  <2>3. /\ y.todo = {invitation[i].in} /\ y.owned = {} /\ y.pc = "lockUser"
        /\ y.op = "accept" /\ y.target = a /\ y.inv = i
        /\ y.in = invitation[i].in /\ y.actor = a
    BY DEF Idle
  <2> HIDE DEF y
  <2>4. Starts(y)
    BY <2>1, <2>2, <2>3, RosterAssumption DEF Starts, FormedRequest, LocksUser,
       LocksWorkspace, Lifecycle
  <2> QED  BY <2>1, <2>2, <2>4 DEF Started
<1> QED  BY <1>1, <1>2, <1>3, <1>4, <1>5, <1>6, <1>7, <1>8, <1>9, <1>10, <1>11, <1>12, <1>13

-----------------------------------------------------------------------------
(* What a request holds when it writes *)

LEMMA AtWrite ==
    ASSUME TypeOK, Formed, LockInv, FreshInv, NEW r \in Requests, req[r].pc = "write"
    PROVE  /\ req[r].target \in Users /\ req[r].actor \in Users
           /\ req[r].op \in LocksUser => userLock[req[r].target] = r
           /\ req[r].op \notin Lifecycle => req[r].in \in Workspaces
           /\ req[r].op \in LocksWorkspace =>
                  workspaceLock[req[r].in] = r /\ workspace[req[r].in] # "absent"
<1>1. FormedRequest(req[r]) /\ LocksOf(r) /\ FreshFor(r)
  BY DEF Formed, LockInv, FreshInv
<1>2. req[r].target \in Users /\ req[r].todo = {} /\ req[r].op # "none"
  BY <1>1 DEF FormedRequest, LocksUser, LocksWorkspace
<1>3. req[r].actor \in Users
  BY <1>1, <1>2 DEF FormedRequest
<1>4. req[r].op \in LocksUser => userLock[req[r].target] = r
  BY <1>1, <1>2 DEF LocksOf, HoldsUser, Holding
<1>5. req[r].op \notin Lifecycle => req[r].in \in Workspaces
  BY <1>1 DEF FormedRequest
<1>6. req[r].op \in LocksWorkspace => req[r].op \notin Lifecycle
  BY DEF LocksWorkspace, Lifecycle
<1>7. req[r].op \in LocksWorkspace => workspaceLock[req[r].in] = r
  BY <1>1, <1>2 DEF LocksOf, Holding
<1>8. req[r].op \in LocksWorkspace => workspace[req[r].in] # "absent"
  BY <1>1, <1>5, <1>6, <1>7 DEF FreshFor
<1> QED  BY <1>2, <1>3, <1>4, <1>5, <1>7, <1>8

(* What the statements of r may change, and what r holds when they do:     *)
(* memberships of a workspace it has locked or creates, workspaces that     *)
(* exist or that it creates, and accounts whose row nobody else holds.      *)
Writes(r) ==
    /\ account' \in [Users -> Account]
    /\ workspace' \in [Workspaces -> {"absent", "live", "closed"}]
    /\ member' \in [Workspaces -> [Users -> Membership]]
    /\ \A w \in Workspaces, u \in Users : member'[w][u] # member[w][u] =>
           /\ workspaceLock[w] = r \/ (req[r].op = "create" /\ w = req[r].in)
           /\ workspace'[w] # "absent"
    /\ \A w \in Workspaces :
           /\ workspace'[w] = "absent" => workspace[w] = "absent"
           /\ workspace[w] = "absent" =>
                  workspace'[w] = "absent" \/ (req[r].op = "create" /\ w = req[r].in)
    /\ \A u \in Users : Usable(u) /\ ~Usable(u)' =>
           \/ userLock[u] = Nobody /\ req[r].op = "deactivateAgain"
           \/ userLock[u] = r /\ req[r].op \in Lifecycle /\ req[r].pc = "write"

(* Statements that leave accounts, workspaces and memberships alone.        *)
LEMMA NothingWritten ==
    ASSUME TypeOK, NEW r, UNCHANGED <<account, workspace, member>>
    PROVE  Writes(r)
BY DEF Writes, TypeOK, Usable, Present

(* A statement on one membership row, under the workspace's lock.           *)
LEMMA RowWritten ==
    ASSUME TypeOK, NEW r \in Requests, NEW m \in Membership,
           req[r].in \in Workspaces, req[r].target \in Users,
           member' = [member EXCEPT ![req[r].in][req[r].target] = m],
           workspaceLock[req[r].in] = r, workspace[req[r].in] # "absent",
           UNCHANGED <<account, workspace>>
    PROVE  Writes(r)
<1>1. member' \in [Workspaces -> [Users -> Membership]]
  BY DEF TypeOK
<1>2. \A w \in Workspaces, u \in Users : member'[w][u] # member[w][u] => w = req[r].in
  BY DEF TypeOK
<1>3. \A u : Usable(u)' <=> Usable(u)
  BY DEF Usable, Present
<1> QED  BY <1>1, <1>2, <1>3 DEF Writes, TypeOK

(* What is written to a membership is one.                                  *)
LEMMA MembershipFields ==
    /\ \A st \in {"NONE", "ACTIVE", "SUSPENDED", "LEFT"}, ro \in Roles \cup {NoRole} :
           [status |-> st, role |-> ro] \in Membership
    /\ \A m \in Membership : m.status \in {"NONE", "ACTIVE", "SUSPENDED", "LEFT"}
                             /\ m.role \in Roles \cup {NoRole}
BY DEF Membership

LEMMA MembershipsWritten ==
    ASSUME TypeOK, Formed, LockInv, FreshInv, NEW r \in Requests,
           \/ WriteAdd(r) \/ WriteChangeRole(r) \/ WriteTransition(r) \/ WriteAccept(r)
    PROVE  Ends(r) /\ Writes(r)
<1>1. req[r].pc = "write" /\ req[r].op \in LocksWorkspace
  BY DEF WriteAdd, WriteChangeRole, WriteTransition, WriteAccept, Writing, LocksWorkspace
<1>2. /\ req[r].in \in Workspaces /\ req[r].target \in Users /\ req[r].actor \in Users
      /\ workspaceLock[req[r].in] = r /\ workspace[req[r].in] # "absent"
  BY <1>1, AtWrite DEF LocksWorkspace, Lifecycle
<1>3. Row(r) \in Membership /\ req[r].role \in Roles \cup {NoRole}
  BY <1>2 DEF Row, TypeOK, Request
<1>4. Row(r).status \in {"NONE", "ACTIVE", "SUSPENDED", "LEFT"} /\ Row(r).role \in Roles \cup {NoRole}
  BY <1>3, MembershipFields
<1>5. {req[r].target} \in SUBSET Users /\ {req[r].actor} \in SUBSET Users
  BY <1>2
<1>6. ASSUME NEW st \in {"NONE", "ACTIVE", "SUSPENDED", "LEFT"}, NEW ro \in Roles \cup {NoRole},
             SetRow(r, st, ro), UNCHANGED <<account, workspace>>
      PROVE  Writes(r)
  <2> DEFINE m == [status |-> st, role |-> ro]
  <2>1. m \in Membership /\ member' = [member EXCEPT ![req[r].in][req[r].target] = m]
    BY <1>6, MembershipFields DEF SetRow
  <2> HIDE DEF m
  <2> QED  BY <1>2, <1>6, <2>1, RowWritten
<1>7. CASE WriteAdd(r)
  BY <1>3, <1>5, <1>6, <1>7, CommitEnds DEF WriteAdd
<1>8. CASE WriteChangeRole(r)
  BY <1>3, <1>4, <1>5, <1>6, <1>8, CommitEnds DEF WriteChangeRole
<1>9. CASE WriteTransition(r)
  <2>1. NewStatus(req[r].op) \in {"NONE", "ACTIVE", "SUSPENDED", "LEFT"}
    BY DEF NewStatus
  <2>2. SetRow(r, NewStatus(req[r].op), Row(r).role) /\ Commit(r, {req[r].target})
        /\ UNCHANGED <<account, workspace>>
    BY <1>9 DEF WriteTransition
  <2> QED  BY <1>4, <1>5, <1>6, <2>1, <2>2, CommitEnds
<1>10. CASE WriteAccept(r)
  <2>1. invitation[req[r].inv].role \in Roles \cup {NoRole}
    <3>1. req[r].inv \in Invitations
      BY <1>1, <1>10 DEF Formed, FormedRequest, WriteAccept, Writing
    <3> QED  BY <3>1 DEF TypeOK, Invitation
  <2>2. SetRow(r, "ACTIVE", invitation[req[r].inv].role) /\ Commit(r, {req[r].actor})
        /\ UNCHANGED <<account, workspace>>
    BY <1>10 DEF WriteAccept
  <2> QED  BY <1>5, <1>6, <2>1, <2>2, CommitEnds
<1> QED  BY <1>7, <1>8, <1>9, <1>10

LEMMA TransferWritten ==
    ASSUME TypeOK, Formed, LockInv, FreshInv, NEW r \in Requests, WriteTransfer(r)
    PROVE  Ends(r) /\ Writes(r)
<1>1. req[r].pc = "write" /\ req[r].op \in LocksWorkspace
  BY DEF WriteTransfer, Writing, LocksWorkspace
<1>2. /\ req[r].in \in Workspaces /\ req[r].target \in Users /\ req[r].actor \in Users
      /\ workspaceLock[req[r].in] = r /\ workspace[req[r].in] # "absent"
  BY <1>1, AtWrite DEF LocksWorkspace, Lifecycle
<1>3. Ends(r)
  <2> DEFINE U == {req[r].target, req[r].actor}
                  \cup {u \in Users \ {req[r].target} : ActiveOwner(req[r].in, u)}
  <2>1. U \in SUBSET Users /\ Commit(r, U)
    BY <1>2 DEF WriteTransfer
  <2> HIDE DEF U
  <2> QED  BY <2>1, CommitEnds
<1> DEFINE row == [u \in Users |-> [status |-> member[req[r].in][u].status,
                                    role |-> TransferRole(r, u)]]
<1>4. row \in [Users -> Membership]
  <2>1. \A u \in Users : member[req[r].in][u] \in Membership
    BY <1>2 DEF TypeOK
  <2>2. \A u \in Users : TransferRole(r, u) \in Roles \cup {NoRole}
    BY <2>1 DEF TransferRole, Membership, Roles
  <2> QED  BY <2>1, <2>2, MembershipFields
<1>5. member' = [member EXCEPT ![req[r].in] = row] /\ UNCHANGED <<account, workspace>>
  BY DEF WriteTransfer
<1> HIDE DEF row
<1>6. member' \in [Workspaces -> [Users -> Membership]]
  BY <1>4, <1>5 DEF TypeOK
<1>7. \A w \in Workspaces, u \in Users : member'[w][u] # member[w][u] => w = req[r].in
  BY <1>5 DEF TypeOK
<1>8. \A u : Usable(u)' <=> Usable(u)
  BY <1>5 DEF Usable, Present
<1> QED  BY <1>2, <1>3, <1>5, <1>6, <1>7, <1>8 DEF Writes, TypeOK

LEMMA CreateWritten ==
    ASSUME TypeOK, Formed, LockInv, FreshInv, NEW r \in Requests, WriteCreate(r)
    PROVE  Ends(r) /\ Writes(r)
<1>1. req[r].pc = "write" /\ req[r].op = "create"
  BY DEF WriteCreate, Writing
<1>2. req[r].in \in Workspaces /\ req[r].target \in Users /\ req[r].actor \in Users
  BY <1>1, AtWrite DEF Lifecycle
<1>3. Ends(r)
  <2>1. {req[r].actor} \in SUBSET Users /\ Commit(r, {req[r].actor})
    BY <1>2 DEF WriteCreate
  <2> QED  BY <2>1, CommitEnds
<1> DEFINE m == [status |-> "ACTIVE", role |-> "OWNER"]
<1>4. /\ m \in Membership
      /\ member' = [member EXCEPT ![req[r].in][req[r].target] = m]
      /\ workspace' = [workspace EXCEPT ![req[r].in] = "live"]
      /\ UNCHANGED account
  BY DEF WriteCreate, SetRow, Membership, Roles
<1> HIDE DEF m
<1>5. member' \in [Workspaces -> [Users -> Membership]]
  BY <1>4 DEF TypeOK
<1>6. \A w \in Workspaces, u \in Users : member'[w][u] # member[w][u] => w = req[r].in
  BY <1>4 DEF TypeOK
<1>7. \A w \in Workspaces : workspace'[w] = IF w = req[r].in THEN "live" ELSE workspace[w]
  BY <1>4 DEF TypeOK
<1>8. workspace' \in [Workspaces -> {"absent", "live", "closed"}]
  BY <1>4 DEF TypeOK
<1>9. \A u : Usable(u)' <=> Usable(u)
  BY <1>4 DEF Usable, Present
<1> QED  BY <1>1, <1>3, <1>4, <1>5, <1>6, <1>7, <1>8, <1>9 DEF Writes, TypeOK

LEMMA AccountFields ==
    ASSUME NEW a \in Account, NEW b \in BOOLEAN
    PROVE  /\ [a EXCEPT !.exists = b] \in Account
           /\ [a EXCEPT !.active = b] \in Account
           /\ [a EXCEPT !.deleted = b] \in Account
           /\ [a EXCEPT !.verified = b] \in Account
BY DEF Account

(* A statement on one users row. *)
LEMMA AccountWritten ==
    ASSUME TypeOK, NEW r, NEW t \in Users, NEW a \in Account,
           account' = [account EXCEPT ![t] = a], UNCHANGED <<workspace, member>>,
           \/ Usable(t) => a.exists /\ a.active /\ ~a.deleted
           \/ userLock[t] = Nobody /\ req[r].op = "deactivateAgain"
           \/ userLock[t] = r /\ req[r].op \in Lifecycle /\ req[r].pc = "write"
    PROVE  Writes(r)
<1>1. \A u \in Users : u # t => account'[u] = account[u]
  BY DEF TypeOK
<1>2. \A u \in Users : u # t => (Usable(u)' <=> Usable(u))
  BY <1>1 DEF Usable, Present
<1>3. account'[t] = a
  BY DEF TypeOK
<1>4. Usable(t)' <=> a.exists /\ a.active /\ ~a.deleted
  BY <1>3 DEF Usable, Present
<1> QED  BY <1>2, <1>4 DEF Writes, TypeOK

LEMMA AccountsWritten ==
    ASSUME TypeOK, Formed, LockInv, FreshInv, NEW r \in Requests,
           \/ WriteDelete(r) \/ WriteDeactivate(r) \/ WriteUpdate(r)
    PROVE  Ends(r) /\ Writes(r)
<1>1. CASE WriteDelete(r)
  <2>1. /\ req[r].target \in Users /\ userLock[req[r].target] = r
        /\ req[r].op \in Lifecycle /\ req[r].pc = "write"
    BY <1>1, AtWrite DEF WriteDelete, Writing, Lifecycle, LocksUser
  <2> DEFINE a == [account[req[r].target] EXCEPT !.deleted = TRUE]
  <2>2. /\ a \in Account /\ account' = [account EXCEPT ![req[r].target] = a]
        /\ UNCHANGED <<workspace, member>> /\ Commit(r, {req[r].target})
    BY <1>1, <2>1, AccountFields DEF WriteDelete, TypeOK
  <2> HIDE DEF a
  <2> QED  BY <2>1, <2>2, AccountWritten, CommitEnds
<1>2. CASE WriteDeactivate(r)
  <2>1. /\ req[r].target \in Users /\ userLock[req[r].target] = r
        /\ req[r].op \in Lifecycle /\ req[r].pc = "write"
    BY <1>2, AtWrite DEF WriteDeactivate, Writing, Lifecycle, LocksUser
  <2> DEFINE a == [account[req[r].target] EXCEPT !.active = FALSE]
  <2>2. /\ a \in Account /\ account' = [account EXCEPT ![req[r].target] = a]
        /\ UNCHANGED <<workspace, member>> /\ Commit(r, {req[r].target})
    BY <1>2, <2>1, AccountFields DEF WriteDeactivate, TypeOK
  <2> HIDE DEF a
  <2> QED  BY <2>1, <2>2, AccountWritten, CommitEnds
<1>3. CASE WriteUpdate(r)
  <2>1. req[r].target \in Users /\ userLock[req[r].target] = Nobody
    BY <1>3 DEF WriteUpdate, Stating, Formed, FormedRequest
  <2> DEFINE b == req[r].op = "activate"
             a == [account[req[r].target] EXCEPT !.active = b]
  <2>2. b \in BOOLEAN /\ {} \in SUBSET Users
    OBVIOUS
  <2>3. account[req[r].target] \in Account
    BY <2>1 DEF TypeOK
  <2>4. /\ account' = [account EXCEPT ![req[r].target] = a]
        /\ UNCHANGED <<workspace, member>> /\ Commit(r, {})
    BY <1>3 DEF WriteUpdate
  <2>5. req[r].op \in {"activate", "deactivateAgain"}
    BY <1>3 DEF WriteUpdate, Stating
  <2>6. req[r].op # "deactivateAgain" => b
    BY <2>5
  <2> HIDE DEF b
  <2>7. /\ a \in Account /\ a.active = b
        /\ a.exists = account[req[r].target].exists
        /\ a.deleted = account[req[r].target].deleted
    BY <2>2, <2>3, AccountFields DEF Account
  <2>8. Usable(req[r].target) /\ b => a.exists /\ a.active /\ ~a.deleted
    BY <2>7 DEF Usable, Present
  <2> HIDE DEF a
  <2> QED  BY <2>1, <2>2, <2>4, <2>6, <2>7, <2>8, AccountWritten, CommitEnds
<1> QED  BY <1>1, <1>2, <1>3

LEMMA EraseWritten ==
    ASSUME TypeOK, Formed, LockInv, FreshInv, NEW r \in Requests, WriteErase(r)
    PROVE  Ends(r) /\ Writes(r)
<1>1. /\ req[r].target \in Users /\ userLock[req[r].target] = r
      /\ req[r].op \in Lifecycle /\ req[r].pc = "write"
  BY AtWrite DEF WriteErase, Writing, Lifecycle, LocksUser
<1>2. Ends(r)
  <2> DEFINE U == {req[r].target} \cup
                  {u \in Users : \E w \in req[r].owned : member[w][u].status # "NONE"}
  <2>1. U \in SUBSET Users /\ Commit(r, U)
    BY <1>1 DEF WriteErase
  <2> HIDE DEF U
  <2> QED  BY <2>1, CommitEnds
<1> DEFINE a == [[account[req[r].target] EXCEPT !.deleted = TRUE] EXCEPT !.verified = FALSE]
<1>3. a \in Account
  BY <1>1, AccountFields DEF TypeOK
<1>4. /\ account' = [account EXCEPT ![req[r].target] = a]
      /\ workspace' = [w \in Workspaces |-> IF w \in req[r].owned THEN "closed" ELSE workspace[w]]
      /\ UNCHANGED member
  <2>1. account' = [account EXCEPT ![req[r].target].deleted = TRUE,
                                   ![req[r].target].verified = FALSE]
    BY DEF WriteErase
  <2>2. account[req[r].target] \in Account
    BY <1>1 DEF TypeOK
  <2>3. account' = [account EXCEPT ![req[r].target] = a]
    BY <1>1, <2>1, <2>2 DEF TypeOK, Account
  <2> QED  BY <2>3 DEF WriteErase
<1> HIDE DEF a
<1>5. \A u \in Users : u # req[r].target => (Usable(u)' <=> Usable(u))
  BY <1>4 DEF Usable, Present, TypeOK
<1>6. account' \in [Users -> Account]
  BY <1>3, <1>4 DEF TypeOK
<1>7. /\ workspace' \in [Workspaces -> {"absent", "live", "closed"}]
      /\ \A w \in Workspaces :
             /\ w \in req[r].owned => workspace'[w] = "closed"
             /\ w \notin req[r].owned => workspace'[w] = workspace[w]
  BY <1>4 DEF TypeOK
<1>8. \A w \in req[r].owned : workspace[w] # "absent"
  BY DEF FreshInv, FreshFor
<1>9. \A w \in Workspaces : workspace'[w] = "absent" <=> workspace[w] = "absent"
  BY <1>7, <1>8
<1> QED  BY <1>1, <1>2, <1>4, <1>5, <1>6, <1>7, <1>9 DEF Writes, TypeOK

LEMMA CloseWritten ==
    ASSUME TypeOK, Formed, LockInv, FreshInv, NEW r \in Requests, WriteClose(r)
    PROVE  Ends(r) /\ Writes(r)
<1>1. req[r].drop \in SUBSET Users /\ Commit(r, req[r].drop)
  BY DEF WriteClose, TypeOK, Request
<1>2. Ends(r)
  BY <1>1, CommitEnds
<1>3. /\ workspace' = [workspace EXCEPT ![req[r].in] = "closed"]
      /\ UNCHANGED <<account, member>>
      /\ workspace[req[r].in] # "absent"
  BY DEF WriteClose, Stating, FreshInv, FreshFor
<1>4. \A w \in Workspaces : workspace'[w] = IF w = req[r].in THEN "closed" ELSE workspace[w]
  BY <1>3 DEF TypeOK
<1>5. workspace' \in [Workspaces -> {"absent", "live", "closed"}]
  BY <1>3 DEF TypeOK
<1>6. \A u : Usable(u)' <=> Usable(u)
  BY <1>3 DEF Usable, Present
<1> QED  BY <1>2, <1>3, <1>4, <1>5, <1>6 DEF Writes, TypeOK

LEMMA InvitationsOnly ==
    ASSUME TypeOK, NEW r \in Requests,
           \/ WriteInvite(r) \/ WriteRevoke(r) \/ WriteResend(r)
    PROVE  Ends(r) /\ Writes(r)
<1>1. Commit(r, {}) /\ UNCHANGED <<account, workspace, member>>
  BY DEF WriteInvite, WriteRevoke, WriteResend
<1> QED  BY <1>1, CommitEnds, NothingWritten

(* Steps that end without having written anything. *)
Refuses(r) ==
    \/ LockUserRefused(r) \/ CheckRefused(r) \/ InviteCollides(r) \/ AcceptRefused(r)
    \/ NoLongerPending(r) \/ DeadlockVictim(r) \/ Crash(r)

LEMMA Refusals ==
    ASSUME TypeOK, NEW r \in Requests, Refuses(r)
    PROVE  Ends(r) /\ Writes(r) /\ UNCHANGED <<tables, outdated>>
<1>1. ReleaseLocks(r) /\ req' = [req EXCEPT ![r] = Idle] /\ UNCHANGED <<tables, outdated>>
  BY DEF Refuses, LockUserRefused, CheckRefused, InviteCollides, AcceptRefused,
         NoLongerPending, DeadlockVictim, Crash, Refuse
<1> QED  BY <1>1, RefuseEnds, NothingWritten DEF tables

-----------------------------------------------------------------------------
(* The end of a transaction *)

LEMMA EndsKeep ==
    ASSUME TypeOK, Formed, LockInv, NEW r \in Requests, Ends(r)
    PROVE  /\ userLock' \in [Users -> Requests \cup {Nobody}]
           /\ workspaceLock' \in [Workspaces -> Requests \cup {Nobody}]
           /\ req' \in [Requests -> Request]
           /\ Formed' /\ LockInv'
<1>1. PICK y \in Request : /\ FormedRequest(y) /\ y.pc \in {"idle", "drop"}
                           /\ req' = [req EXCEPT ![r] = y]
  BY DEF Ends
<1>2. req' \in [Requests -> Request] /\ req'[r] = y
      /\ \A s \in Requests : s # r => req'[s] = req[s]
  BY <1>1 DEF TypeOK
<1>3. /\ \A u \in Users : userLock'[u] = IF userLock[u] = r THEN Nobody ELSE userLock[u]
      /\ \A w \in Workspaces :
             workspaceLock'[w] = IF workspaceLock[w] = r THEN Nobody ELSE workspaceLock[w]
      /\ userLock' \in [Users -> Requests \cup {Nobody}]
      /\ workspaceLock' \in [Workspaces -> Requests \cup {Nobody}]
  BY DEF Ends, ReleaseLocks, TypeOK
<1>4. Formed'
  BY <1>1, <1>2 DEF Formed
<1>5. ASSUME NEW s \in Requests, s # r PROVE LocksOf(s)'
  <2>1. LocksOf(s) /\ req'[s] = req[s] /\ s # Nobody
    BY <1>2, <1>5, RosterAssumption DEF LockInv
  <2>2. /\ \A u \in Users : userLock'[u] = s <=> userLock[u] = s
        /\ \A w \in Workspaces : workspaceLock'[w] = s <=> workspaceLock[w] = s
    BY <1>3, <1>5, <2>1
  <2>3. req[s].owned \in SUBSET Workspaces
    BY DEF TypeOK, Request
  <2>4. Holding(s) /\ req[s].op \in LocksWorkspace => req[s].in \in Workspaces
    <3>1. FormedRequest(req[s])
      BY DEF Formed
    <3> QED  BY <3>1 DEF FormedRequest, Holding, LocksWorkspace, Lifecycle
  <2> QED  BY <2>1, <2>2, <2>3, <2>4 DEF LocksOf, HoldsUser, Holding
<1>6. LocksOf(r)'
  <2>1. \A u \in Users : userLock'[u] # r
    BY <1>3, RosterAssumption
  <2>2. \A w \in Workspaces : workspaceLock'[w] # r
    BY <1>3, RosterAssumption
  <2>3. ~Holding(r)'
    BY <1>1, <1>2 DEF Holding
  <2> QED  BY <2>1, <2>2, <2>3 DEF LocksOf, HoldsUser
<1> QED  BY <1>2, <1>3, <1>4, <1>5, <1>6 DEF LockInv

LEMMA WritesKeep ==
    ASSUME TypeOK, Formed, LockInv, FreshInv, SeatInv, NEW r \in Requests, Ends(r), Writes(r)
    PROVE  FreshInv' /\ SeatInv'
<1>1. PICK y \in Request : /\ FormedRequest(y) /\ y.pc \in {"idle", "drop"}
                           /\ req' = [req EXCEPT ![r] = y]
  BY DEF Ends
<1>2. /\ req'[r] = y /\ y.op = "none" /\ y.todo = {} /\ y.owned = {}
      /\ \A s \in Requests : s # r => req'[s] = req[s]
  BY <1>1 DEF TypeOK, FormedRequest
<1>3. /\ \A u \in Users : userLock'[u] = IF userLock[u] = r THEN Nobody ELSE userLock[u]
      /\ \A w \in Workspaces :
             workspaceLock'[w] = IF workspaceLock[w] = r THEN Nobody ELSE workspaceLock[w]
  BY DEF Ends, ReleaseLocks
<1>4. ASSUME NEW s \in Requests, s # r PROVE FreshFor(s)'
  <2>1. FreshFor(s) /\ req'[s] = req[s] /\ s # Nobody
    BY <1>2, <1>4, RosterAssumption DEF FreshInv
  <2>2. /\ req[s].todo \in SUBSET Workspaces /\ req[s].owned \in SUBSET Workspaces
    BY DEF TypeOK, Request
  <2>3. \A w \in Workspaces : workspace[w] # "absent" => workspace'[w] # "absent"
    BY DEF Writes
  <2>4. req[s].op \in {"create", "close"} => req[s].in \in Workspaces
    <3>1. FormedRequest(req[s]) /\ req[s] \in Request
      BY DEF Formed, TypeOK
    <3>2. req[s].op \in {"create", "close"} => req[s].op \notin Lifecycle
      BY DEF Lifecycle
    <3>3. req[s].op \in {"create", "close"} => req[s].pc \notin {"idle", "drop"}
      BY <3>1 DEF FormedRequest
    <3> QED  BY <3>1, <3>2, <3>3 DEF FormedRequest, Request, Stages
  <2>5. req[s].op = "create" => workspace'[req[s].in] = "absent"
    <3>1. ASSUME req[s].op = "create", req[r].op = "create" PROVE req[r].in # req[s].in
      BY <1>4, <2>1, <3>1 DEF FreshFor
    <3> QED  BY <2>1, <2>4, <3>1 DEF Writes, FreshFor
  <2>6. req[s].op = "create" =>
            \A q \in Requests : req'[q].op = "create" /\ req'[q].in = req[s].in => q = s
    BY <1>2, <2>1 DEF FreshFor
  <2>7. \A w \in Workspaces : workspaceLock'[w] = s => workspace'[w] # "absent"
    BY <1>3, <2>1, <2>3 DEF FreshFor
  <2>8. \A w \in req[s].todo \cup req[s].owned : workspace'[w] # "absent"
    BY <2>1, <2>2, <2>3 DEF FreshFor
  <2>9. req[s].op = "close" => workspace'[req[s].in] # "absent"
    BY <2>1, <2>3, <2>4 DEF FreshFor
  <2> QED  BY <2>1, <2>5, <2>6, <2>7, <2>8, <2>9 DEF FreshFor
<1>5. FreshFor(r)'
  BY <1>2, <1>3, RosterAssumption DEF FreshFor
<1>6. ASSUME NEW w \in Workspaces, NEW u \in Users, workspace'[w] = "absent"
      PROVE  member'[w][u].status = "NONE"
  BY <1>6 DEF Writes, FreshInv
<1>7. ASSUME NEW s \in Requests, Holding(s)', req'[s].op \in NeedsUsable
      PROVE  Usable(req[s].target)'
  <2>1. s # r /\ req'[s] = req[s] /\ s # Nobody
    BY <1>1, <1>2, <1>7, RosterAssumption DEF Holding
  <2>2. Holding(s) /\ req[s].op \in NeedsUsable /\ FormedRequest(req[s]) /\ LocksOf(s)
    BY <1>7, <2>1 DEF Holding, Formed, LockInv
  <2>3. Usable(req[s].target) /\ req[s].target \in Users
    BY <2>2 DEF SeatInv, FormedRequest, Holding
  <2>4. userLock[req[s].target] = s
    BY <2>2, <2>3 DEF LocksOf, HoldsUser, NeedsUsable
  <2> DEFINE t == req[s].target
  <2>5. t' = t
    BY <2>1
  <2>6. Usable(t)'
    <3> HIDE DEF t
    <3>1. \A u \in Users : Usable(u) /\ userLock[u] = s => Usable(u)'
      BY <2>1 DEF Writes
    <3>2. account'[t].exists /\ account'[t].active /\ ~account'[t].deleted
      BY <2>3, <2>4, <3>1 DEF Usable, Present, t
    <3> QED  BY <2>5, <3>2 DEF Usable, Present
  <2> QED  BY <2>6
<1>8. SeatInv'
  BY <1>7 DEF SeatInv
<1> QED  BY <1>4, <1>5, <1>6, <1>8 DEF FreshInv

-----------------------------------------------------------------------------
(* Steps inside a transaction, and the start of one *)

(* r becomes y; the tables stay, and the other requests keep their locks.   *)
Moves(r, y) ==
    /\ y \in Request /\ FormedRequest(y)
    /\ req' = [req EXCEPT ![r] = y]
    /\ UNCHANGED <<tables, outdated>>
    /\ userLock' \in [Users -> Requests \cup {Nobody}]
    /\ workspaceLock' \in [Workspaces -> Requests \cup {Nobody}]
    /\ \A s \in Requests : s # r =>
           /\ \A u \in Users : userLock'[u] = s <=> userLock[u] = s
           /\ \A w \in Workspaces : workspaceLock'[w] = s <=> workspaceLock[w] = s
           /\ y.op = "create" => ~(req[s].op = "create" /\ req[s].in = y.in)

LEMMA MovesKeep ==
    ASSUME TypeOK, Formed, LockInv, FreshInv, SeatInv, NEW r \in Requests, NEW y,
           Moves(r, y), LocksOf(r)', FreshFor(r)',
           Holding(r)' /\ y.op \in NeedsUsable => Usable(y.target)
    PROVE  Formed' /\ LockInv' /\ FreshInv' /\ SeatInv' /\ req' \in [Requests -> Request]
<1>1. /\ req'[r] = y /\ req' \in [Requests -> Request]
      /\ \A s \in Requests : s # r => req'[s] = req[s]
  BY DEF Moves, TypeOK
<1>2. account' = account /\ workspace' = workspace /\ member' = member
  BY DEF Moves, tables
<1>3. Formed'
  BY <1>1 DEF Formed, Moves
<1>4. ASSUME NEW s \in Requests, s # r PROVE LocksOf(s)' /\ FreshFor(s)'
  <2>1. LocksOf(s) /\ FreshFor(s) /\ req'[s] = req[s]
    BY <1>1, <1>4 DEF LockInv, FreshInv
  <2>2. /\ \A u \in Users : userLock'[u] = s <=> userLock[u] = s
        /\ \A w \in Workspaces : workspaceLock'[w] = s <=> workspaceLock[w] = s
        /\ y.op = "create" => ~(req[s].op = "create" /\ req[s].in = y.in)
    BY <1>4 DEF Moves
  <2>3. req[s].owned \in SUBSET Workspaces
    BY DEF TypeOK, Request
  <2>4. Holding(s) /\ req[s].op \in LocksWorkspace => req[s].in \in Workspaces
    <3>1. FormedRequest(req[s])
      BY DEF Formed
    <3> QED  BY <3>1 DEF FormedRequest, Holding, LocksWorkspace, Lifecycle
  <2>5. LocksOf(s)'
    BY <2>1, <2>2, <2>3, <2>4 DEF LocksOf, HoldsUser, Holding
  <2>6. req[s].op = "create" =>
            \A q \in Requests : req'[q].op = "create" /\ req'[q].in = req[s].in => q = s
    BY <1>1, <2>1, <2>2 DEF FreshFor
  <2>7. FreshFor(s)'
    BY <1>2, <2>1, <2>2, <2>6 DEF FreshFor
  <2> QED  BY <2>5, <2>7
<1>5. FreshInv'
  BY <1>2, <1>4 DEF FreshInv
<1>6. LockInv'
  BY <1>4 DEF LockInv
<1>7. ASSUME NEW s \in Requests, Holding(s)', req'[s].op \in NeedsUsable
      PROVE  Usable(req[s].target)'
  <2>1. CASE s = r
    BY <1>1, <1>2, <1>7, <2>1 DEF Usable, Present
  <2>2. CASE s # r
    BY <1>1, <1>2, <1>7, <2>2 DEF SeatInv, Usable, Present, Holding
  <2> QED  BY <2>1, <2>2
<1>8. SeatInv'
  BY <1>7 DEF SeatInv
<1> QED  BY <1>1, <1>3, <1>5, <1>6, <1>8

LEMMA BeginKeeps ==
    ASSUME RosterIInv, NEW r \in Requests, BeginAny(r)
    PROVE  /\ Formed' /\ LockInv' /\ FreshInv' /\ SeatInv' /\ req' \in [Requests -> Request]
           /\ UNCHANGED <<tables, locks, outdated>>
<1>1. Started(r) /\ req[r].pc = "idle"
  BY BeginStarts DEF BeginAny, RosterIInv
<1>2. PICK y \in Request : Starts(y) /\ req' = [req EXCEPT ![r] = y]
  BY <1>1 DEF Started
<1>3. UNCHANGED <<tables, locks, outdated>>
  BY <1>1 DEF Started
<1>4. req'[r] = y
  BY <1>2 DEF RosterIInv, TypeOK
<1>5. Moves(r, y)
  <2>1. \A s \in Requests : y.op = "create" /\ req[s].op = "create" => req[s].in # y.in
    BY <1>2 DEF Starts
  <2> QED  BY <1>2, <1>3, <2>1 DEF Moves, Starts, RosterIInv, TypeOK, tables, locks
<1>6. /\ \A u \in Users : userLock[u] # r
      /\ \A w \in Workspaces : workspaceLock[w] # r
  BY <1>1 DEF RosterIInv, LockInv, LocksOf, HoldsUser, Holding
<1>7. LocksOf(r)'
  <2>1. \A u \in Users : ~HoldsUser(r, u)'
    BY <1>2, <1>4 DEF HoldsUser, Holding, Starts
  <2>2. Holding(r)' => y.op \in LocksWorkspace \ LocksUser /\ y.in \in y.todo
    BY <1>2, <1>4 DEF Holding, Starts
  <2>3. y.op \in LocksWorkspace => y.op \notin Lifecycle
    BY DEF LocksWorkspace, Lifecycle
  <2> QED  BY <1>3, <1>4, <1>6, <2>1, <2>2, <2>3 DEF LocksOf, locks
<1>8. FreshFor(r)'
  <2>1. y.op = "create" => \A s \in Requests :
            req'[s].op = "create" /\ req'[s].in = y.in => s = r
    BY <1>2, <1>4 DEF Starts, RosterIInv, TypeOK
  <2> QED  BY <1>2, <1>3, <1>4, <1>6, <2>1 DEF FreshFor, Starts, tables, locks
<1>9. ~(Holding(r)' /\ y.op \in NeedsUsable)
  BY <1>2, <1>4 DEF Holding, Starts, NeedsUsable
<1> QED  BY <1>3, <1>5, <1>7, <1>8, <1>9, MovesKeep DEF RosterIInv

LEMMA LockUserKeeps ==
    ASSUME RosterIInv, NEW r \in Requests, LockUser(r)
    PROVE  /\ Formed' /\ LockInv' /\ FreshInv' /\ SeatInv' /\ req' \in [Requests -> Request]
           /\ userLock' \in [Users -> Requests \cup {Nobody}]
           /\ UNCHANGED <<tables, workspaceLock, outdated>>
<1> USE DEF RosterIInv
<1> DEFINE owned == IF req[r].op \in Lifecycle THEN OwnedLive(req[r].target) ELSE {}
           todo == IF req[r].op \in Lifecycle THEN owned ELSE req[r].todo
           p == IF todo = {} THEN "check" ELSE "lockWorkspaces"
           y == [req[r] EXCEPT !.owned = owned, !.todo = todo, !.pc = p]
<1>1. /\ req[r].pc = "lockUser" /\ userLock[req[r].target] = Nobody /\ MayHoldActive(r)
      /\ userLock' = [userLock EXCEPT ![req[r].target] = r]
      /\ UNCHANGED <<tables, workspaceLock, outdated>>
  BY DEF LockUser
<1>2. req[r] \in Request /\ FormedRequest(req[r]) /\ LocksOf(r) /\ FreshFor(r)
  BY DEF TypeOK, Formed, LockInv, FreshInv
<1>3. req' = [req EXCEPT ![r] = y]
  BY DEF LockUser, TypeOK
<1>4. /\ owned \in SUBSET Workspaces /\ todo \in SUBSET Workspaces /\ p \in Stages
      /\ p \in {"check", "lockWorkspaces"} /\ (p = "check" => todo = {})
      /\ \A w \in owned : workspace[w] = "live"
      /\ req[r].op \notin Lifecycle => todo = req[r].todo /\ owned = {}
      /\ req[r].op \in Lifecycle => todo = owned
  BY <1>2 DEF OwnedLive, Stages, Request
<1> HIDE DEF owned, todo, p
<1>5. /\ y \in Request /\ y.pc = p /\ y.todo = todo /\ y.owned = owned
      /\ y.op = req[r].op /\ y.actor = req[r].actor /\ y.target = req[r].target
      /\ y.in = req[r].in /\ y.inv = req[r].inv
  BY <1>2, <1>4 DEF Request
<1> HIDE DEF y
<1>6. /\ y.op \in LocksUser /\ y.target \in Users
      /\ y.op \in LocksWorkspace => y.op \notin Lifecycle /\ y.todo = {y.in} /\ y.in \in Workspaces
      /\ y.op \notin LocksWorkspace => req[r].todo = {}
  BY <1>1, <1>2, <1>4, <1>5 DEF FormedRequest, LocksWorkspace, Lifecycle
<1>7. FormedRequest(y)
  BY <1>1, <1>2, <1>4, <1>5, <1>6 DEF FormedRequest
<1>8. /\ req'[r] = y /\ userLock'[y.target] = r
      /\ \A u \in Users : u # y.target => userLock'[u] = userLock[u]
      /\ userLock' \in [Users -> Requests \cup {Nobody}]
  BY <1>1, <1>3, <1>5, <1>6 DEF TypeOK
<1>9. Moves(r, y)
  <2>1. ASSUME NEW s \in Requests, s # r
        PROVE  /\ \A u \in Users : userLock'[u] = s <=> userLock[u] = s
               /\ y.op = "create" => ~(req[s].op = "create" /\ req[s].in = y.in)
    BY <1>1, <1>2, <1>5, <1>8, <2>1, RosterAssumption DEF FreshFor
  <2> QED  BY <1>1, <1>3, <1>5, <1>7, <1>8, <2>1 DEF Moves, TypeOK
<1>10. /\ \A u \in Users : userLock[u] # r
       /\ \A w \in Workspaces : workspaceLock[w] # r
  BY <1>1, <1>2 DEF LocksOf, HoldsUser, Holding
<1>11. Holding(r)'
  BY <1>4, <1>5, <1>8 DEF Holding
<1>12. LocksOf(r)'
  <2>1. \A u \in Users : userLock'[u] = r <=> HoldsUser(r, u)'
    BY <1>6, <1>8, <1>10, <1>11 DEF HoldsUser
  <2>2. \A w \in Workspaces : workspaceLock'[w] # r
    BY <1>1, <1>10
  <2>3. y.op \in LocksWorkspace => y.in \in y.todo
    BY <1>6
  <2>4. y.op \in Lifecycle => y.todo = y.owned
    BY <1>4, <1>5
  <2> QED  BY <1>8, <2>1, <2>2, <2>3, <2>4 DEF LocksOf
<1>13. FreshFor(r)'
  <2>1. \A w \in todo \cup owned : workspace[w] # "absent"
    BY <1>2, <1>4 DEF FreshFor
  <2>2. y.op = "create" => \A s \in Requests :
            req'[s].op = "create" /\ req'[s].in = y.in => s = r
    BY <1>2, <1>3, <1>5 DEF FreshFor, TypeOK
  <2> QED  BY <1>1, <1>2, <1>5, <1>8, <1>10, <2>1, <2>2 DEF FreshFor, tables
<1>14. y.op \in NeedsUsable => Usable(y.target)
  BY <1>1, <1>5 DEF MayHoldActive
<1> QED  BY <1>1, <1>8, <1>9, <1>12, <1>13, <1>14, MovesKeep

(* A nonempty set of workspaces has a first one. *)
LEMMA FirstWorkspace ==
    ASSUME NEW S \in SUBSET Workspaces, S # {}
    PROVE  Min(S) \in S /\ \A x \in S : Min(S) <= x
<1>1. S \subseteq Nat
  BY RosterAssumption
<1>2. PICK m \in S : \A y \in S : ~(<<y, m>> \in OpToRel(<, Nat))
  BY <1>1, NatLessThanWellFounded, WFMin
<1>3. \A y \in S : ~(y < m)
  BY <1>1, <1>2 DEF OpToRel
<1>4. \A y \in S : m <= y
  BY <1>1, <1>3
<1> QED  BY <1>4 DEF Min

LEMMA LockWorkspaceKeeps ==
    ASSUME RosterIInv, NEW r \in Requests, LockWorkspace(r)
    PROVE  /\ Formed' /\ LockInv' /\ FreshInv' /\ SeatInv' /\ req' \in [Requests -> Request]
           /\ workspaceLock' \in [Workspaces -> Requests \cup {Nobody}]
           /\ UNCHANGED <<tables, userLock, outdated>>
<1> USE DEF RosterIInv
<1>1. PICK w \in Workspaces :
        /\ req[r].pc = "lockWorkspaces" /\ w \in req[r].todo /\ w = Min(req[r].todo)
        /\ workspaceLock[w] = Nobody
        /\ workspaceLock' = [workspaceLock EXCEPT ![w] = r]
        /\ req' = [req EXCEPT ![r].todo = @ \ {w},
                      ![r].pc = IF req[r].todo = {w} THEN "check" ELSE "lockWorkspaces"]
        /\ UNCHANGED <<tables, grants, userLock, outdated>>
  BY DEF LockWorkspace, NextWorkspace
<1>2. req[r] \in Request /\ FormedRequest(req[r]) /\ LocksOf(r) /\ FreshFor(r)
  BY DEF TypeOK, Formed, LockInv, FreshInv
<1> DEFINE todo == req[r].todo \ {w}
           p == IF req[r].todo = {w} THEN "check" ELSE "lockWorkspaces"
           y == [req[r] EXCEPT !.todo = todo, !.pc = p]
<1>3. req' = [req EXCEPT ![r] = y]
  BY <1>1 DEF TypeOK
<1>4. /\ todo \in SUBSET Workspaces /\ p \in Stages
      /\ p \in {"check", "lockWorkspaces"} /\ (p = "check" => todo = {})
      /\ todo \subseteq req[r].todo
      /\ \A x \in req[r].todo : x = w \/ x \in todo
      /\ \A x \in todo : w < x
  <2>1. req[r].todo \in SUBSET Workspaces /\ req[r].todo # {}
    BY <1>1, <1>2 DEF Request
  <2>2. \A x \in req[r].todo : w <= x
    BY <1>1, <2>1, FirstWorkspace
  <2>3. \A x \in Workspaces : x \in Nat
    BY RosterAssumption
  <2> QED  BY <1>1, <2>1, <2>2, <2>3 DEF Stages
<1> HIDE DEF todo, p
<1>5. /\ y \in Request /\ y.pc = p /\ y.todo = todo /\ y.owned = req[r].owned
      /\ y.op = req[r].op /\ y.actor = req[r].actor /\ y.target = req[r].target
      /\ y.in = req[r].in /\ y.inv = req[r].inv
  BY <1>2, <1>4 DEF Request
<1> HIDE DEF y
<1>6. FormedRequest(y)
  BY <1>1, <1>2, <1>4, <1>5 DEF FormedRequest
<1>7. /\ req'[r] = y /\ workspaceLock'[w] = r
      /\ \A x \in Workspaces : x # w => workspaceLock'[x] = workspaceLock[x]
      /\ workspaceLock' \in [Workspaces -> Requests \cup {Nobody}]
  BY <1>1, <1>3 DEF TypeOK
<1>8. Moves(r, y)
  <2>1. ASSUME NEW s \in Requests, s # r
        PROVE  /\ \A x \in Workspaces : workspaceLock'[x] = s <=> workspaceLock[x] = s
               /\ y.op = "create" => ~(req[s].op = "create" /\ req[s].in = y.in)
    BY <1>1, <1>2, <1>5, <1>7, <2>1, RosterAssumption DEF FreshFor
  <2> QED  BY <1>1, <1>3, <1>5, <1>6, <1>7, <2>1 DEF Moves, TypeOK
<1>9. Holding(r) /\ Holding(r)'
  BY <1>1, <1>4, <1>5, <1>7 DEF Holding
<1>10. LocksOf(r)'
  <2>1. \A u \in Users : userLock'[u] = r <=> HoldsUser(r, u)'
    BY <1>1, <1>2, <1>5, <1>7, <1>9 DEF HoldsUser, LocksOf
  <2>2. ASSUME NEW x \in Workspaces, workspaceLock'[x] = r
        PROVE  \A z \in todo : x < z
    BY <1>2, <1>4, <1>7, <2>2 DEF LocksOf
  <2>3. y.op \in Lifecycle => \A x \in y.owned : x \in y.todo \/ workspaceLock'[x] = r
    <3>1. y.owned \in SUBSET Workspaces
      BY <1>2, <1>5 DEF Request
    <3> QED  BY <1>2, <1>4, <1>5, <1>7, <1>9, <3>1 DEF LocksOf
  <2>4. y.op \in LocksWorkspace => y.in \in y.todo \/ workspaceLock'[y.in] = r
    <3>1. y.op \in LocksWorkspace => y.in \in Workspaces
      BY <1>1, <1>2, <1>5 DEF FormedRequest, LocksWorkspace, Lifecycle
    <3> QED  BY <1>2, <1>4, <1>5, <1>7, <1>9, <3>1 DEF LocksOf
  <2> QED  BY <1>5, <1>7, <1>9, <2>1, <2>2, <2>3, <2>4 DEF LocksOf
<1>11. FreshFor(r)'
  <2>1. y.op = "create" => \A s \in Requests :
            req'[s].op = "create" /\ req'[s].in = y.in => s = r
    BY <1>2, <1>3, <1>5 DEF FreshFor, TypeOK
  <2>2. workspace[w] # "absent" /\ workspace' = workspace
    BY <1>1, <1>2 DEF FreshFor, tables
  <2> QED  BY <1>2, <1>4, <1>5, <1>7, <2>1, <2>2 DEF FreshFor
<1>12. y.op \in NeedsUsable => Usable(y.target)
  BY <1>5, <1>9 DEF SeatInv
<1> QED  BY <1>1, <1>7, <1>8, <1>10, <1>11, <1>12, MovesKeep

LEMMA CheckKeeps ==
    ASSUME RosterIInv, NEW r \in Requests, Check(r)
    PROVE  /\ Formed' /\ LockInv' /\ FreshInv' /\ SeatInv' /\ req' \in [Requests -> Request]
           /\ UNCHANGED <<tables, locks, outdated>>
<1> USE DEF RosterIInv
<1> DEFINE owned == SolelyOwned(r)
           y == [req[r] EXCEPT !.owned = owned, !.pc = "write"]
<1>1. req[r].pc = "check" /\ UNCHANGED <<tables, locks, outdated>>
  BY DEF Check
<1>2. req[r] \in Request /\ FormedRequest(req[r]) /\ LocksOf(r) /\ FreshFor(r)
  BY DEF TypeOK, Formed, LockInv, FreshInv
<1>3. req' = [req EXCEPT ![r] = y]
  BY DEF Check, TypeOK
<1>4. owned \subseteq req[r].owned
  BY DEF SolelyOwned
<1> HIDE DEF owned
<1>5. /\ y \in Request /\ y.pc = "write" /\ y.todo = req[r].todo /\ y.owned = owned
      /\ y.op = req[r].op /\ y.actor = req[r].actor /\ y.target = req[r].target
      /\ y.in = req[r].in /\ y.inv = req[r].inv
  BY <1>2, <1>4 DEF Request, Stages
<1> HIDE DEF y
<1>6. FormedRequest(y)
  BY <1>1, <1>2, <1>5 DEF FormedRequest
<1>7. req'[r] = y
  BY <1>3 DEF TypeOK
<1>8. Moves(r, y)
  <2>1. ASSUME NEW s \in Requests, s # r
        PROVE  y.op = "create" => ~(req[s].op = "create" /\ req[s].in = y.in)
    BY <1>2, <1>5, <2>1 DEF FreshFor
  <2> QED  BY <1>1, <1>3, <1>5, <1>6, <2>1 DEF Moves, TypeOK, locks
<1>9. Holding(r) /\ Holding(r)'
  BY <1>1, <1>5, <1>7 DEF Holding
<1>10. LocksOf(r)'
  <2>1. \A u \in Users : userLock'[u] = r <=> HoldsUser(r, u)'
    BY <1>1, <1>2, <1>5, <1>7, <1>9 DEF HoldsUser, LocksOf, locks
  <2> QED  BY <1>1, <1>2, <1>4, <1>5, <1>7, <1>9, <2>1 DEF LocksOf, locks
<1>11. FreshFor(r)'
  <2>1. y.op = "create" => \A s \in Requests :
            req'[s].op = "create" /\ req'[s].in = y.in => s = r
    BY <1>2, <1>3, <1>5 DEF FreshFor, TypeOK
  <2> QED  BY <1>1, <1>2, <1>4, <1>5, <1>7, <2>1 DEF FreshFor, tables, locks
<1>12. y.op \in NeedsUsable => Usable(y.target)
  BY <1>5, <1>9 DEF SeatInv
<1> QED  BY <1>1, <1>8, <1>10, <1>11, <1>12, MovesKeep

LEMMA DropKeeps ==
    ASSUME RosterIInv, NEW r \in Requests, DropGrants(r)
    PROVE  /\ Formed' /\ LockInv' /\ FreshInv' /\ SeatInv' /\ req' \in [Requests -> Request]
           /\ UNCHANGED <<tables, locks, outdated>>
<1> USE DEF RosterIInv
<1>1. PICK u \in req[r].drop :
        /\ req[r].pc = "drop"
        /\ req' = [req EXCEPT ![r] = IF req[r].drop = {u} THEN Idle
                                     ELSE [req[r] EXCEPT !.drop = req[r].drop \ {u}]]
        /\ UNCHANGED <<tables, locks, outdated>>
  BY DEF DropGrants
<1>2. req[r] \in Request /\ FormedRequest(req[r]) /\ LocksOf(r) /\ FreshFor(r)
  BY DEF TypeOK, Formed, LockInv, FreshInv
<1> DEFINE y == IF req[r].drop = {u} THEN Idle
                ELSE [req[r] EXCEPT !.drop = req[r].drop \ {u}]
<1>3. /\ y \in Request /\ y.pc \in {"idle", "drop"} /\ y.op = "none" /\ y.todo = {} /\ y.owned = {}
  <2>1. CASE req[r].drop = {u}
    BY <2>1, IdleFormed DEF Idle
  <2>2. CASE req[r].drop # {u}
    <3> DEFINE z == [req[r] EXCEPT !.drop = req[r].drop \ {u}]
    <3>1. z \in Request /\ z.pc = "drop" /\ z.op = req[r].op /\ z.todo = req[r].todo
          /\ z.owned = req[r].owned
      BY <1>1, <1>2 DEF Request
    <3>2. y = z
      BY <2>2
    <3> HIDE DEF y, z
    <3> QED  BY <1>1, <1>2, <3>1, <3>2 DEF FormedRequest
  <2> QED  BY <2>1, <2>2
<1>4. req' = [req EXCEPT ![r] = y]
  BY <1>1
<1> HIDE DEF y
<1>5. FormedRequest(y)
  BY <1>3 DEF FormedRequest
<1>6. req'[r] = y
  BY <1>4 DEF TypeOK
<1>7. Moves(r, y)
  BY <1>1, <1>3, <1>4, <1>5 DEF Moves, TypeOK, locks
<1>8. /\ \A v \in Users : userLock[v] # r
      /\ \A w \in Workspaces : workspaceLock[w] # r
  BY <1>1, <1>2 DEF LocksOf, HoldsUser, Holding
<1>9. ~Holding(r)'
  BY <1>3, <1>6 DEF Holding
<1>10. LocksOf(r)'
  BY <1>1, <1>8, <1>9 DEF LocksOf, HoldsUser, locks
<1>11. FreshFor(r)'
  BY <1>1, <1>3, <1>6, <1>8 DEF FreshFor, locks
<1> QED  BY <1>1, <1>7, <1>9, <1>10, <1>11, MovesKeep

-----------------------------------------------------------------------------
(* Cached grants and invitations *)

GrantsTyped == grants' \in [Users -> [Workspaces -> Roles \cup {NoRole}] \cup {NotCached}]

LEMMA GrantsLoaded ==
    ASSUME TypeOK, NEW U, LoadGrants(U)
    PROVE  GrantsTyped
<1>1. ASSUME NEW u \in Users
      PROVE  Grants(u) \in [Workspaces -> Roles \cup {NoRole}] \cup {NotCached}
  <2>1. \A w \in Workspaces : member[w][u].role \in Roles \cup {NoRole}
    BY DEF TypeOK, Membership
  <2>2. FreshGrants(u) \in [Workspaces -> Roles \cup {NoRole}]
    BY <2>1 DEF FreshGrants
  <2> QED  BY <2>2 DEF Grants, TypeOK
<1>2. \A u \in Users : grants[u] \in [Workspaces -> Roles \cup {NoRole}] \cup {NotCached}
  BY DEF TypeOK
<1> QED  BY <1>1, <1>2 DEF LoadGrants, GrantsTyped

LEMMA GrantsStayTyped ==
    ASSUME TypeOK, InvitationInv, [Next]_vars
    PROVE  GrantsTyped
<1>1. CASE UNCHANGED grants
  BY <1>1 DEF TypeOK, GrantsTyped
<1>2. ASSUME NEW r \in Requests, BeginAny(r) PROVE GrantsTyped
  <2>1. PICK a \in Users : LoadGrants({a})
    BY <1>2, BeginStarts DEF Started
  <2> QED  BY <2>1, GrantsLoaded
<1>3. ASSUME NEW r \in Requests, Check(r) \/ CheckRefused(r) PROVE GrantsTyped
  BY <1>3, GrantsLoaded DEF Check, CheckRefused
<1>4. ASSUME NEW u \in Users, LoadForRead(u) PROVE GrantsTyped
  BY <1>4, GrantsLoaded DEF LoadForRead
<1>5. ASSUME NEW u, grants' = [grants EXCEPT ![u] = NotCached] PROVE GrantsTyped
  BY <1>5 DEF TypeOK, GrantsTyped
<1>6. ASSUME NEW r \in Requests, DropGrants(r) PROVE GrantsTyped
  BY <1>5, <1>6 DEF DropGrants
<1>7. ASSUME NEW u \in Users, GrantsExpire(u) PROVE GrantsTyped
  BY <1>5, <1>7 DEF GrantsExpire
<1>8. ASSUME NEW r \in Requests, Proceed(r), ~Check(r), ~CheckRefused(r), ~DropGrants(r)
      PROVE  UNCHANGED grants
  BY <1>8 DEF Proceed, LockUser, LockUserRefused, LockWorkspace, WriteCreate, WriteAdd,
     WriteChangeRole, WriteTransition, WriteTransfer, WriteDelete, WriteDeactivate, WriteErase,
     WriteInvite, InviteCollides, WriteAccept, AcceptRefused, WriteClose, WriteUpdate,
     WriteRevoke, WriteResend, NoLongerPending, DeadlockVictim, Refuse
<1>9. ASSUME NEW r \in Requests, Crash(r) PROVE UNCHANGED grants
  BY <1>9 DEF Crash, Refuse
<1>10. ASSUME NEW u \in Users, Register(u) \/ VerifyEmail(u) PROVE UNCHANGED grants
  BY <1>10 DEF Register, VerifyEmail
<1>11. ASSUME NEW i \in Invitations, Lapse(i) PROVE UNCHANGED grants
  BY <1>11 DEF Lapse
<1>12. CASE UNCHANGED vars
  BY <1>1, <1>12 DEF vars
<1> QED  BY <1>1, <1>2, <1>3, <1>4, <1>6, <1>7, <1>8, <1>9, <1>10, <1>11, <1>12
            DEF Next, Environment

(* What a step may do to the invitations: a settled one keeps its status.   *)
InvitationsStep ==
    /\ invitation' \in [Invitations -> Invitation]
    /\ outdated' \in SUBSET Invitations
    /\ \A i \in Invitations : invitation[i].status \notin {"NONE", "PENDING"} =>
           invitation'[i].status = invitation[i].status
    /\ InvitationInv'

LEMMA InvitationsUntouched ==
    ASSUME TypeOK, InvitationInv, UNCHANGED <<invitation, outdated>>
    PROVE  InvitationsStep
BY DEF TypeOK, InvitationInv, InvitationsStep

(* One row changes, from PENDING. *)
LEMMA OneInvitation ==
    ASSUME TypeOK, InvitationInv, NEW i \in Invitations, NEW x \in Invitation,
           invitation[i].status = "PENDING", invitation' = [invitation EXCEPT ![i] = x],
           x.status # "NONE", x.in = invitation[i].in, x.bound = invitation[i].bound,
           outdated' = outdated
    PROVE  InvitationsStep
<1>1. /\ invitation' \in [Invitations -> Invitation] /\ invitation'[i] = x
      /\ \A j \in Invitations : j # i => invitation'[j] = invitation[j]
  BY DEF TypeOK
<1>2. outdated \in SUBSET Invitations
  BY DEF TypeOK
<1> QED  BY <1>1, <1>2 DEF InvitationInv, InvitationsStep

LEMMA InvitationFields ==
    ASSUME NEW x \in Invitation
    PROVE  /\ \A st \in {"NONE", "PENDING", "ACCEPTED", "REVOKED", "EXPIRED"} :
                  LET y == [x EXCEPT !.status = st]
                  IN  y \in Invitation /\ y.status = st /\ y.in = x.in /\ y.to = x.to
                      /\ y.bound = x.bound
           /\ LET y == [x EXCEPT !.lapsed = TRUE]
              IN  y \in Invitation /\ y.status = x.status /\ y.in = x.in
                  /\ y.bound = x.bound
           /\ \A n \in 0 .. MaxRotations :
                  LET y == [x EXCEPT !.rotations = n, !.lapsed = FALSE]
                  IN  y \in Invitation /\ y.status = x.status /\ y.in = x.in
                      /\ y.bound = x.bound
BY DEF Invitation

LEMMA TransitionInvitations ==
    ASSUME RosterIInv, NEW r \in Requests, WriteTransition(r)
    PROVE  InvitationsStep
<1> USE DEF RosterIInv
<1>1. req[r].in \in Workspaces /\ req[r].target \in Users
  BY AtWrite DEF WriteTransition, Lifecycle
<1> DEFINE withdrawn == IF req[r].op # "reactivate" THEN Withdrawn(req[r].in, req[r].target)
                        ELSE {}
           added == IF req[r].op # "reactivate" THEN AddressedTo(req[r].in, req[r].target)
                    ELSE {}
<1>2. /\ \A i \in Invitations : i \in withdrawn =>
             invitation'[i] = [invitation[i] EXCEPT !.status = "REVOKED"]
      /\ \A i \in Invitations : i \notin withdrawn => invitation'[i] = invitation[i]
      /\ invitation' = [i \in Invitations |-> invitation'[i]]
      /\ outdated' = outdated \cup added
  BY DEF WriteTransition
<1>3. \A i \in withdrawn : i \in Invitations /\ invitation[i].status = "PENDING"
  BY DEF Withdrawn
<1>4. \A i \in added : /\ i \in Invitations /\ invitation[i].to \in Users
                       /\ invitation[i].status = "PENDING" /\ invitation[i].bound => i \in withdrawn
  BY <1>1 DEF Withdrawn, AddressedTo
<1> HIDE DEF withdrawn, added
<1>5. \A i \in added : invitation[i].status # "NONE"
  BY <1>4, RosterAssumption DEF InvitationInv
<1>6. \A i \in Invitations : invitation[i] \in Invitation
  BY DEF TypeOK
<1>7. \A i \in Invitations : /\ invitation'[i] \in Invitation
                             /\ invitation'[i].in = invitation[i].in
                             /\ invitation'[i].to = invitation[i].to
                             /\ invitation'[i].bound = invitation[i].bound
                             /\ i \in withdrawn => invitation'[i].status = "REVOKED"
                             /\ i \notin withdrawn => invitation'[i].status = invitation[i].status
  <2> TAKE i \in Invitations
  <2> DEFINE y == [invitation[i] EXCEPT !.status = "REVOKED"]
  <2>1. y \in Invitation /\ y.status = "REVOKED" /\ y.in = invitation[i].in
        /\ y.to = invitation[i].to /\ y.bound = invitation[i].bound
    BY <1>6, InvitationFields
  <2>2. i \in withdrawn => invitation'[i] = y
    BY <1>2
  <2> HIDE DEF y
  <2> QED  BY <1>2, <1>6, <2>1, <2>2
<1>8. invitation' \in [Invitations -> Invitation]
  BY <1>2, <1>7
<1>9. outdated' \in SUBSET Invitations
  BY <1>2, <1>4 DEF TypeOK
<1>10. InvitationInv'
  BY <1>2, <1>3, <1>4, <1>5, <1>7 DEF InvitationInv
<1> QED  BY <1>3, <1>7, <1>8, <1>9, <1>10 DEF InvitationsStep

LEMMA InviteInvitations ==
    ASSUME RosterIInv, NEW r \in Requests, WriteInvite(r)
    PROVE  InvitationsStep
<1> USE DEF RosterIInv
<1>1. req[r].in \in Workspaces /\ req[r].target \in Users /\ req[r].actor \in Users
  BY AtWrite DEF WriteInvite, Writing, Lifecycle
<1>2. PICK i \in Invitations :
        /\ Insertable(r, i)
        /\ invitation' = [j \in Invitations |->
               CASE j = i -> [status |-> "PENDING", in |-> req[r].in,
                              to |-> req[r].target, bound |-> req[r].bound,
                              role |-> req[r].role, by |-> req[r].actor,
                              lapsed |-> FALSE, rotations |-> 0]
                 [] j # i /\ j \in Superseded(req[r].in, req[r].target) ->
                             [invitation[j] EXCEPT !.status = "EXPIRED"]
                 [] OTHER -> invitation[j]]
        /\ outdated' = outdated
  BY DEF WriteInvite
<1> DEFINE x == [status |-> "PENDING", in |-> req[r].in,
                 to |-> req[r].target, bound |-> req[r].bound,
                 role |-> req[r].role, by |-> req[r].actor,
                 lapsed |-> FALSE, rotations |-> 0]
           old == Superseded(req[r].in, req[r].target)
<1>3. 0 \in 0 .. MaxRotations
  BY RosterAssumption
<1>4. req[r].bound \in BOOLEAN /\ req[r].role \in Roles \cup {NoRole}
  BY DEF TypeOK, Request
<1>5. x \in Invitation /\ x.status = "PENDING" /\ x.in = req[r].in
  BY <1>1, <1>3, <1>4 DEF Invitation
<1>6. /\ invitation'[i] = x
      /\ \A j \in Invitations : j # i /\ j \in old =>
             invitation'[j] = [invitation[j] EXCEPT !.status = "EXPIRED"]
      /\ \A j \in Invitations : j # i /\ j \notin old => invitation'[j] = invitation[j]
      /\ invitation' = [j \in Invitations |-> invitation'[j]]
  BY <1>2
<1>7. \A j \in old : invitation[j].status = "PENDING"
  BY DEF Superseded
<1>8. invitation[i].status = "NONE"
  BY <1>2 DEF Insertable
<1> HIDE DEF x, old
<1>9. \A j \in Invitations : invitation[j] \in Invitation
  BY DEF TypeOK
<1>10. \A j \in Invitations : j # i =>
           /\ invitation'[j] \in Invitation
           /\ invitation'[j].in = invitation[j].in
           /\ invitation'[j].to = invitation[j].to
           /\ invitation'[j].bound = invitation[j].bound
           /\ j \in old => invitation'[j].status = "EXPIRED"
           /\ j \notin old => invitation'[j].status = invitation[j].status
  <2> SUFFICES ASSUME NEW j \in Invitations, j # i
               PROVE  /\ invitation'[j] \in Invitation
                      /\ invitation'[j].in = invitation[j].in
                      /\ invitation'[j].to = invitation[j].to
                      /\ invitation'[j].bound = invitation[j].bound
                      /\ j \in old => invitation'[j].status = "EXPIRED"
                      /\ j \notin old => invitation'[j].status = invitation[j].status
    OBVIOUS
  <2> DEFINE y == [invitation[j] EXCEPT !.status = "EXPIRED"]
  <2>1. y \in Invitation /\ y.status = "EXPIRED" /\ y.in = invitation[j].in
        /\ y.to = invitation[j].to /\ y.bound = invitation[j].bound
    BY <1>9, InvitationFields
  <2>2. j \in old => invitation'[j] = y
    BY <1>6
  <2> HIDE DEF y
  <2> QED  BY <1>6, <1>9, <2>1, <2>2
<1>11. invitation' \in [Invitations -> Invitation]
  BY <1>5, <1>6, <1>10
<1>12. i \notin outdated
  BY <1>8 DEF InvitationInv
<1>13. InvitationInv'
  BY <1>1, <1>2, <1>5, <1>6, <1>7, <1>10, <1>12 DEF InvitationInv
<1>14. outdated' \in SUBSET Invitations
  BY <1>2 DEF TypeOK
<1> QED  BY <1>6, <1>7, <1>8, <1>10, <1>11, <1>13, <1>14 DEF InvitationsStep

LEMMA ConsumedInvitations ==
    ASSUME RosterIInv, NEW r \in Requests,
           WriteAccept(r) \/ WriteRevoke(r) \/ WriteResend(r)
    PROVE  InvitationsStep
<1> USE DEF RosterIInv
<1> DEFINE i == req[r].inv
<1>1. /\ i \in Invitations /\ invitation[i].status = "PENDING" /\ invitation[i] \in Invitation
      /\ UNCHANGED outdated
  <2>1. FormedRequest(req[r])
    BY DEF Formed
  <2>2. i \in Invitations
    BY <2>1 DEF FormedRequest, WriteAccept, WriteRevoke, WriteResend, Writing, Stating
  <2> QED  BY <2>2 DEF WriteAccept, WriteRevoke, WriteResend, MayConsume, StillPending, TypeOK
<1>2. CASE WriteAccept(r)
  <2> DEFINE x == [invitation[i] EXCEPT !.status = "ACCEPTED"]
  <2>1. invitation' = [invitation EXCEPT ![i] = x]
    BY <1>2 DEF WriteAccept
  <2>2. x \in Invitation /\ x.status = "ACCEPTED" /\ x.in = invitation[i].in
        /\ x.bound = invitation[i].bound
    BY <1>1, InvitationFields
  <2> HIDE DEF x, i
  <2> QED  BY <1>1, <2>1, <2>2, OneInvitation
<1>3. CASE WriteRevoke(r)
  <2> DEFINE x == [invitation[i] EXCEPT !.status = "REVOKED"]
  <2>1. invitation' = [invitation EXCEPT ![i] = x]
    BY <1>3 DEF WriteRevoke
  <2>2. x \in Invitation /\ x.status = "REVOKED" /\ x.in = invitation[i].in
        /\ x.bound = invitation[i].bound
    BY <1>1, InvitationFields
  <2> HIDE DEF x, i
  <2> QED  BY <1>1, <2>1, <2>2, OneInvitation
<1>4. CASE WriteResend(r)
  <2> DEFINE n == invitation[i].rotations + 1
             x == [invitation[i] EXCEPT !.rotations = n, !.lapsed = FALSE]
  <2>1. invitation' = [invitation EXCEPT ![i] = x]
    BY <1>1, <1>4 DEF WriteResend, TypeOK
  <2>2. n \in 0 .. MaxRotations
    <3>1. invitation[i].rotations \in 0 .. MaxRotations /\ MaxRotations \in Nat
      BY <1>1, RosterAssumption DEF Invitation
    <3>2. invitation[i].rotations < MaxRotations
      BY <1>4 DEF WriteResend
    <3> QED  BY <3>1, <3>2
  <2> HIDE DEF n
  <2>3. x \in Invitation /\ x.status = invitation[i].status /\ x.in = invitation[i].in
        /\ x.bound = invitation[i].bound
    BY <1>1, <2>2, InvitationFields
  <2> HIDE DEF x, i
  <2> QED  BY <1>1, <2>1, <2>3, OneInvitation
<1> QED  BY <1>2, <1>3, <1>4

LEMMA LapsedInvitation ==
    ASSUME RosterIInv, NEW i \in Invitations, Lapse(i)
    PROVE  InvitationsStep
<1> DEFINE x == [invitation[i] EXCEPT !.lapsed = TRUE]
<1>1. invitation' = [invitation EXCEPT ![i] = x] /\ invitation[i].status = "PENDING"
      /\ outdated' = outdated
  BY DEF Lapse
<1>2. invitation[i] \in Invitation
  BY DEF RosterIInv, TypeOK
<1>3. x \in Invitation /\ x.status = invitation[i].status /\ x.in = invitation[i].in
      /\ x.bound = invitation[i].bound
  BY <1>2, InvitationFields
<1> HIDE DEF x
<1> QED  BY <1>1, <1>3, OneInvitation DEF RosterIInv

-----------------------------------------------------------------------------
(* The invariant *)

LEMMA RosterInitIInv == Init => RosterIInv
<1> SUFFICES ASSUME Init PROVE RosterIInv
  OBVIOUS
<1>1. TypeOK
  <2>1. NoInvitationRow \in Invitation
    <3>1. 0 \in 0 .. MaxRotations
      BY RosterAssumption
    <3> QED  BY <3>1 DEF NoInvitationRow, Invitation
  <2>2. [status |-> "NONE", role |-> NoRole] \in Membership
    BY DEF Membership
  <2> QED  BY <2>1, <2>2, IdleFormed, RosterAssumption DEF Init, TypeOK, Account
<1>2. \A r \in Requests : req[r] = Idle
  BY DEF Init
<1>3. Formed
  BY <1>2, IdleFormed DEF Formed
<1>4. /\ \A u \in Users : userLock[u] = Nobody
      /\ \A w \in Workspaces : workspaceLock[w] = Nobody
      /\ \A r \in Requests : r # Nobody /\ ~Holding(r)
  BY <1>2, IdleFormed, RosterAssumption DEF Init, Holding
<1>5. LockInv
  BY <1>4 DEF LockInv, LocksOf, HoldsUser
<1>6. FreshInv
  BY <1>2, <1>4 DEF FreshInv, FreshFor, Init, Idle
<1>7. SeatInv
  BY <1>4 DEF SeatInv
<1>8. InvitationInv
  BY DEF Init, InvitationInv, NoInvitationRow
<1> QED  BY <1>1, <1>3, <1>5, <1>6, <1>7, <1>8 DEF RosterIInv

(* Requests and locks as they are, memberships and workspaces too.          *)
LEMMA AccountsOnly ==
    ASSUME RosterIInv, UNCHANGED <<workspace, member, locks, req>>,
           \A u \in Users : Usable(u) => Usable(u)'
    PROVE  Formed' /\ LockInv' /\ FreshInv' /\ SeatInv'
<1> USE DEF RosterIInv
<1>1. Formed'
  BY DEF Formed
<1>2. LockInv'
  BY DEF LockInv, LocksOf, HoldsUser, Holding, locks
<1>3. FreshInv'
  BY DEF FreshInv, FreshFor, locks
<1>4. ASSUME NEW s \in Requests, Holding(s)', req'[s].op \in NeedsUsable
      PROVE  Usable(req[s].target)'
  <2>1. Holding(s) /\ req[s].op \in NeedsUsable /\ FormedRequest(req[s])
    BY <1>4 DEF Holding, Formed
  <2>2. Usable(req[s].target) /\ req[s].target \in Users
    BY <2>1 DEF SeatInv, FormedRequest, Holding
  <2> DEFINE t == req[s].target
  <2>3. t' = t
    OBVIOUS
  <2> HIDE DEF t
  <2>4. account'[t].exists /\ account'[t].active /\ ~account'[t].deleted
    BY <2>2 DEF Usable, Present, t
  <2>5. Usable(t)'
    BY <2>3, <2>4 DEF Usable, Present
  <2> QED  BY <2>5 DEF t
<1>5. SeatInv'
  BY <1>4 DEF SeatInv
<1> QED  BY <1>1, <1>2, <1>3, <1>5

(* Every step of a request that ends its transaction. *)
Concludes(r) ==
    \/ WriteAdd(r) \/ WriteChangeRole(r) \/ WriteTransition(r) \/ WriteAccept(r)
    \/ WriteTransfer(r) \/ WriteCreate(r)
    \/ WriteDelete(r) \/ WriteDeactivate(r) \/ WriteUpdate(r) \/ WriteErase(r) \/ WriteClose(r)
    \/ WriteInvite(r) \/ WriteRevoke(r) \/ WriteResend(r)
    \/ Refuses(r)

LEMMA ConcludesKeeps ==
    ASSUME RosterIInv, NEW r \in Requests, Concludes(r)
    PROVE  Ends(r) /\ Writes(r) /\ InvitationsStep
<1> USE DEF RosterIInv
<1>1. Ends(r) /\ Writes(r)
  BY MembershipsWritten, TransferWritten, CreateWritten, AccountsWritten, EraseWritten,
     CloseWritten, InvitationsOnly, Refusals DEF Concludes
<1>2. CASE \/ WriteAdd(r) \/ WriteChangeRole(r) \/ WriteTransfer(r) \/ WriteCreate(r)
           \/ WriteDelete(r) \/ WriteDeactivate(r) \/ WriteUpdate(r) \/ WriteErase(r)
           \/ WriteClose(r)
  <2>1. UNCHANGED <<invitation, outdated>>
    BY <1>2 DEF WriteAdd, WriteChangeRole, WriteTransfer, WriteCreate, WriteDelete,
       WriteDeactivate, WriteUpdate, WriteErase, WriteClose
  <2> QED  BY <1>1, <2>1, InvitationsUntouched
<1>3. CASE Refuses(r)
  BY <1>1, <1>3, Refusals, InvitationsUntouched DEF tables
<1>4. CASE \/ WriteTransition(r) \/ WriteInvite(r) \/ WriteAccept(r) \/ WriteRevoke(r)
           \/ WriteResend(r)
  BY <1>1, <1>4, TransitionInvitations, InviteInvitations, ConsumedInvitations
<1> QED  BY <1>1, <1>2, <1>3, <1>4 DEF Concludes

(* What every step keeps, and what it may do to the invitations. *)
LEMMA RosterNextIInv ==
    ASSUME RosterIInv, [Next]_vars
    PROVE  RosterIInv' /\ InvitationsStep
<1> USE DEF RosterIInv
<1>1. GrantsTyped
  BY GrantsStayTyped
<1>2. ASSUME NEW r \in Requests, Concludes(r) PROVE RosterIInv' /\ InvitationsStep
  <2>1. Ends(r) /\ Writes(r) /\ InvitationsStep
    BY <1>2, ConcludesKeeps
  <2>2. /\ userLock' \in [Users -> Requests \cup {Nobody}]
        /\ workspaceLock' \in [Workspaces -> Requests \cup {Nobody}]
        /\ req' \in [Requests -> Request]
        /\ Formed' /\ LockInv'
    BY <2>1, EndsKeep
  <2>3. FreshInv' /\ SeatInv'
    BY <2>1, WritesKeep
  <2>4. TypeOK'
    BY <1>1, <2>1, <2>2 DEF TypeOK, Writes, InvitationsStep, GrantsTyped
  <2> QED  BY <2>1, <2>2, <2>3, <2>4 DEF InvitationsStep
<1>3. ASSUME UNCHANGED <<tables, outdated>>, req' \in [Requests -> Request],
             userLock' \in [Users -> Requests \cup {Nobody}],
             workspaceLock' \in [Workspaces -> Requests \cup {Nobody}],
             Formed', LockInv', FreshInv', SeatInv'
      PROVE  RosterIInv' /\ InvitationsStep
  <2>1. InvitationsStep
    BY <1>3, InvitationsUntouched DEF tables
  <2>2. TypeOK'
    BY <1>1, <1>3 DEF TypeOK, tables, GrantsTyped
  <2> QED  BY <1>3, <2>1, <2>2 DEF InvitationsStep
<1>4. ASSUME NEW r \in Requests,
             BeginAny(r) \/ LockUser(r) \/ LockWorkspace(r) \/ Check(r) \/ DropGrants(r)
      PROVE  RosterIInv' /\ InvitationsStep
  <2>1. CASE BeginAny(r) \/ Check(r) \/ DropGrants(r)
    <3>1. /\ Formed' /\ LockInv' /\ FreshInv' /\ SeatInv' /\ req' \in [Requests -> Request]
          /\ UNCHANGED <<tables, locks, outdated>>
      BY <2>1, BeginKeeps, CheckKeeps, DropKeeps
    <3> QED  BY <1>3, <3>1 DEF locks, TypeOK
  <2>2. CASE LockUser(r)
    BY <1>3, <2>2, LockUserKeeps DEF TypeOK
  <2>3. CASE LockWorkspace(r)
    BY <1>3, <2>3, LockWorkspaceKeeps DEF TypeOK
  <2> QED  BY <1>4, <2>1, <2>2, <2>3
<1>5. ASSUME NEW r \in Requests, Proceed(r) \/ Crash(r)
      PROVE  Concludes(r) \/ LockUser(r) \/ LockWorkspace(r) \/ Check(r) \/ DropGrants(r)
  BY <1>5 DEF Proceed, Concludes, Refuses
<1>6. ASSUME NEW u \in Users, Register(u) \/ VerifyEmail(u)
      PROVE  RosterIInv' /\ InvitationsStep
  <2>1. UNCHANGED <<workspace, member, invitation, grants, locks, req, outdated>>
    BY <1>6 DEF Register, VerifyEmail
  <2>2. account[u] \in Account
    BY DEF TypeOK
  <2>3. account' \in [Users -> Account]
    BY <1>6, <2>2, AccountFields DEF Register, VerifyEmail, TypeOK
  <2>4. \A v \in Users : Usable(v) => Usable(v)'
    <3>1. \A v \in Users : v # u => account'[v] = account[v]
      BY <1>6 DEF Register, VerifyEmail, TypeOK
    <3>2. account'[u].active = account[u].active /\ account'[u].deleted = account[u].deleted
          /\ (account[u].exists => account'[u].exists)
      BY <1>6, <2>2 DEF Register, VerifyEmail, TypeOK, Account
    <3> QED  BY <3>1, <3>2 DEF Usable, Present
  <2>5. Formed' /\ LockInv' /\ FreshInv' /\ SeatInv'
    BY <2>1, <2>4, AccountsOnly
  <2>6. InvitationsStep
    BY <2>1, InvitationsUntouched
  <2>7. TypeOK'
    BY <2>1, <2>3 DEF TypeOK, locks
  <2> QED  BY <2>5, <2>6, <2>7 DEF InvitationsStep
<1>7. ASSUME UNCHANGED <<account, workspace, member, locks, req>>, InvitationsStep
      PROVE  RosterIInv' /\ InvitationsStep
  <2>1. \A v \in Users : Usable(v) => Usable(v)'
    BY <1>7 DEF Usable, Present
  <2>2. Formed' /\ LockInv' /\ FreshInv' /\ SeatInv'
    BY <1>7, <2>1, AccountsOnly
  <2>3. TypeOK'
    BY <1>1, <1>7 DEF TypeOK, locks, GrantsTyped, InvitationsStep
  <2> QED  BY <1>7, <2>2, <2>3 DEF InvitationsStep
<1>8. ASSUME NEW i \in Invitations, Lapse(i) PROVE RosterIInv' /\ InvitationsStep
  <2>1. UNCHANGED <<account, workspace, member, locks, req>>
    BY <1>8 DEF Lapse
  <2> QED  BY <1>7, <1>8, <2>1, LapsedInvitation
<1>9. ASSUME NEW u \in Users, LoadForRead(u) \/ GrantsExpire(u)
      PROVE  RosterIInv' /\ InvitationsStep
  <2>1. UNCHANGED <<tables, locks, req, outdated>>
    BY <1>9 DEF LoadForRead, GrantsExpire
  <2> QED  BY <1>7, <2>1, InvitationsUntouched DEF tables
<1>10. CASE UNCHANGED vars
  <2>1. UNCHANGED <<tables, locks, req, outdated>>
    BY <1>10 DEF vars
  <2> QED  BY <1>7, <2>1, InvitationsUntouched DEF tables
<1> QED  BY <1>2, <1>4, <1>5, <1>6, <1>8, <1>9, <1>10 DEF Next, Environment

(* Row locks are held by the transaction that took them and in the          *)
(* documented order, a workspace being created is nobody else's, an account  *)
(* that was re-read under its lock stays usable, and no bound invitation     *)
(* outlives the access it was sent before: together, on every step.          *)
THEOREM RosterInductive == Spec => []RosterIInv
<1>1. RosterIInv /\ [Next]_vars => RosterIInv'
  BY RosterNextIInv
<1> QED  BY <1>1, RosterInitIInv, PTL DEF Spec

(* Every row and every request stays within its type. *)
THEOREM RosterTypeCorrect == Spec => []TypeOK
<1>1. RosterIInv => TypeOK
  BY DEF RosterIInv
<1> QED  BY <1>1, RosterInductive, PTL

(* An invitation that left PENDING keeps its status, whatever revoke,        *)
(* resend, accept, create, suspension and removal were in flight.            *)
THEOREM SettledForGood == Spec => SettledInvitations
<1>1. RosterIInv /\ [Next]_vars =>
          [\A i \in Invitations : invitation[i].status \notin {"NONE", "PENDING"}
               => invitation'[i].status = invitation[i].status]_vars
  BY RosterNextIInv DEF InvitationsStep
<1> QED  BY <1>1, RosterInductive, PTL DEF Spec, SettledInvitations

(* revokePendingInvitations leaves nothing behind that accept could redeem:  *)
(* no invitation bound to the account before its access ended is accepted.   *)
THEOREM BoundLinksAreSpent == Spec => BoundLinkCannotReturn
<1>1. RosterIInv /\ [Next]_vars =>
          [\A i \in Invitations :
               Accepted(i) /\ invitation[i].bound => i \notin outdated]_vars
  BY DEF RosterIInv, InvitationInv, Accepted
<1> QED  BY <1>1, RosterInductive, PTL DEF Spec, BoundLinkCannotReturn

-----------------------------------------------------------------------------
(* Seats *)

(* Only the ends of transactions write memberships, workspaces or accounts  *)
(* that exist.                                                              *)
LEMMA OthersLeaveTables ==
    ASSUME RosterIInv, [Next]_vars
    PROVE  \/ \E r \in Requests : Concludes(r)
           \/ /\ UNCHANGED <<workspace, member>>
              /\ \A u \in Users : Usable(u) => Usable(u)'
<1> USE DEF RosterIInv
<1>1. ASSUME UNCHANGED <<account, workspace, member>>
      PROVE  /\ UNCHANGED <<workspace, member>>
             /\ \A u \in Users : Usable(u) => Usable(u)'
  BY <1>1 DEF Usable, Present
<1>2. ASSUME NEW r \in Requests, Proceed(r) \/ Crash(r)
      PROVE  Concludes(r) \/ UNCHANGED <<account, workspace, member>>
  BY <1>2 DEF Proceed, Concludes, Refuses, LockUser, LockWorkspace, Check, DropGrants, tables
<1>3. ASSUME NEW r \in Requests, BeginAny(r) PROVE UNCHANGED <<account, workspace, member>>
  BY <1>3, BeginKeeps DEF tables
<1>4. ASSUME NEW u \in Users, Register(u) \/ VerifyEmail(u)
      PROVE  /\ UNCHANGED <<workspace, member>>
             /\ \A v \in Users : Usable(v) => Usable(v)'
  <2>1. \A v \in Users : v # u => account'[v] = account[v]
    BY <1>4 DEF Register, VerifyEmail, TypeOK
  <2>2. account'[u].active = account[u].active /\ account'[u].deleted = account[u].deleted
        /\ (account[u].exists => account'[u].exists)
    <3>1. account[u] \in Account
      BY DEF TypeOK
    <3> QED  BY <1>4, <3>1 DEF Register, VerifyEmail, TypeOK, Account
  <2>3. UNCHANGED <<workspace, member>>
    BY <1>4 DEF Register, VerifyEmail
  <2> QED  BY <2>1, <2>2, <2>3 DEF Usable, Present
<1>5. ASSUME NEW u \in Users, LoadForRead(u) \/ GrantsExpire(u)
      PROVE  UNCHANGED <<account, workspace, member>>
  BY <1>5 DEF LoadForRead, GrantsExpire, tables
<1>6. ASSUME NEW i \in Invitations, Lapse(i) PROVE UNCHANGED <<account, workspace, member>>
  BY <1>6 DEF Lapse
<1>7. CASE UNCHANGED vars
  BY <1>1, <1>7 DEF vars, tables
<1> QED  BY <1>1, <1>2, <1>3, <1>4, <1>5, <1>6, <1>7 DEF Next, Environment

(* One membership row: what the four statements on a row write to it.       *)
RowBecomes(r, st, ro) ==
    /\ \A w \in Workspaces, u \in Users :
           ~(w = req[r].in /\ u = req[r].target) => member'[w][u] = member[w][u]
    /\ member'[req[r].in][req[r].target] = [status |-> st, role |-> ro]

LEMMA SetRowBecomes ==
    ASSUME TypeOK, NEW r, NEW st, NEW ro, SetRow(r, st, ro),
           req[r].in \in Workspaces, req[r].target \in Users
    PROVE  RowBecomes(r, st, ro)
<1>1. member \in [Workspaces -> [Users -> Membership]]
  BY DEF TypeOK
<1>2. \A w \in Workspaces : w # req[r].in => member'[w] = member[w]
  BY <1>1 DEF SetRow
<1>3. member'[req[r].in] = [member[req[r].in] EXCEPT ![req[r].target] =
                                [status |-> st, role |-> ro]]
  BY <1>1 DEF SetRow
<1>4. member[req[r].in] \in [Users -> Membership]
  BY <1>1
<1> QED  BY <1>2, <1>3, <1>4 DEF RowBecomes

(* The statements that write memberships, and what they make of them.       *)
LEMMA MembershipSteps ==
    ASSUME RosterIInv, NEW r \in Requests, Concludes(r)
    PROVE  \/ UNCHANGED member
           \/ /\ req[r].in \in Workspaces /\ req[r].target \in Users /\ req[r].pc = "write"
              /\ \/ /\ WriteAdd(r) /\ RowBecomes(r, "ACTIVE", req[r].role)
                    /\ UNCHANGED workspace
                 \/ /\ WriteChangeRole(r) /\ RowBecomes(r, Row(r).status, req[r].role)
                    /\ UNCHANGED workspace
                 \/ /\ WriteTransition(r) /\ RowBecomes(r, NewStatus(req[r].op), Row(r).role)
                    /\ UNCHANGED workspace
                    /\ req[r].op \in {"suspend", "reactivate", "remove"}
                 \/ /\ WriteAccept(r) /\ UNCHANGED workspace
                    /\ RowBecomes(r, "ACTIVE", invitation[req[r].inv].role)
                 \/ /\ WriteCreate(r) /\ RowBecomes(r, "ACTIVE", "OWNER")
                 \/ WriteTransfer(r) /\ UNCHANGED workspace
<1> USE DEF RosterIInv
<1>1. CASE WriteAdd(r) \/ WriteChangeRole(r) \/ WriteTransition(r) \/ WriteAccept(r)
           \/ WriteCreate(r) \/ WriteTransfer(r)
  <2>1. /\ req[r].pc = "write" /\ req[r].op \notin Lifecycle
        /\ WriteTransition(r) => req[r].op \in {"suspend", "reactivate", "remove"}
    BY <1>1 DEF WriteAdd, WriteChangeRole, WriteTransition, WriteAccept, WriteCreate,
       WriteTransfer, Writing, Lifecycle
  <2>2. req[r].in \in Workspaces /\ req[r].target \in Users
    BY <2>1, AtWrite
  <2>3. \A st, ro : SetRow(r, st, ro) => RowBecomes(r, st, ro)
    BY <2>2, SetRowBecomes
  <2>4. /\ WriteAdd(r) => RowBecomes(r, "ACTIVE", req[r].role) /\ UNCHANGED workspace
        /\ WriteChangeRole(r) => RowBecomes(r, Row(r).status, req[r].role)
                                 /\ UNCHANGED workspace
        /\ WriteTransition(r) => RowBecomes(r, NewStatus(req[r].op), Row(r).role)
                                 /\ UNCHANGED workspace
        /\ WriteAccept(r) => RowBecomes(r, "ACTIVE", invitation[req[r].inv].role)
                             /\ UNCHANGED workspace
        /\ WriteCreate(r) => RowBecomes(r, "ACTIVE", "OWNER")
        /\ WriteTransfer(r) => UNCHANGED workspace
    BY <2>3 DEF WriteAdd, WriteChangeRole, WriteTransition, WriteAccept, WriteCreate,
       WriteTransfer
  <2> QED  BY <1>1, <2>1, <2>2, <2>4
<1>2. CASE WriteDelete(r) \/ WriteDeactivate(r) \/ WriteUpdate(r) \/ WriteErase(r) \/ WriteClose(r)
           \/ WriteInvite(r) \/ WriteRevoke(r) \/ WriteResend(r)
  BY <1>2 DEF WriteDelete, WriteDeactivate, WriteUpdate, WriteErase, WriteClose, WriteInvite,
     WriteRevoke, WriteResend
<1>3. CASE Refuses(r)
  BY <1>3, Refusals DEF tables
<1> QED  BY <1>1, <1>2, <1>3 DEF Concludes

(* What transferOwnership makes of the roster. *)
LEMMA TransferRows ==
    ASSUME RosterIInv, NEW r \in Requests, WriteTransfer(r),
           req[r].in \in Workspaces, req[r].target \in Users
    PROVE  /\ \A w \in Workspaces : w # req[r].in => member'[w] = member[w]
           /\ \A u \in Users : /\ member'[req[r].in][u].status = member[req[r].in][u].status
                               /\ member'[req[r].in][u].role = TransferRole(r, u)
<1>1. member \in [Workspaces -> [Users -> Membership]]
  BY DEF RosterIInv, TypeOK
<1>2. member' = [member EXCEPT ![req[r].in] =
               [u \in Users |-> [status |-> member[req[r].in][u].status,
                                 role |-> TransferRole(r, u)]]]
  BY DEF WriteTransfer
<1> QED  BY <1>1, <1>2

(* A request that fills a seat under the users row found it usable.         *)
LEMMA SeatHolder ==
    ASSUME RosterIInv, NEW r \in Requests, req[r].pc = "write", req[r].op \in NeedsUsable
    PROVE  Usable(req[r].target) /\ userLock[req[r].target] = r
<1>1. Holding(r)
  BY DEF Holding
<1>2. req[r].op \in LocksUser
  BY DEF NeedsUsable
<1> QED  BY <1>1, <1>2, AtWrite DEF RosterIInv, SeatInv

LEMMA SeatStep ==
    ASSUME RosterIInv, [Next]_vars, NEW w \in Workspaces, NEW u \in Users,
           member[w][u].status # "ACTIVE", member'[w][u].status = "ACTIVE"
    PROVE  Usable(u)
<1>1. PICK r \in Requests : Concludes(r)
  BY OthersLeaveTables
<1>2. /\ req[r].in \in Workspaces /\ req[r].target \in Users /\ req[r].pc = "write"
      /\ \/ WriteAdd(r) /\ RowBecomes(r, "ACTIVE", req[r].role)
         \/ WriteChangeRole(r) /\ RowBecomes(r, Row(r).status, req[r].role)
         \/ WriteTransition(r) /\ RowBecomes(r, NewStatus(req[r].op), Row(r).role)
            /\ req[r].op \in {"suspend", "reactivate", "remove"}
         \/ WriteAccept(r) /\ RowBecomes(r, "ACTIVE", invitation[req[r].inv].role)
         \/ WriteCreate(r) /\ RowBecomes(r, "ACTIVE", "OWNER")
         \/ WriteTransfer(r)
  BY <1>1, MembershipSteps
<1>3. ~WriteTransfer(r)
  BY <1>2, TransferRows
<1>4. w = req[r].in /\ u = req[r].target
  BY <1>2, <1>3 DEF RowBecomes
<1>5. ~WriteChangeRole(r) \/ ~RowBecomes(r, Row(r).status, req[r].role)
  BY <1>4 DEF RowBecomes, Row
<1>6. req[r].op \in NeedsUsable
  BY <1>2, <1>3, <1>4, <1>5 DEF RowBecomes, NewStatus, WriteAdd, WriteAccept, WriteCreate,
     Writing, NeedsUsable, LocksUser
<1> QED  BY <1>2, <1>4, <1>6, SeatHolder

(* A seat becomes ACTIVE only on an account that can sign in at that moment: *)
(* the users row is locked, the account re-read, and no deletion, erasure or  *)
(* update of it commits before the lock is given back.                       *)
THEOREM SeatsAreUsable == Spec => SeatsGoToUsableAccounts
<1>1. RosterIInv /\ [Next]_vars =>
          [\A w \in Workspaces, u \in Users :
              /\ member[w][u].status # "ACTIVE"
              /\ member'[w][u].status = "ACTIVE"
              => Usable(u)]_vars
  BY SeatStep
<1> QED  BY <1>1, RosterInductive, PTL DEF Spec, SeatsGoToUsableAccounts

-----------------------------------------------------------------------------
(* The lock order *)

(* A request that waits for a row and holds one waits for a workspace, and   *)
(* whoever holds that workspace waits, if at all, for a later one.           *)
LEMMA WaitsAscend ==
    ASSUME RosterIInv, NEW r \in Requests, NEW s \in Requests, s \in WaitsForLock(r)
    PROVE  /\ Holding(s)
           /\ WaitsForLock(s) # {} => req[s].pc = "lockWorkspaces"
           /\ req[r].pc = "lockWorkspaces" =>
                  /\ req[r].todo \in SUBSET Workspaces /\ req[r].todo # {}
                  /\ req[s].pc = "lockWorkspaces" =>
                         /\ req[s].todo \in SUBSET Workspaces
                         /\ \A x \in req[s].todo : Min(req[r].todo) < x
<1> USE DEF RosterIInv
<1>1. LocksOf(s) /\ FormedRequest(req[r]) /\ FormedRequest(req[s])
      /\ req[r] \in Request /\ req[s] \in Request
  BY DEF LockInv, Formed, TypeOK
<1>2. req[r].pc \in {"lockUser", "lockWorkspaces"}
  BY DEF WaitsForLock
<1>3. CASE req[r].pc = "lockUser"
  <2>1. req[r].target \in Users /\ userLock[req[r].target] = s
    BY <1>1, <1>3 DEF WaitsForLock, FormedRequest
  <2>2. Holding(s)
    BY <1>1, <2>1 DEF LocksOf, HoldsUser
  <2> QED  BY <1>3, <2>2 DEF WaitsForLock, Holding
<1>4. CASE req[r].pc = "lockWorkspaces"
  <2>1. PICK w \in Workspaces : w \in req[r].todo /\ w = Min(req[r].todo) /\ workspaceLock[w] = s
    BY <1>4 DEF WaitsForLock, NextWorkspace
  <2>2. Holding(s) /\ \A x \in req[s].todo : w < x
    BY <1>1, <2>1 DEF LocksOf
  <2>3. WaitsForLock(s) # {} => req[s].pc = "lockWorkspaces"
    BY <2>2 DEF WaitsForLock, Holding
  <2>4. req[r].todo \in SUBSET Workspaces /\ req[s].todo \in SUBSET Workspaces
    BY <1>1 DEF Request
  <2> QED  BY <2>1, <2>2, <2>3, <2>4
<1> QED  BY <1>2, <1>3, <1>4

LEMMA OrderedLocks ==
    ASSUME RosterIInv
    PROVE  OrderedLocksNeverCycle
<1> SUFFICES ASSUME NEW S \in SUBSET Requests, S # {},
                    \A r \in S : WaitsForLock(r) \cap S # {}
             PROVE  FALSE
  BY DEF OrderedLocksNeverCycle
<1> DEFINE T == {r \in S : req[r].pc = "lockWorkspaces"}
           first(r) == Min(req[r].todo)
           Later(r) == {s \in T : first(r) < first(s)}
<1>1. ASSUME NEW r \in S
      PROVE  \E s \in T : s \in WaitsForLock(r)
  <2>1. PICK s \in S : s \in WaitsForLock(r)
    OBVIOUS
  <2>2. WaitsForLock(s) # {}
    OBVIOUS
  <2>3. req[s].pc = "lockWorkspaces"
    BY <2>1, <2>2, WaitsAscend
  <2> QED  BY <2>1, <2>3
<1>2. \A r \in T : first(r) \in Nat
  <2> SUFFICES ASSUME NEW r \in T PROVE first(r) \in Nat
    OBVIOUS
  <2>1. req[r].todo \in SUBSET Workspaces /\ req[r].todo # {}
    BY <1>1, WaitsAscend
  <2> QED  BY <2>1, FirstWorkspace, RosterAssumption
<1>3. ASSUME NEW r \in T PROVE \E s \in T : first(r) < first(s)
  <2>1. PICK s \in T : s \in WaitsForLock(r)
    BY <1>1
  <2>2. /\ req[s].todo \in SUBSET Workspaces
        /\ \A x \in req[s].todo : first(r) < x
    BY <2>1, WaitsAscend
  <2>3. req[s].todo # {}
    <3>1. PICK q \in T : q \in WaitsForLock(s)
      BY <1>1
    <3> QED  BY <3>1, WaitsAscend
  <2> QED  BY <2>2, <2>3, FirstWorkspace
<1>4. T # {}
  BY <1>1
<1>5. IsFiniteSet(T)
  BY FS_Subset, RosterAssumption
<1> HIDE DEF T, first
<1> DEFINE Sets == {Later(r) : r \in T}
<1>6. Sets \subseteq FiniteSubsetsOf(T) /\ Sets # {}
  <2>1. \A r \in T : Later(r) \in SUBSET T
    OBVIOUS
  <2>2. \A r \in T : IsFiniteSet(Later(r))
    BY <1>5, <2>1, FS_Subset
  <2> QED  BY <1>4, <2>1, <2>2 DEF FiniteSubsetsOf
<1>7. PICK M \in Sets : \A N \in Sets : ~(<<N, M>> \in StrictSubsetOrdering(T))
  <2> HIDE DEF Sets
  <2> QED  BY <1>6, FS_StrictSubsetOrderingWellFounded, WFMin
<1>8. PICK r \in T : M = Later(r)
  OBVIOUS
<1>9. PICK s \in T : first(r) < first(s)
  BY <1>3
<1>10. Later(s) \subseteq Later(r)
  BY <1>2, <1>9
<1>11. s \in Later(r) /\ s \notin Later(s)
  BY <1>2, <1>9
<1>12. <<Later(s), Later(r)>> \in StrictSubsetOrdering(T)
  BY <1>10, <1>11 DEF StrictSubsetOrdering
<1> QED  BY <1>7, <1>8, <1>12

(* Users rows first and workspaces in ascending order: no set of             *)
(* transactions waits for each other's FOR UPDATE locks, however many        *)
(* requests and workspaces there are.                                        *)
THEOREM LocksNeverCycle == Spec => []OrderedLocksNeverCycle
<1>1. RosterIInv => OrderedLocksNeverCycle
  BY OrderedLocks
<1> QED  BY <1>1, RosterInductive, PTL

-----------------------------------------------------------------------------
(* Owners *)

(* The statement about to run takes ACTIVE ownership away from its row.     *)
Demotes(r) ==
    /\ req[r].pc = "write"
    /\ \/ req[r].op \in {"suspend", "remove"}
       \/ req[r].op = "changeRole" /\ req[r].role # "OWNER"

Owns(w, u) == workspace[w] = "live" /\ ActiveOwner(w, u)

(* What the checks made sure of under the locks still holds at the write.   *)
DecidedFor(r) ==
    /\ Writing(r, "add") => Row(r).status \in {"NONE", "LEFT"}
    /\ Writing(r, "transferOwnership") => Row(r).status = "ACTIVE"
    /\ Demotes(r) /\ Owns(req[r].in, req[r].target) => AnotherOwner(req[r].in, req[r].target)
    /\ req[r].pc \in {"lockWorkspaces", "check"} /\ req[r].op \in Lifecycle =>
           \A w \in Workspaces : Owns(w, req[r].target) => w \in req[r].owned
    /\ req[r].pc = "write" /\ req[r].op \in Lifecycle =>
           \A w \in Workspaces : Owns(w, req[r].target) =>
               /\ workspaceLock[w] = r
               /\ AnotherOwner(w, req[r].target) \/ (req[r].op = "erase" /\ w \in req[r].owned)

DecidedInv == \A r \in Requests : DecidedFor(r)

OwnersIInv == RosterIInv /\ DecidedInv /\ OwnedWhileLive

(* A workspace becomes live when it is created. *)
LEMMA OnlyCreateOpens ==
    ASSUME RosterIInv, NEW r \in Requests, Concludes(r), NEW w \in Workspaces,
           workspace[w] # "live", workspace'[w] = "live"
    PROVE  WriteCreate(r) /\ w = req[r].in /\ workspace[w] = "absent"
<1> USE DEF RosterIInv
<1>1. CASE WriteCreate(r)
  <2>1. w = req[r].in
    BY <1>1 DEF WriteCreate, TypeOK
  <2> QED  BY <1>1, <2>1 DEF WriteCreate, Writing, FreshInv, FreshFor
<1>2. CASE WriteErase(r) \/ WriteClose(r)
  BY <1>2 DEF WriteErase, WriteClose, TypeOK
<1>3. CASE \/ WriteAdd(r) \/ WriteChangeRole(r) \/ WriteTransition(r) \/ WriteAccept(r)
           \/ WriteTransfer(r) \/ WriteDelete(r) \/ WriteDeactivate(r) \/ WriteUpdate(r)
           \/ WriteInvite(r) \/ WriteRevoke(r) \/ WriteResend(r)
  BY <1>3 DEF WriteAdd, WriteChangeRole, WriteTransition, WriteAccept, WriteTransfer,
     WriteDelete, WriteDeactivate, WriteUpdate, WriteInvite, WriteRevoke, WriteResend
<1>4. CASE Refuses(r)
  BY <1>4, Refusals DEF tables
<1> QED  BY <1>1, <1>2, <1>3, <1>4 DEF Concludes

(* Ownership is only gained by the user whose row the request has locked.   *)
LEMMA OwnershipGained ==
    ASSUME RosterIInv, NEW r \in Requests, Concludes(r),
           NEW w \in Workspaces, NEW u \in Users, Owns(w, u)', ~Owns(w, u)
    PROVE  userLock[u] = r /\ req[r].op \in NeedsUsable
<1> USE DEF RosterIInv
<1>1. Writes(r)
  BY ConcludesKeeps
<1>2. CASE workspace[w] # "live"
  <2>1. WriteCreate(r) /\ w = req[r].in /\ workspace[w] = "absent"
    BY <1>2, OnlyCreateOpens DEF Owns
  <2>2. member[w][u].status = "NONE" /\ member'[w][u].status = "ACTIVE"
    BY <2>1 DEF FreshInv, Owns, ActiveOwner
  <2>3. RowBecomes(r, "ACTIVE", "OWNER") /\ req[r].op = "create" /\ req[r].pc = "write"
    <3>1. req[r].op = "create" /\ req[r].pc = "write"
      BY <2>1 DEF WriteCreate, Writing
    <3> QED  BY <2>1, <3>1, AtWrite, SetRowBecomes DEF WriteCreate, Lifecycle
  <2>4. u = req[r].target
    BY <2>1, <2>2, <2>3 DEF RowBecomes
  <2> QED  BY <2>3, <2>4, SeatHolder DEF NeedsUsable, LocksUser
<1>3. CASE workspace[w] = "live"
  <2>1. ~ActiveOwner(w, u) /\ ActiveOwner(w, u)' /\ member'[w][u] # member[w][u]
    BY <1>3 DEF Owns, ActiveOwner
  <2>2. /\ req[r].in \in Workspaces /\ req[r].target \in Users /\ req[r].pc = "write"
        /\ \/ WriteAdd(r) /\ RowBecomes(r, "ACTIVE", req[r].role)
           \/ WriteChangeRole(r) /\ RowBecomes(r, Row(r).status, req[r].role)
           \/ WriteTransition(r) /\ RowBecomes(r, NewStatus(req[r].op), Row(r).role)
              /\ req[r].op \in {"suspend", "reactivate", "remove"}
           \/ WriteAccept(r) /\ RowBecomes(r, "ACTIVE", invitation[req[r].inv].role)
           \/ WriteCreate(r) /\ RowBecomes(r, "ACTIVE", "OWNER")
           \/ WriteTransfer(r)
    BY <2>1, MembershipSteps
  <2>3. u = req[r].target
    <3>1. CASE WriteTransfer(r)
      <4>1. w = req[r].in
        BY <2>1, <2>2, <3>1, TransferRows
      <4> QED  BY <2>1, <2>2, <3>1, <4>1, TransferRows DEF ActiveOwner, TransferRole
    <3>2. CASE ~WriteTransfer(r)
      BY <2>1, <2>2, <3>2 DEF RowBecomes
    <3> QED  BY <3>1, <3>2
  <2>4. ~WriteTransfer(r) => w = req[r].in
    BY <2>1, <2>2 DEF RowBecomes
  <2>5. CASE WriteTransition(r) /\ RowBecomes(r, NewStatus(req[r].op), Row(r).role)
             /\ req[r].op \in {"suspend", "reactivate", "remove"} /\ w = req[r].in
    <3>1. NewStatus(req[r].op) = "ACTIVE"
      BY <2>1, <2>3, <2>5 DEF RowBecomes, ActiveOwner
    <3>2. req[r].op = "reactivate"
      BY <2>5, <3>1 DEF NewStatus
    <3> QED  BY <2>2, <2>3, <3>2, SeatHolder DEF NeedsUsable, LocksUser
  <2>6. CASE WriteAdd(r) \/ WriteAccept(r) \/ WriteCreate(r) \/ WriteChangeRole(r)
             \/ WriteTransfer(r)
    <3>1. req[r].op \in NeedsUsable
      BY <2>6 DEF WriteAdd, WriteAccept, WriteCreate, WriteChangeRole, WriteTransfer, Writing,
         NeedsUsable, LocksUser
    <3> QED  BY <2>2, <2>3, <3>1, SeatHolder
  <2> QED  BY <2>2, <2>4, <2>5, <2>6
<1> QED  BY <1>2, <1>3

(* Every deactivation goes through the transaction that checks ownership:   *)
(* no update with isActive = false is sent for an account read inactive.    *)
NoStaleUpdate == "deactivateAgain" \notin Operations

LEMMA UsableLost ==
    ASSUME NoStaleUpdate, RosterIInv, NEW r \in Requests, Concludes(r),
           NEW u \in Users, Usable(u), ~Usable(u)'
    PROVE  /\ req[r].op \in Lifecycle /\ req[r].pc = "write" /\ req[r].target = u
           /\ userLock[u] = r
<1> USE DEF RosterIInv
<1>1. Writes(r) /\ FormedRequest(req[r]) /\ LocksOf(r)
  BY ConcludesKeeps DEF Formed, LockInv
<1>2. req[r].op # "deactivateAgain"
  BY <1>1 DEF FormedRequest, NoStaleUpdate
<1>3. userLock[u] = r /\ req[r].op \in Lifecycle /\ req[r].pc = "write"
  BY <1>1, <1>2 DEF Writes
<1> QED  BY <1>1, <1>3 DEF LocksOf, HoldsUser

(* What the lock of a workspace keeps from everybody else. *)
LEMMA Protected ==
    ASSUME NoStaleUpdate, RosterIInv, DecidedInv, NEW r \in Requests, Concludes(r),
           NEW s \in Requests, s # r, NEW w \in Workspaces, workspaceLock[w] = s
    PROVE  /\ \A u \in Users : member'[w][u] = member[w][u]
           /\ workspace'[w] = "live" => workspace[w] = "live"
           /\ \A t \in Users : workspace[w] = "live" /\ AnotherOwner(w, t) => AnotherOwner(w, t)'
<1> USE DEF RosterIInv
<1>1. Writes(r) /\ FreshFor(r) /\ FreshFor(s)
  BY ConcludesKeeps DEF FreshInv
<1>2. workspace[w] # "absent"
  BY <1>1 DEF FreshFor
<1>3. \A u \in Users : member'[w][u] = member[w][u]
  BY <1>1, <1>2 DEF Writes, FreshFor
<1>4. workspace'[w] = "live" => workspace[w] = "live"
  BY <1>2, OnlyCreateOpens
<1>5. ASSUME NEW t \in Users, workspace[w] = "live", AnotherOwner(w, t)
      PROVE  AnotherOwner(w, t)'
  <2>1. PICK v \in Users \ {t} : ActiveOwner(w, v) /\ Usable(v)
    BY <1>5 DEF AnotherOwner, UsableOwner
  <2>2. Usable(v)'
    <3>1. SUFFICES ASSUME ~Usable(v)' PROVE FALSE
      OBVIOUS
    <3>2. req[r].op \in Lifecycle /\ req[r].pc = "write" /\ req[r].target = v
      BY <2>1, <3>1, UsableLost
    <3>3. Owns(w, req[r].target)
      BY <1>5, <2>1, <3>2 DEF Owns
    <3>4. workspaceLock[w] = r
      BY <3>2, <3>3 DEF DecidedInv, DecidedFor
    <3> QED  BY <3>4
  <2>3. ActiveOwner(w, v)'
    BY <1>3, <2>1 DEF ActiveOwner
  <2> QED  BY <2>2, <2>3 DEF AnotherOwner, UsableOwner
<1> QED  BY <1>3, <1>4, <1>5

LEMMA ConcludesDecided ==
    ASSUME NoStaleUpdate, RosterIInv, DecidedInv, NEW r \in Requests, Concludes(r)
    PROVE  DecidedInv'
<1> USE DEF RosterIInv
<1>1. Ends(r)
  BY ConcludesKeeps
<1>2. PICK y \in Request : /\ FormedRequest(y) /\ y.pc \in {"idle", "drop"}
                           /\ req' = [req EXCEPT ![r] = y]
  BY <1>1 DEF Ends
<1>3. req'[r] = y /\ \A s \in Requests : s # r => req'[s] = req[s]
  BY <1>2 DEF TypeOK
<1>4. DecidedFor(r)'
  BY <1>2, <1>3 DEF DecidedFor, Writing, Demotes
<1>5. ASSUME NEW s \in Requests, s # r PROVE DecidedFor(s)'
  <2>1. DecidedFor(s) /\ req'[s] = req[s] /\ FormedRequest(req[s]) /\ LocksOf(s) /\ s # Nobody
    BY <1>3, <1>5, RosterAssumption DEF DecidedInv, Formed, LockInv
  <2>2. \A w \in Workspaces : workspaceLock[w] = s => workspaceLock'[w] = s
    BY <1>1, <1>5 DEF Ends, ReleaseLocks
  <2>3. ASSUME NEW w \in Workspaces, workspaceLock[w] = s
        PROVE  /\ \A u \in Users : member'[w][u] = member[w][u]
               /\ workspace'[w] = "live" => workspace[w] = "live"
               /\ \A t \in Users : workspace[w] = "live" /\ AnotherOwner(w, t)
                      => AnotherOwner(w, t)'
    BY <1>5, <2>3, Protected
  <2>4. ASSUME req[s].pc = "write", req[s].op \in LocksWorkspace
        PROVE  /\ req[s].in \in Workspaces /\ req[s].target \in Users
               /\ workspaceLock[req[s].in] = s
    BY <2>4, AtWrite DEF LocksWorkspace, Lifecycle
  <2>5. ASSUME req[s].pc = "write", req[s].op \in LocksWorkspace
        PROVE  /\ Row(s)' = Row(s)
               /\ Owns(req[s].in, req[s].target)' => Owns(req[s].in, req[s].target)
               /\ workspace[req[s].in] = "live" /\ AnotherOwner(req[s].in, req[s].target)
                      => AnotherOwner(req[s].in, req[s].target)'
    <3> DEFINE w == req[s].in
               u == req[s].target
    <3>1. w \in Workspaces /\ u \in Users /\ workspaceLock[w] = s /\ w' = w /\ u' = u
      BY <2>1, <2>4, <2>5
    <3>2. Row(s) = member[w][u] /\ Row(s)' = member'[w][u]
      BY <3>1 DEF Row
    <3>3. Owns(w, u)' <=> workspace'[w] = "live" /\ member'[w][u].status = "ACTIVE"
                          /\ member'[w][u].role = "OWNER"
      BY <3>1 DEF Owns, ActiveOwner
    <3>4. Owns(w, u) <=> workspace[w] = "live" /\ member[w][u].status = "ACTIVE"
                          /\ member[w][u].role = "OWNER"
      BY DEF Owns, ActiveOwner
    <3>5. AnotherOwner(w, u)' <=> \E v \in Users \ {u} : UsableOwner(w, v)'
      BY <3>1 DEF AnotherOwner
    <3>6. workspace[w] = "live" /\ AnotherOwner(w, u) => AnotherOwner(w, u)'
      <4> HIDE DEF w, u
      <4>1. ASSUME NEW x \in Workspaces, NEW t \in Users, x = w, t = u
            PROVE  workspace[x] = "live" /\ AnotherOwner(x, t) => AnotherOwner(x, t)'
        BY <2>3, <3>1, <4>1
      <4> QED  BY <3>1, <4>1 DEF AnotherOwner, UsableOwner, ActiveOwner, Usable, Present
    <3> QED  BY <2>3, <3>1, <3>2, <3>3, <3>4, <3>6
  <2>6. Writing(s, "add")' => Row(s)'.status \in {"NONE", "LEFT"}
    BY <2>1, <2>5 DEF DecidedFor, Writing, LocksWorkspace
  <2>7. Writing(s, "transferOwnership")' => Row(s)'.status = "ACTIVE"
    BY <2>1, <2>5 DEF DecidedFor, Writing, LocksWorkspace
  <2>8. Demotes(s)' /\ Owns(req[s].in, req[s].target)' => AnotherOwner(req[s].in, req[s].target)'
    <3>1. Demotes(s)' => Demotes(s) /\ req[s].pc = "write" /\ req[s].op \in LocksWorkspace
      BY <2>1 DEF Demotes, LocksWorkspace
    <3>2. Demotes(s) /\ Owns(req[s].in, req[s].target) =>
              workspace[req[s].in] = "live" /\ AnotherOwner(req[s].in, req[s].target)
      BY <2>1 DEF DecidedFor, Owns
    <3> QED  BY <2>5, <3>1, <3>2
  <2> DEFINE u == req[s].target
  <2>9. ASSUME Holding(s), req[s].op \in Lifecycle
        PROVE  /\ u \in Users /\ u' = u
               /\ \A w \in Workspaces : Owns(w, u)' => Owns(w, u)
    <3>1. u \in Users /\ u' = u
      BY <2>1, <2>9 DEF FormedRequest, Holding
    <3>2. userLock[u] = s
      BY <2>1, <2>9, <3>1 DEF LocksOf, HoldsUser, LocksUser, Lifecycle
    <3> HIDE DEF u
    <3>3. ASSUME NEW w \in Workspaces, NEW t \in Users, t = u, Owns(w, t)'
          PROVE  Owns(w, t)
      BY <1>5, <3>2, <3>3, OwnershipGained
    <3> QED  BY <3>1, <3>3 DEF Owns, ActiveOwner
  <2>10. ASSUME req'[s].pc \in {"lockWorkspaces", "check"}, req'[s].op \in Lifecycle,
                NEW w \in Workspaces, Owns(w, u)'
         PROVE  w \in req'[s].owned
    BY <2>1, <2>9, <2>10 DEF DecidedFor, Holding
  <2>11. ASSUME req'[s].pc = "write", req'[s].op \in Lifecycle,
                NEW w \in Workspaces, Owns(w, u)'
         PROVE  /\ workspaceLock'[w] = s
                /\ AnotherOwner(w, u)' \/ (req'[s].op = "erase" /\ w \in req'[s].owned)
    <3>1. u \in Users /\ u' = u /\ Owns(w, u) /\ workspace[w] = "live"
      BY <2>1, <2>9, <2>11 DEF Holding, Owns
    <3>2. /\ workspaceLock[w] = s
          /\ AnotherOwner(w, u) \/ (req[s].op = "erase" /\ w \in req[s].owned)
      BY <2>1, <2>11, <3>1 DEF DecidedFor
    <3>3. ASSUME AnotherOwner(w, u) PROVE AnotherOwner(w, u)'
      <4> HIDE DEF u
      <4>1. ASSUME NEW t \in Users, t = u PROVE AnotherOwner(w, t)'
        BY <2>3, <3>1, <3>2, <3>3, <4>1
      <4> QED  BY <3>1, <4>1 DEF AnotherOwner, UsableOwner, ActiveOwner, Usable, Present
    <3> QED  BY <2>1, <2>2, <3>2, <3>3
  <2> QED  BY <2>6, <2>7, <2>8, <2>10, <2>11 DEF DecidedFor
<1> QED  BY <1>4, <1>5 DEF DecidedInv

(* Steps that end no transaction decide with what the checks just read.     *)
LEMMA CheckDecides ==
    ASSUME RosterIInv, DecidedInv, NEW r \in Requests, Check(r)
    PROVE  DecidedFor(r)'
<1> USE DEF RosterIInv
<1>1. req[r].pc = "check" /\ Allowed(r) /\ UNCHANGED <<tables, locks>>
  BY DEF Check
<1>2. FormedRequest(req[r]) /\ LocksOf(r) /\ DecidedFor(r) /\ req[r].todo = {}
  BY <1>1 DEF Formed, LockInv, DecidedInv, FormedRequest
<1>3. /\ req'[r].pc = "write" /\ req'[r].op = req[r].op /\ req'[r].in = req[r].in
      /\ req'[r].target = req[r].target /\ req'[r].role = req[r].role
      /\ req'[r].owned = SolelyOwned(r)
  <2>1. req[r] \in Request
    BY DEF TypeOK
  <2> QED  BY <2>1 DEF Check, TypeOK, Request
<1>4. /\ Row(r)' = Row(r)
      /\ \A w : Owns(w, req[r].target)' <=> Owns(w, req[r].target)
      /\ \A w : AnotherOwner(w, req[r].target)' <=> AnotherOwner(w, req[r].target)
      /\ Owns(req[r].in, req[r].target)' <=> Owns(req[r].in, req[r].target)
      /\ AnotherOwner(req[r].in, req[r].target)' <=> AnotherOwner(req[r].in, req[r].target)
  BY <1>1, <1>3 DEF tables, Row, Owns, ActiveOwner, AnotherOwner, UsableOwner, Usable, Present
<1>5. Writing(r, "add")' => Row(r)'.status \in {"NONE", "LEFT"}
  BY <1>1, <1>3, <1>4 DEF Writing, Allowed, AddAllowed
<1>6. Writing(r, "transferOwnership")' => Row(r)'.status = "ACTIVE"
  BY <1>1, <1>3, <1>4 DEF Writing, Allowed, TransferAllowed
<1>7. Demotes(r)' /\ Owns(req[r].in, req[r].target)' => AnotherOwner(req[r].in, req[r].target)'
  <2>1. CASE req[r].op = "changeRole"
    BY <1>1, <1>3, <1>4, <2>1 DEF Demotes, Allowed, ChangeRoleAllowed, Owns, ActiveOwner, Row
  <2>2. CASE req[r].op \in {"suspend", "remove"}
    BY <1>1, <1>3, <1>4, <2>2 DEF Demotes, Allowed, TransitionAllowed, Owns
  <2> QED  BY <1>3, <2>1, <2>2 DEF Demotes
<1>8. ASSUME req[r].op \in Lifecycle, NEW w \in Workspaces, Owns(w, req[r].target)'
      PROVE  /\ workspaceLock'[w] = r
             /\ AnotherOwner(w, req[r].target)' \/ (req[r].op = "erase" /\ w \in req'[r].owned)
  <2>1. w \in req[r].owned
    BY <1>1, <1>2, <1>4, <1>8 DEF DecidedFor
  <2>2. workspaceLock[w] = r
    BY <1>1, <1>2, <1>8, <2>1 DEF LocksOf, Holding
  <2>3. w \in SolelyOwned(r) \/ AnotherOwner(w, req[r].target)
    BY <2>1 DEF SolelyOwned
  <2>4. req[r].op # "erase" => SolelyOwned(r) = {}
    BY <1>1, <1>8 DEF Allowed, Lifecycle
  <2> QED  BY <1>1, <1>3, <1>4, <2>2, <2>3, <2>4 DEF locks
<1> QED  BY <1>3, <1>5, <1>6, <1>7, <1>8 DEF DecidedFor

(* Everybody else's decisions stand while tables and locks stand.           *)
LEMMA DecisionsStand ==
    ASSUME DecidedInv, NEW s \in Requests, UNCHANGED <<workspace, member>>, req'[s] = req[s],
           \A w \in Workspaces : workspaceLock[w] = s => workspaceLock'[w] = s,
           \A u \in Users : Usable(u) => Usable(u)'
    PROVE  DecidedFor(s)'
<1>1. DecidedFor(s)
  BY DEF DecidedInv
<1>2. /\ Row(s)' = Row(s)
      /\ \A w : Owns(w, req[s].target)' <=> Owns(w, req[s].target)
      /\ Owns(req[s].in, req[s].target)' <=> Owns(req[s].in, req[s].target)
  BY DEF Row, Owns, ActiveOwner
<1>3. /\ \A w : AnotherOwner(w, req[s].target) => AnotherOwner(w, req[s].target)'
      /\ AnotherOwner(req[s].in, req[s].target) => AnotherOwner(req[s].in, req[s].target)'
  BY DEF AnotherOwner, UsableOwner, ActiveOwner
<1> QED  BY <1>1, <1>2, <1>3 DEF DecidedFor, Writing, Demotes

LEMMA DecidedNext ==
    ASSUME NoStaleUpdate, RosterIInv, DecidedInv, [Next]_vars
    PROVE  DecidedInv'
<1> USE DEF RosterIInv
<1>1. ASSUME NEW r \in Requests, Concludes(r) PROVE DecidedInv'
  BY <1>1, ConcludesDecided
<1>2. ASSUME NEW r \in Requests, NEW y, req' = [req EXCEPT ![r] = y],
             UNCHANGED tables,
             \A s \in Requests, w \in Workspaces :
                 s # r /\ workspaceLock[w] = s => workspaceLock'[w] = s,
             DecidedFor(r)'
      PROVE  DecidedInv'
  <2>1. \A s \in Requests : s # r => req'[s] = req[s]
    BY <1>2 DEF TypeOK
  <2>2. UNCHANGED <<workspace, member>> /\ \A u \in Users : Usable(u) => Usable(u)'
    BY <1>2 DEF tables, Usable, Present
  <2>3. ASSUME NEW s \in Requests, s # r PROVE DecidedFor(s)'
    BY <1>2, <2>1, <2>2, <2>3, DecisionsStand
  <2> QED  BY <1>2, <2>3 DEF DecidedInv
<1>3. ASSUME NEW r \in Requests, BeginAny(r) PROVE DecidedInv'
  <2>1. Started(r)
    BY <1>3, BeginStarts
  <2>2. PICK y \in Request : Starts(y) /\ req' = [req EXCEPT ![r] = y]
    BY <2>1 DEF Started
  <2>3. req'[r] = y /\ UNCHANGED <<tables, locks>>
    BY <2>1, <2>2 DEF Started, TypeOK
  <2>4. y.pc = "lockWorkspaces" => y.op \notin Lifecycle
    BY <2>2 DEF Starts, LocksUser, Lifecycle
  <2>5. DecidedFor(r)'
    BY <2>2, <2>3, <2>4 DEF DecidedFor, Writing, Demotes, Starts
  <2> QED  BY <1>2, <2>2, <2>3, <2>5 DEF locks
<1>4. ASSUME NEW r \in Requests, LockUser(r) PROVE DecidedInv'
  <2> DEFINE owned == IF req[r].op \in Lifecycle THEN OwnedLive(req[r].target) ELSE {}
             todo == IF req[r].op \in Lifecycle THEN owned ELSE req[r].todo
             p == IF todo = {} THEN "check" ELSE "lockWorkspaces"
             y == [req[r] EXCEPT !.owned = owned, !.todo = todo, !.pc = p]
  <2>1. req' = [req EXCEPT ![r] = y] /\ UNCHANGED <<tables, workspaceLock>>
    BY <1>4 DEF LockUser, TypeOK
  <2>2. p \in {"check", "lockWorkspaces"}
        /\ (req[r].op \in Lifecycle => owned = OwnedLive(req[r].target))
    OBVIOUS
  <2>3. req[r] \in Request
    BY DEF TypeOK
  <2> HIDE DEF p, todo, owned
  <2>4. y.pc = p /\ y.op = req[r].op /\ y.target = req[r].target /\ y.owned = owned
    BY <2>3 DEF Request
  <2> HIDE DEF y
  <2>5. req'[r] = y
    BY <2>1 DEF TypeOK
  <2>6. \A w : Owns(w, req[r].target)' <=> Owns(w, req[r].target)
    BY <2>1, <2>4, <2>5 DEF Owns, ActiveOwner, tables
  <2>7. DecidedFor(r)'
    BY <2>2, <2>4, <2>5, <2>6 DEF DecidedFor, Writing, Demotes, OwnedLive, Owns
  <2> QED  BY <1>2, <2>1, <2>7
<1>5. ASSUME NEW r \in Requests, LockWorkspace(r) PROVE DecidedInv'
  <2>1. PICK w \in Workspaces :
          /\ req[r].pc = "lockWorkspaces" /\ workspaceLock[w] = Nobody
          /\ workspaceLock' = [workspaceLock EXCEPT ![w] = r]
          /\ req' = [req EXCEPT ![r].todo = @ \ {w},
                        ![r].pc = IF req[r].todo = {w} THEN "check" ELSE "lockWorkspaces"]
          /\ UNCHANGED <<tables>>
    BY <1>5 DEF LockWorkspace
  <2> DEFINE p == IF req[r].todo = {w} THEN "check" ELSE "lockWorkspaces"
             y == [req[r] EXCEPT !.todo = req[r].todo \ {w}, !.pc = p]
  <2>2. req' = [req EXCEPT ![r] = y] /\ p \in {"check", "lockWorkspaces"}
    BY <2>1 DEF TypeOK
  <2>3. req[r] \in Request
    BY DEF TypeOK
  <2> HIDE DEF p
  <2>4. y.pc = p /\ y.op = req[r].op /\ y.target = req[r].target /\ y.owned = req[r].owned
    BY <2>3 DEF Request
  <2> HIDE DEF y
  <2>5. req'[r] = y
    BY <2>2 DEF TypeOK
  <2>6. \A x : Owns(x, req[r].target)' <=> Owns(x, req[r].target)
    BY <2>1, <2>4, <2>5 DEF Owns, ActiveOwner, tables
  <2>7. DecidedFor(r)'
    BY <2>1, <2>2, <2>4, <2>5, <2>6 DEF DecidedFor, DecidedInv, Writing, Demotes
  <2>8. \A s \in Requests, x \in Workspaces :
            s # r /\ workspaceLock[x] = s => workspaceLock'[x] = s
    BY <2>1, RosterAssumption DEF TypeOK
  <2> QED  BY <1>2, <2>1, <2>2, <2>7, <2>8
<1>6. ASSUME NEW r \in Requests, Check(r) PROVE DecidedInv'
  <2>1. DecidedFor(r)'
    BY <1>6, CheckDecides
  <2>2. UNCHANGED tables /\ workspaceLock' = workspaceLock
    BY <1>6 DEF Check, locks
  <2>3. \E y : req' = [req EXCEPT ![r] = y]
    BY <1>6 DEF Check, TypeOK
  <2> QED  BY <1>2, <2>1, <2>2, <2>3
<1>7. ASSUME NEW r \in Requests, DropGrants(r) PROVE DecidedInv'
  <2>1. PICK y : req' = [req EXCEPT ![r] = y] /\ y.pc \in {"idle", "drop"}
    <3>1. PICK u \in req[r].drop :
            /\ req[r].pc = "drop"
            /\ req' = [req EXCEPT ![r] = IF req[r].drop = {u} THEN Idle
                                         ELSE [req[r] EXCEPT !.drop = req[r].drop \ {u}]]
      BY <1>7 DEF DropGrants
    <3> DEFINE z == [req[r] EXCEPT !.drop = req[r].drop \ {u}]
    <3>2. z.pc = "drop"
      BY <3>1 DEF TypeOK, Request
    <3> HIDE DEF z
    <3> QED  BY <3>1, <3>2, IdleFormed DEF z
  <2>2. UNCHANGED tables /\ workspaceLock' = workspaceLock
    BY <1>7 DEF DropGrants, locks
  <2>3. req'[r] = y
    BY <2>1 DEF TypeOK
  <2>4. DecidedFor(r)'
    BY <2>1, <2>3 DEF DecidedFor, Writing, Demotes
  <2> QED  BY <1>2, <2>1, <2>2, <2>4
<1>8. ASSUME UNCHANGED <<workspace, member, locks, req>>,
             \A u \in Users : Usable(u) => Usable(u)'
      PROVE  DecidedInv'
  BY <1>8, DecisionsStand DEF DecidedInv, locks
<1>9. ASSUME NEW r \in Requests, Proceed(r) \/ Crash(r) PROVE DecidedInv'
  <2>1. Concludes(r) \/ LockUser(r) \/ LockWorkspace(r) \/ Check(r) \/ DropGrants(r)
    BY <1>9 DEF Proceed, Concludes, Refuses
  <2> QED  BY <1>1, <1>4, <1>5, <1>6, <1>7, <2>1
<1>10. ASSUME ~\E r \in Requests : Concludes(r), UNCHANGED <<locks, req>> PROVE DecidedInv'
  BY <1>8, <1>10, OthersLeaveTables
<1>11. ASSUME Environment \/ UNCHANGED vars PROVE UNCHANGED <<locks, req>>
  BY <1>11 DEF Environment, LoadForRead, GrantsExpire, Register, VerifyEmail, Lapse, vars
<1> QED  BY <1>1, <1>3, <1>9, <1>10, <1>11 DEF Next

(* The accounts are not written where the memberships are.                 *)
LEMMA MembershipsOrAccounts ==
    ASSUME NEW r, \/ WriteAdd(r) \/ WriteChangeRole(r) \/ WriteTransition(r) \/ WriteAccept(r)
                  \/ WriteCreate(r) \/ WriteTransfer(r)
    PROVE  \A u : Usable(u)' <=> Usable(u)
BY DEF WriteAdd, WriteChangeRole, WriteTransition, WriteAccept, WriteCreate, WriteTransfer,
   Usable, Present

(* A workspace that stays live keeps an owner over every statement.         *)
LEMMA OwnerRemains ==
    ASSUME NoStaleUpdate, RosterIInv, DecidedInv, NEW r \in Requests, Concludes(r),
           NEW w \in Workspaces, workspace[w] = "live", workspace'[w] = "live",
           NEW u \in Users, ActiveOwner(w, u), Usable(u)
    PROVE  \E v \in Users : ActiveOwner(w, v)' /\ Usable(v)'
<1> USE DEF RosterIInv
<1>1. DecidedFor(r) /\ FormedRequest(req[r])
  BY DEF DecidedInv, Formed
<1>2. \A v \in Users : member'[w][v] = member[w][v] => (ActiveOwner(w, v)' <=> ActiveOwner(w, v))
  BY DEF ActiveOwner
<1>3. CASE UNCHANGED member
  <2>1. CASE Usable(u)'
    BY <1>2, <1>3, <2>1
  <2>2. CASE ~Usable(u)'
    <3>1. req[r].op \in Lifecycle /\ req[r].pc = "write" /\ req[r].target = u
      BY <2>2, UsableLost
    <3>2. ~(req[r].op = "erase" /\ w \in req[r].owned)
      <4> SUFFICES ASSUME req[r].op = "erase", w \in req[r].owned PROVE FALSE
        OBVIOUS
      <4>1. WriteErase(r) \/ Refuses(r)
        BY <3>1 DEF Concludes, WriteAdd, WriteChangeRole, WriteTransition, WriteAccept,
           WriteTransfer, WriteCreate, WriteDelete, WriteDeactivate, WriteUpdate, WriteClose,
           WriteInvite, WriteRevoke, WriteResend, Writing, Stating
      <4>2. ~Refuses(r)
        <5>1. Refuses(r) => account' = account
          BY Refusals DEF tables
        <5>2. account' = account => (Usable(u)' <=> Usable(u))
          BY DEF Usable, Present
        <5> QED  BY <2>2, <5>1, <5>2
      <4>3. workspace'[w] = "closed"
        BY <4>1, <4>2 DEF WriteErase
      <4> QED  BY <4>3
    <3>3. AnotherOwner(w, u)
      BY <1>1, <3>1, <3>2 DEF DecidedFor, Owns
    <3>4. PICK v \in Users \ {u} : ActiveOwner(w, v) /\ Usable(v)
      BY <3>3 DEF AnotherOwner, UsableOwner
    <3>5. Usable(v)'
      BY <3>1, <3>4, UsableLost
    <3> QED  BY <1>2, <1>3, <3>4, <3>5
  <2> QED  BY <2>1, <2>2
<1>4. CASE /\ req[r].in \in Workspaces /\ req[r].target \in Users /\ req[r].pc = "write"
           /\ \/ WriteAdd(r) /\ RowBecomes(r, "ACTIVE", req[r].role)
              \/ WriteChangeRole(r) /\ RowBecomes(r, Row(r).status, req[r].role)
              \/ WriteTransition(r) /\ RowBecomes(r, NewStatus(req[r].op), Row(r).role)
                 /\ req[r].op \in {"suspend", "reactivate", "remove"}
              \/ WriteAccept(r) /\ RowBecomes(r, "ACTIVE", invitation[req[r].inv].role)
              \/ WriteCreate(r) /\ RowBecomes(r, "ACTIVE", "OWNER")
              \/ WriteTransfer(r)
  <2>1. \A v : Usable(v)' <=> Usable(v)
    BY <1>4, MembershipsOrAccounts
  <2>2. CASE WriteTransfer(r)
    <3>1. CASE w # req[r].in
      BY <1>2, <1>4, <2>1, <2>2, <3>1, TransferRows
    <3>2. CASE w = req[r].in
      <4>1. Writing(r, "transferOwnership")
        BY <2>2 DEF WriteTransfer
      <4>2. member[w][req[r].target].status = "ACTIVE"
        BY <1>1, <3>2, <4>1 DEF DecidedFor, Row
      <4>3. Usable(req[r].target)
        BY <1>4, <4>1, SeatHolder DEF Writing, NeedsUsable, LocksUser
      <4>4. TransferRole(r, req[r].target) = "OWNER"
        BY DEF TransferRole
      <4>5. /\ member'[w][req[r].target].status = "ACTIVE"
            /\ member'[w][req[r].target].role = "OWNER"
        BY <1>4, <2>2, <3>2, <4>2, <4>4, TransferRows
      <4>6. ASSUME NEW v \in Users, v = req[r].target
            PROVE  ActiveOwner(w, v)' /\ Usable(v)'
        BY <2>1, <4>3, <4>5, <4>6 DEF ActiveOwner
      <4> QED  BY <1>4, <4>6
    <3> QED  BY <3>1, <3>2
  <2>3. CASE member'[w][u] = member[w][u]
    BY <1>2, <2>1, <2>3
  <2>4. CASE ~WriteTransfer(r) /\ member'[w][u] # member[w][u]
    <3>1. w = req[r].in /\ u = req[r].target
      BY <1>4, <2>4 DEF RowBecomes
    <3>2. ~WriteAdd(r)
      BY <1>1, <1>4, <3>1 DEF DecidedFor, WriteAdd, ActiveOwner, Row
    <3>3. ~WriteAccept(r)
      BY <3>1 DEF WriteAccept, MayConsume, ActiveOwner, Row
    <3>4. ~WriteCreate(r)
      BY <3>1 DEF WriteCreate, Writing, FreshInv, FreshFor
    <3>5. CASE Demotes(r)
      <4>1. AnotherOwner(w, u)
        BY <1>1, <3>1, <3>5 DEF DecidedFor, Owns
      <4>2. PICK v \in Users \ {u} : ActiveOwner(w, v) /\ Usable(v)
        BY <4>1 DEF AnotherOwner, UsableOwner
      <4>3. member'[w][v] = member[w][v]
        BY <1>4, <2>4, <3>1, <4>2 DEF RowBecomes
      <4> QED  BY <1>2, <2>1, <4>2, <4>3
    <3>6. CASE ~Demotes(r)
      <4>1. CASE WriteChangeRole(r) /\ RowBecomes(r, Row(r).status, req[r].role)
        <5>1. req[r].role = "OWNER"
          BY <1>4, <3>6, <4>1 DEF Demotes, WriteChangeRole, Writing
        <5>2. ActiveOwner(w, u)'
          BY <3>1, <4>1, <5>1 DEF RowBecomes, ActiveOwner, Row
        <5> QED  BY <2>1, <5>2
      <4>2. CASE WriteTransition(r) /\ RowBecomes(r, NewStatus(req[r].op), Row(r).role)
                 /\ req[r].op \in {"suspend", "reactivate", "remove"}
        <5>1. req[r].op = "reactivate"
          BY <1>4, <3>6, <4>2 DEF Demotes
        <5>2. NewStatus(req[r].op) = "ACTIVE"
          BY <5>1 DEF NewStatus
        <5>3. ActiveOwner(w, u)'
          BY <3>1, <4>2, <5>2 DEF RowBecomes, ActiveOwner, Row
        <5> QED  BY <2>1, <5>3
      <4> QED  BY <1>4, <2>4, <3>2, <3>3, <3>4, <4>1, <4>2
    <3> QED  BY <3>5, <3>6
  <2> QED  BY <2>2, <2>3, <2>4
<1> QED  BY <1>3, <1>4, MembershipSteps

LEMMA OwnedNext ==
    ASSUME NoStaleUpdate, OwnersIInv, [Next]_vars
    PROVE  OwnersIInv'
<1> USE DEF OwnersIInv
<1>1. RosterIInv' /\ DecidedInv'
  BY RosterNextIInv, DecidedNext
<1>2. ASSUME NEW w \in Workspaces, workspace'[w] = "live"
      PROVE  \E u \in Users : ActiveOwner(w, u)' /\ Usable(u)'
  <2>1. CASE ~\E r \in Requests : Concludes(r)
    <3>1. /\ UNCHANGED <<workspace, member>>
          /\ \A u \in Users : Usable(u) => Usable(u)'
      BY <2>1, OthersLeaveTables
    <3>2. PICK u \in Users : ActiveOwner(w, u) /\ Usable(u)
      BY <1>2, <3>1 DEF OwnedWhileLive
    <3>3. ActiveOwner(w, u)'
      BY <3>1, <3>2 DEF ActiveOwner
    <3> QED  BY <3>1, <3>2, <3>3
  <2>2. ASSUME NEW r \in Requests, Concludes(r)
        PROVE  \E u \in Users : ActiveOwner(w, u)' /\ Usable(u)'
    <3>1. CASE workspace[w] = "live"
      <4>1. PICK u \in Users : ActiveOwner(w, u) /\ Usable(u)
        BY <3>1 DEF OwnedWhileLive
      <4> QED  BY <1>2, <2>2, <3>1, <4>1, OwnerRemains
    <3>2. CASE workspace[w] # "live"
      <4>1. WriteCreate(r) /\ w = req[r].in
        BY <1>2, <2>2, <3>2, OnlyCreateOpens
      <4>2. req[r].op = "create" /\ req[r].pc = "write"
        BY <4>1 DEF WriteCreate, Writing
      <4>3. req[r].target \in Users /\ RowBecomes(r, "ACTIVE", "OWNER")
        BY <4>1, <4>2, AtWrite, SetRowBecomes DEF WriteCreate, Lifecycle, RosterIInv
      <4>4. Usable(req[r].target)
        BY <4>2, SeatHolder DEF NeedsUsable, LocksUser
      <4>5. ASSUME NEW u \in Users, u = req[r].target PROVE ActiveOwner(w, u)' /\ Usable(u)'
        BY <4>1, <4>3, <4>4, <4>5, MembershipsOrAccounts DEF ActiveOwner, RowBecomes
      <4> QED  BY <4>3, <4>5
    <3> QED  BY <3>1, <3>2
  <2> QED  BY <2>1, <2>2
<1>3. OwnedWhileLive'
  BY <1>2 DEF OwnedWhileLive
<1> QED  BY <1>1, <1>3

LEMMA OwnersInit == Init => OwnersIInv
<1> SUFFICES ASSUME Init PROVE OwnersIInv
  OBVIOUS
<1>1. RosterIInv
  BY RosterInitIInv
<1>2. \A r \in Requests : req[r].pc = "idle"
  BY IdleFormed DEF Init
<1>3. DecidedInv
  BY <1>2 DEF DecidedInv, DecidedFor, Writing, Demotes
<1>4. OwnedWhileLive
  BY DEF Init, OwnedWhileLive
<1> QED  BY <1>1, <1>3, <1>4 DEF OwnersIInv

(* Every live workspace has an ACTIVE owner who can sign in, for any number  *)
(* of users, workspaces and requests, if every deactivation goes through the *)
(* transaction that checks it.                                               *)
THEOREM LiveWorkspacesAreOwned ==
    ASSUME NoStaleUpdate
    PROVE  Spec => []OwnedWhileLive
<1>1. OwnersIInv /\ [Next]_vars => OwnersIInv'
  BY OwnedNext
<1>2. OwnersIInv => OwnedWhileLive
  BY DEF OwnersIInv
<1> QED  BY <1>1, <1>2, OwnersInit, PTL DEF Spec

=============================================================================
