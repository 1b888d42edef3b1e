--------------------------- MODULE Authorization ---------------------------
(***************************************************************************)
(* Who may do what, when the answer is cached.  A request reads the epoch  *)
(* and the caller's grants from Redis, falls back to the database, writes  *)
(* the grants back with a time to live, and is let in or refused on what   *)
(* it holds by then (permission-loader.service.ts, permissions.guard.ts).  *)
(* Assigning or revoking a platform role, and every change of a roster,    *)
(* commits first and drops the cached grants afterwards.                   *)
(*                                                                         *)
(* Every Redis call and every statement is a step; any Redis call may fail *)
(* and any request may die with its process.  The fields and variables     *)
(* marked "history" are read by properties only.                           *)
(***************************************************************************)
EXTENDS Abilities, Integers

CONSTANTS
    User, Workspace,
    Request,       \* bound: the requests that run at once
    SeatRole,      \* [User -> [Workspace -> the role of the membership, or NoRole]]
    Assignable,    \* the platform roles that requests assign and revoke
    FirstAdmin,    \* the seeded administrator
    Nobody, NoRole, NoEntry, NoCall,
    Calls,         \* bound: the requests that clients send
    Ttl,           \* AUTHORIZATION_GRANTS_CACHE_TTL_SECONDS, in ticks
    MaxRequests,   \* bound: the requests that ever start
    MaxTime,       \* bound: the clock
    MaxEpoch       \* bound: calls of invalidateAllUsers

Operation == {"assign", "revoke", "list", "reseat"}

(* A request: the caller, and whose role or seat in what, as op needs them. *)
Call == [op : Operation, user : User \union {Nobody}, target : User \union {Nobody},
         role : Assignable \union {NoRole}, workspace : Workspace \union {NoWorkspace}]

ASSUME AuthorizationAssumption ==
    /\ FirstAdmin \in User
    /\ Nobody \notin User
    /\ NoWorkspace \notin Workspace
    /\ Assignable \subseteq PlatformRole
    /\ NoRole \notin SeededRole
    /\ SeatRole \in [User -> [Workspace -> WorkspaceRole \union {NoRole}]]
    /\ "PLATFORM_ADMIN" \in Assignable
    /\ Calls \subseteq Call
    /\ \A c \in Calls :
        /\ c.op # "reseat" => c.user \in User
        /\ c.op # "list" => c.target \in User
        /\ c.op \in {"assign", "revoke"} => c.role \in Assignable
        /\ c.op \in {"list", "reseat"} => c.workspace \in Workspace
        /\ c.op = "reseat" => SeatRole[c.target][c.workspace] # NoRole
    /\ Ttl \in Nat \ {0}
    /\ MaxRequests \in Nat
    /\ MaxTime \in Nat
    /\ MaxEpoch \in Nat

VARIABLES
    now,        \* the clock of Redis and of the processes
    userRole,   \* user_roles: each user's row for each assignable role
    seated,     \* which memberships are ACTIVE
    epoch,      \* authz:epoch
    cache,      \* authz:v1:grants:<epoch>:<user>
    req,        \* the requests in flight
    begun,      \* how many requests have started
    held,       \* history: the authorities each user has ever held
    slowest     \* history: the longest any request has taken so far

database == <<userRole, seated, held>>
vars == <<now, database, epoch, cache, req, begun, slowest>>

----------------------------------------------------------------------------
Time == 0 .. MaxTime
Epoch == 0 .. MaxEpoch

(* A row's id is the number of the request that made it; 0 is the seed's. *)
NoRow == -1
Row == -1 .. MaxRequests

(* An authority: a platform role, or the seat in a workspace. *)
Authority == Assignable \union Workspace

(* AuthorizationGrants as read: the platform roles, and the role of each   *)
(* ACTIVE membership; what each role permits is in the catalogue.          *)
(* history: readAt and asOf, the clock and the epoch at the read.          *)
Grants == [roles : SUBSET Assignable, seats : SUBSET (Workspace \X WorkspaceRole),
           readAt : Time, asOf : Epoch]

NoGrants == [roles |-> {}, seats |-> {}, readAt |-> 0, asOf |-> 0]

Entry == [grants : Grants, expiresAt : Nat]

Step == {"idle", "get", "query", "set", "decide", "delete",
         "invalidate", "del"}

RequestState ==
    [call : Call \union {NoCall}, at : Step,
     number : 0 .. MaxRequests,           \* the order in which requests start
     epoch : Epoch \union {NoEntry},      \* readEpoch's answer, or null
     grants : Grants,
     row : Row,                           \* revoke: the id it found
     started : Time, since : Epoch]       \* history: clock and epoch at the start

Idle == [call |-> NoCall, at |-> "idle", number |-> 0, epoch |-> NoEntry,
         grants |-> NoGrants, row |-> NoRow,
         started |-> 0, since |-> 0]

TypeOK ==
    /\ now \in Time
    /\ userRole \in [User -> [Assignable -> Row]]
    /\ seated \in [User -> SUBSET Workspace]
    /\ epoch \in Epoch
    /\ cache \in [Epoch \X User -> Entry \union {NoEntry}]
    /\ req \in [Request -> RequestState]
    /\ \A r \in Request :
        req[r].at \in {"get", "set", "del"} => req[r].epoch \in Epoch
    /\ held \in [User -> SUBSET Authority]
    /\ begun \in 0 .. MaxRequests
    /\ slowest \in Time

Member(u) == {w \in Workspace : SeatRole[u][w] # NoRole}

Init ==
    /\ now = 0
    /\ userRole = [u \in User |-> [p \in Assignable |->
            IF u = FirstAdmin /\ p = "PLATFORM_ADMIN" THEN 0 ELSE NoRow]]
    /\ seated = [u \in User |-> Member(u)]
    /\ epoch = 0
    /\ cache = [key \in Epoch \X User |-> NoEntry]
    /\ req = [r \in Request |-> Idle]
    /\ held = [u \in User |->
            Member(u) \union (IF u = FirstAdmin THEN {"PLATFORM_ADMIN"} ELSE {})]
    /\ begun = 0
    /\ slowest = 0

RolesOf(u) == {p \in Assignable : userRole[u][p] # NoRow}

Active(r) == req[r].at # "idle"

Update(r, state) == req' = [req EXCEPT ![r] = state]

GoTo(r, step) == Update(r, [req[r] EXCEPT !.at = step])

Finish(r) == Update(r, Idle)

(* A request arrives, to do what call says, and is at its first step. *)
Start(r, call, state) ==
    /\ ~Active(r)
    /\ begun < MaxRequests
    /\ begun' = begun + 1
    /\ Update(r, [state EXCEPT !.call = call, !.number = begun + 1,
                  !.started = now, !.since = epoch])

----------------------------------------------------------------------------
(* PermissionLoaderService *)

buildCacheKey(e, u) == <<e, u>>

ReadEpoch == epoch

(* mutant: a failed GET of the epoch counts as '0'. *)
UnreadableEpoch_Zero == 0

(* A failed GET of the epoch: null, and the cache is bypassed. *)
UnreadableEpoch == NoEntry

(* mutant: the entry is written without EX. *)
ExpiresAt_Never(t) == MaxTime + 1

ExpiresAt(t) == t + Ttl

(* The step after readEpoch: the cache, or the database when it is null. *)
AfterEpoch(e) == IF e = NoEntry THEN "query" ELSE "get"

(* A request arrives and loadGrants reads the epoch. *)
Begin(r, call) ==
    /\ call.op # "reseat"
    /\ \E e \in {ReadEpoch, UnreadableEpoch} :
        Start(r, call, [Idle EXCEPT !.epoch = e, !.at = AfterEpoch(e)])
    /\ UNCHANGED <<now, database, epoch, cache, slowest>>

(* readCachedGrants: a miss and a failure both fall through. *)
ReadCachedGrants(r) ==
    LET entry == cache[buildCacheKey(req[r].epoch, req[r].call.user)]
    IN  /\ req[r].at = "get"
        /\ \/ /\ entry # NoEntry
              /\ Update(r, [req[r] EXCEPT !.at = "decide", !.grants = entry.grants])
           \/ GoTo(r, "query")
        /\ UNCHANGED <<now, database, epoch, cache, begun, slowest>>

LoadGrantsFromDatabase(r) ==
    /\ req[r].at = "query"
    /\ LET u == req[r].call.user
           grants == [roles |-> RolesOf(u),
                      seats |-> {<<w, SeatRole[u][w]>> : w \in seated[u]},
                      readAt |-> now, asOf |-> epoch]
           next == IF req[r].epoch = NoEntry THEN "decide" ELSE "set"
       IN  Update(r, [req[r] EXCEPT !.grants = grants, !.at = next])
    /\ UNCHANGED <<now, database, epoch, cache, begun, slowest>>

(* SET ... EX, or a failure that is only logged. *)
WriteCachedGrants(r) ==
    LET key == buildCacheKey(req[r].epoch, req[r].call.user)
    IN  /\ req[r].at = "set"
        /\ \/ cache' = [cache EXCEPT ![key] =
                  [grants |-> req[r].grants, expiresAt |-> ExpiresAt(now)]]
           \/ cache' = cache
        /\ GoTo(r, "decide")
        /\ UNCHANGED <<now, database, epoch, begun, slowest>>

(* invalidateUser: the epoch again; unreadable is logged and given up. *)
InvalidateUser(r) ==
    /\ req[r].at = "invalidate"
    /\ \/ Update(r, [req[r] EXCEPT !.epoch = ReadEpoch, !.at = "del"])
       \/ Finish(r)
    /\ UNCHANGED <<now, database, epoch, cache, begun, slowest>>

DeleteCachedGrants(r) ==
    /\ req[r].at = "del"
    /\ \/ cache' = [cache EXCEPT
                      ![buildCacheKey(req[r].epoch, req[r].call.target)] = NoEntry]
       \/ cache' = cache
    /\ Finish(r)
    /\ UNCHANGED <<now, database, epoch, begun, slowest>>

(* invalidateAllUsers: one INCR.  A failed one changes nothing. *)
InvalidateAllUsers ==
    /\ epoch < MaxEpoch
    /\ epoch' = epoch + 1
    /\ UNCHANGED <<now, database, cache, req, begun, slowest>>

----------------------------------------------------------------------------
(* The guard and the handlers *)

AsGrants(g) ==
    [platformPermissions |->
        UNION {ROLE_DEFINITION_CATALOG[p].permissions : p \in g.roles},
     workspaceMemberships |->
        {[workspaceId |-> seat[1], status |-> "ACTIVE",
          permissions |-> ROLE_DEFINITION_CATALOG[seat[2]].permissions] :
         seat \in g.seats}]

Ability(r) == createForUser(req[r].call.user, AsGrants(req[r].grants))

RouteOf(op) ==
    IF op = "list" THEN Route("read", "WorkspaceMembership", FALSE, TRUE)
                   ELSE Route("assignRole", "User", TRUE, FALSE)

(* assertMayAssignRank: unrestricted, or the actor outranks the role. *)
MayAssignRank(r) ==
    \/ canSome(Ability(r), "manage", "all")
    \/ \E p \in RolesOf(req[r].call.user) :
         ROLE_DEFINITION_CATALOG[req[r].call.role].rank
           <= ROLE_DEFINITION_CATALOG[p].rank

(* The guard lets the request in, and the handler lets it act. *)
Permitted(r) ==
    LET call == req[r].call
    IN  /\ canActivate(call.user, Ability(r), RouteOf(call.op), call.workspace)
        /\ call.op \in {"assign", "revoke"} => MayAssignRank(r)

Admitted(r) == req[r].at = "decide" /\ Permitted(r)

Refuse(r) ==
    /\ req[r].at = "decide"
    /\ ~Permitted(r)
    /\ Finish(r)
    /\ UNCHANGED <<now, database, epoch, cache, begun, slowest>>

(* UserRolesService.assign: an upsert that leaves an existing row alone. *)
Assign(r) ==
    /\ Admitted(r)
    /\ req[r].call.op = "assign"
    /\ LET u == req[r].call.target
           p == req[r].call.role
       IN  /\ userRole' = [userRole EXCEPT ![u][p] = IF @ = NoRow THEN req[r].number ELSE @]
           /\ held' = [held EXCEPT ![u] = @ \union {p}]
    /\ GoTo(r, "invalidate")
    /\ UNCHANGED <<now, seated, epoch, cache, begun, slowest>>

(* UserRolesService.revoke: find the row, or 404. *)
FindAssignment(r) ==
    /\ Admitted(r)
    /\ req[r].call.op = "revoke"
    /\ LET row == userRole[req[r].call.target][req[r].call.role]
       IN  IF row = NoRow THEN Finish(r)
           ELSE Update(r, [req[r] EXCEPT !.row = row, !.at = "delete"])
    /\ UNCHANGED <<now, database, epoch, cache, begun, slowest>>

(* delete by the id found; a row that is gone is an error and ends it. *)
DeleteAssignment(r) ==
    LET u == req[r].call.target
        p == req[r].call.role
    IN  /\ req[r].at = "delete"
        /\ \/ /\ userRole[u][p] = req[r].row
              /\ userRole' = [userRole EXCEPT ![u][p] = NoRow]
              /\ GoTo(r, "invalidate")
           \/ /\ userRole[u][p] # req[r].row
              /\ Finish(r)
              /\ UNCHANGED userRole
        /\ UNCHANGED <<now, seated, held, epoch, cache, begun, slowest>>

(* GET /workspaces/:workspaceId/memberships: the rows the query may reach. *)
VisibleMembers(r) ==
    LET record(u) == [column \in {"userId", "workspaceId"} |->
                        IF column = "userId" THEN u ELSE req[r].call.workspace]
        records == {record(u) :
                      u \in {v \in User : req[r].call.workspace \in Member(v)}}
    IN  {row.userId : row \in buildWhereOrEmpty(Ability(r), "read",
                                 "WorkspaceMembership", records)}

FindPaginated(r) ==
    /\ Admitted(r)
    /\ req[r].call.op = "list"
    /\ Finish(r)
    /\ UNCHANGED <<now, database, epoch, cache, begun, slowest>>

(* A roster request from its commit on: a membership is suspended, ended or *)
(* reactivated, and the member's grants are dropped (Roster has the rest).  *)
Reseat(r, call) ==
    /\ call.op = "reseat"
    /\ Start(r, call, [Idle EXCEPT !.at = "invalidate"])
    /\ LET u == call.target
           w == call.workspace
       IN  seated' = [seated EXCEPT ![u] =
                        IF w \in @ THEN @ \ {w} ELSE @ \union {w}]
    /\ UNCHANGED <<now, userRole, held, epoch, cache, slowest>>

(* The process stops; what the request had not done yet is not done. *)
Die(r) ==
    /\ Active(r)
    /\ Finish(r)
    /\ UNCHANGED <<now, database, epoch, cache, begun, slowest>>

(* Time passes, and Redis forgets the keys whose time to live is over. *)
Tick ==
    /\ now < MaxTime
    /\ now' = now + 1
    /\ cache' = [key \in DOMAIN cache |->
            IF cache[key] # NoEntry /\ cache[key].expiresAt <= now + 1
            THEN NoEntry ELSE cache[key]]
    /\ LET taken == {slowest} \union
                    {now + 1 - req[r].started : r \in {q \in Request : Active(q)}}
       IN  /\ slowest' \in taken
           /\ \A t \in taken : t <= slowest'
    /\ UNCHANGED <<database, epoch, req, begun>>

Next ==
    \/ \E r \in Request :
        \/ \E call \in Calls : Begin(r, call) \/ Reseat(r, call)
        \/ ReadCachedGrants(r) \/ LoadGrantsFromDatabase(r) \/ WriteCachedGrants(r)
        \/ Refuse(r) \/ Assign(r) \/ FindAssignment(r) \/ DeleteAssignment(r)
        \/ FindPaginated(r)
        \/ InvalidateUser(r) \/ DeleteCachedGrants(r) \/ Die(r)
    \/ InvalidateAllUsers
    \/ Tick

Spec == Init /\ [][Next]_vars

----------------------------------------------------------------------------
(* Properties *)

(* Any request past the loading of its grants. *)
Decides(r) == req[r].at \in {"decide", "delete"}

(* What a request is decided on was read from the database less long ago   *)
(* than the TTL plus twice the slowest request (the load that put it in    *)
(* the cache, and the request that acts on it), however Redis failed and   *)
(* whoever refilled an entry that a writer had just dropped.               *)
StaleGrantsAgeOut ==
    \A r \in Request :
        Decides(r) => now - req[r].grants.readAt < Ttl + 2 * slowest

(* The comment on readEpoch: once invalidateAllUsers has run, no request   *)
(* that starts later is decided on grants read before it, not even when    *)
(* Redis fails in the middle of a request.                                 *)
EpochIsFinal ==
    \A r \in Request : Decides(r) => req[r].grants.asOf >= req[r].since

(* The README of common/authorization: only an administrator assigns       *)
(* roles.  A platform role appears only by the request of a user who is an *)
(* administrator, or was one (StaleGrantsAgeOut says how long ago).        *)
EscalationNeedsAdmin ==
    [][\A u \in User, p \in Assignable :
          userRole[u][p] = NoRow /\ userRole'[u][p] # NoRow
          => \E r \in Request :
                /\ req[r].number = userRole'[u][p]
                /\ "PLATFORM_ADMIN" \in held[req[r].call.user]]_vars

(* Somebody else's membership row is shown only to a user who has had a    *)
(* seat in that very workspace, or a platform role: the tenant boundary    *)
(* that guard, cache and query draw together.                              *)
RosterNeedsSeat ==
    \A r \in Request : req[r].at = "decide" /\ req[r].call.op = "list" =>
        \A member \in VisibleMembers(r) \ {req[r].call.user} :
            held[req[r].call.user]
              \intersect (Assignable \union {req[r].call.workspace}) # {}
=============================================================================
