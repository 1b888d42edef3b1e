----------------------------- MODULE Abilities -----------------------------
(***************************************************************************)
(* From a user's grants to an answer: the rules AbilityFactory builds, the *)
(* questions CASL answers about them, the route guard, and the filter a    *)
(* query is scoped with.  Pure definitions, no state.                      *)
(*                                                                         *)
(* grants.platformPermissions is a set of permissions;                     *)
(* grants.workspaceMemberships a set of [workspaceId, status, permissions].*)
(***************************************************************************)
EXTENDS Catalog

CONSTANT NoWorkspace    \* the request names no workspace

NoConditions == [column \in {} |-> NoWorkspace]

Rule(permission, conditions) ==
    [action |-> permission.action, subject |-> permission.subject,
     conditions |-> conditions]

Column(name, value) == [column \in {name} |-> value]

(* AbilityFactory.grant: one rule per platform permission. *)
grant(permission, userId) ==
    IF permission.ownership = "OWN"
    THEN Rule(permission, Column(SUBJECT_OWNER_KEY[permission.subject], userId))
    ELSE Rule(permission, NoConditions)

(* mutant: a membership's permissions become rules without the workspace. *)
WorkspaceRule_Unconditioned(permission, workspaceId) ==
    Rule(permission, NoConditions)

WorkspaceRule(permission, workspaceId) ==
    Rule(permission, Column(SUBJECT_TENANT_KEY[permission.subject], workspaceId))

createForUser(userId, grants) ==
    LET InScope(permissions, scope) ==
            {permission \in permissions : permission.scope = scope}
    IN  {grant(permission, userId) : permission \in
            InScope(AUTHENTICATED_USER_PERMISSIONS
                      \union grants.platformPermissions, "PLATFORM")}
        \union
        UNION {{WorkspaceRule(permission, membership.workspaceId) :
                  permission \in InScope(membership.permissions, "WORKSPACE")} :
               membership \in {m \in grants.workspaceMemberships :
                                 m.status = "ACTIVE"}}

----------------------------------------------------------------------------
(* CASL, as src/ uses it: "manage" is every action, "all" every subject. *)

(* mutant: "manage" of one subject is taken for "manage" of all. *)
rulesFor_ManageAnything(ability, action, subject) ==
    {rule \in ability : \/ rule.action = "manage"
                        \/ rule.action = action /\ rule.subject = subject}

rulesFor(ability, action, subject) ==
    {rule \in ability : rule.action \in {action, "manage"}
                        /\ rule.subject \in {subject, "all"}}

Matches(rule, record) ==
    \A column \in DOMAIN rule.conditions :
        /\ column \in DOMAIN record
        /\ record[column] = rule.conditions[column]

(* can(action, "Subject"): is there any rule?  Conditions are not looked at. *)
canSome(ability, action, subject) == rulesFor(ability, action, subject) # {}

(* can(action, record): does a rule's condition hold of this record? *)
canRecord(ability, action, subject, record) ==
    \E rule \in rulesFor(ability, action, subject) : Matches(rule, record)

----------------------------------------------------------------------------
(* @RequirePermission(action, subject, options) *)
Route(action, subject, isAdministrative, isDeniedAsNotFound) ==
    [action |-> action, subject |-> subject,
     isAdministrative |-> isAdministrative,
     isDeniedAsNotFound |-> isDeniedAsNotFound]

hasNonOwnerScopedRule(ability, action, subject) ==
    \E rule \in rulesFor(ability, action, subject) :
        ~(/\ isOwnableSubject(subject)
          /\ SUBJECT_OWNER_KEY[subject] \in DOMAIN rule.conditions)

buildTenantStub(subject, workspaceId, userId) ==
    LET owner == IF isOwnableSubject(subject)
                 THEN {SUBJECT_OWNER_KEY[subject]} ELSE {}
    IN  [column \in {SUBJECT_TENANT_KEY[subject]} \union owner |->
            IF column \in owner THEN userId ELSE workspaceId]

(* PermissionsGuard.canActivate once the grants are loaded. *)
canActivate(userId, ability, route, workspaceId) ==
    /\ route.isAdministrative =>
         hasNonOwnerScopedRule(ability, route.action, route.subject)
    /\ isTenantScopedSubject(route.subject) /\ route.subject # "Workspace" =>
         workspaceId # NoWorkspace
    /\ \/ route.isDeniedAsNotFound
       \/ IF workspaceId # NoWorkspace /\ isTenantScopedSubject(route.subject)
          THEN canRecord(ability, route.action, route.subject,
                         buildTenantStub(route.subject, workspaceId, userId))
          ELSE canSome(ability, route.action, route.subject)

(* The rows of records that AbilityScopedQueryService lets a query reach. *)
buildWhereOrEmpty(ability, action, subject, records) ==
    {record \in records : canRecord(ability, action, subject, record)}
=============================================================================
