------------------------------ MODULE Catalog ------------------------------
(***************************************************************************)
(* What a role may do: the permission and role tables of                   *)
(* common/authorization/permission-catalog.ts and the owner and tenant     *)
(* columns of common/authorization/subject-key.ts.                         *)
(***************************************************************************)
EXTENDS Naturals

Platform(action, subject, ownership) ==
    [action |-> action, subject |-> subject,
     scope |-> "PLATFORM", ownership |-> ownership]

InWorkspace(action, subject) ==
    [action |-> action, subject |-> subject,
     scope |-> "WORKSPACE", ownership |-> "ANY"]

AnyRecord(actions, subject) ==
    {Platform(action, subject, "ANY") : action \in actions}

OwnRecord(actions, subject) ==
    {Platform(action, subject, "OWN") : action \in actions}

Inside(actions, subject) == {InWorkspace(action, subject) : action \in actions}

MANAGE_EVERYTHING == AnyRecord({"manage"}, "all")

(* Held by every signed-in account, whatever its roles. *)
AUTHENTICATED_USER_PERMISSIONS ==
    UNION {OwnRecord({"read", "update", "delete"}, "User"),
           OwnRecord({"manage"}, "DeviceToken"),
           OwnRecord({"read"}, "WorkspaceMembership"),
           AnyRecord({"create"}, "Workspace"),
           AnyRecord({"read"}, "Role"),
           AnyRecord({"read"}, "Permission")}

Role(scope, rank, permissions) ==
    [scope |-> scope, rank |-> rank, permissions |-> permissions]

(* Rank orders assignments only; no role inherits from another. *)
ROLE_DEFINITION_CATALOG ==
    [PLATFORM_ADMIN |-> Role("PLATFORM", 100, MANAGE_EVERYTHING),
     PLATFORM_ENGINEER |-> Role("PLATFORM", 90, UNION {
        AnyRecord({"read"}, "User"),
        AnyRecord({"read"}, "Workspace"),
        AnyRecord({"read"}, "AuditLog"),
        AnyRecord({"manage"}, "AppVersion"),
        AnyRecord({"read", "readPayload", "retry", "cancel"}, "QueueJob"),
        AnyRecord({"read"}, "WorkspaceMembership"),
        AnyRecord({"read"}, "WorkspaceInvitation")}),
     PLATFORM_TECHNICAL_SUPPORT |-> Role("PLATFORM", 60, UNION {
        AnyRecord({"read"}, "User"),
        AnyRecord({"read"}, "Workspace"),
        AnyRecord({"read", "retry"}, "QueueJob"),
        AnyRecord({"read"}, "WorkspaceMembership")}),
     PLATFORM_APP_SUPPORT |-> Role("PLATFORM", 40, UNION {
        AnyRecord({"read", "revokeSession", "resendVerification"}, "User"),
        AnyRecord({"read"}, "Workspace"),
        AnyRecord({"read"}, "WorkspaceMembership")}),
     WORKSPACE_OWNER |-> Role("WORKSPACE", 100, UNION {
        Inside({"read", "update", "delete", "transferOwnership"}, "Workspace"),
        Inside({"read", "create", "update", "delete", "assignRole", "suspend"},
               "WorkspaceMembership"),
        Inside({"read", "create", "delete"}, "WorkspaceInvitation")}),
     WORKSPACE_ADMIN |-> Role("WORKSPACE", 70, UNION {
        Inside({"read", "update"}, "Workspace"),
        Inside({"read", "create", "update", "delete", "assignRole", "suspend"},
               "WorkspaceMembership"),
        Inside({"read", "create", "delete"}, "WorkspaceInvitation")}),
     WORKSPACE_MANAGER |-> Role("WORKSPACE", 40, UNION {
        Inside({"read", "update"}, "Workspace"),
        Inside({"read", "create"}, "WorkspaceMembership"),
        Inside({"read", "create"}, "WorkspaceInvitation")}),
     WORKSPACE_STAFF |-> Role("WORKSPACE", 20, UNION {
        Inside({"read"}, "Workspace"),
        Inside({"read"}, "WorkspaceMembership")})]

SeededRole == DOMAIN ROLE_DEFINITION_CATALOG

PlatformRole ==
    {role \in SeededRole : ROLE_DEFINITION_CATALOG[role].scope = "PLATFORM"}

WorkspaceRole == SeededRole \ PlatformRole

(* The column that names a record's owning user, and its workspace. *)
SUBJECT_OWNER_KEY ==
    [User |-> "id", DeviceToken |-> "userId", WorkspaceMembership |-> "userId"]

SUBJECT_TENANT_KEY ==
    [Workspace |-> "id", WorkspaceMembership |-> "workspaceId",
     WorkspaceInvitation |-> "workspaceId"]

isOwnableSubject(subject) == subject \in DOMAIN SUBJECT_OWNER_KEY

isTenantScopedSubject(subject) == subject \in DOMAIN SUBJECT_TENANT_KEY
=============================================================================
