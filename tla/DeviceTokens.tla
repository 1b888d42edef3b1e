---------------------------- MODULE DeviceTokens ----------------------------
(***************************************************************************)
(* The push-notification tokens of people's devices (DeviceTokensService), *)
(* one row of them. An update or a removal looks the row up within what    *)
(* its caller may reach, and then writes it by its id alone; others write  *)
(* in between. Administrators reach every row, everyone else their own.    *)
(***************************************************************************)
EXTENDS Naturals

CONSTANTS
    Person,
    Administrator,   \* persons who hold MANAGE_ANY_DEVICE_TOKEN
    Registration,    \* requests under way at once
    Nobody

ASSUME DeviceTokensAssumption == Administrator \subseteq Person /\ Nobody \notin Person

VARIABLES
    deviceRow,      \* absent, or its owner, or gone for good
    registration,   \* the requests under way
    entitled        \* history: who registered the token, or was given it by an administrator

deviceTokenVars == <<deviceRow, registration, entitled>>

IdleRegistration == [step |-> "idle", actor |-> Nobody, userId |-> Nobody]

DeviceTokensTypeOK ==
    /\ deviceRow \in [state : {"absent", "stored", "removed"}, owner : Person \union {Nobody}]
    /\ registration \in [Registration ->
            [step : {"idle", "create", "update", "remove"}, actor : Person \union {Nobody},
             userId : Person \union {Nobody}]]
    /\ entitled \subseteq Person

DeviceTokensInit ==
    /\ deviceRow = [state |-> "absent", owner |-> Nobody]
    /\ registration = [r \in Registration |-> IdleRegistration]
    /\ entitled = {}

(* mutant: the lookup is by id, without the caller's reach. *)
Reaches_Anyone(actor, owner) == TRUE

(* The conditions of the ability's rules on DeviceToken: the owner column. *)
Reaches(actor, owner) == actor \in Administrator \/ owner = actor

Register(r, step, actor, userId) ==
    /\ registration[r].step = "idle"
    /\ registration' = [registration EXCEPT
            ![r] = [step |-> step, actor |-> actor, userId |-> userId]]
    /\ UNCHANGED <<deviceRow, entitled>>

(* assertCan on the record that is to be. *)
beginCreate(r, actor, userId) ==
    /\ Reaches(actor, userId)
    /\ Register(r, "create", actor, userId)

(* findById within reach; a new owner (optional) must be within it as well. *)
beginUpdate(r, actor, userId) ==
    /\ deviceRow.state = "stored" /\ Reaches(actor, deviceRow.owner)
    /\ userId # Nobody => Reaches(actor, userId)
    /\ Register(r, "update", actor, userId)

beginRemove(r, actor) ==
    /\ deviceRow.state = "stored" /\ Reaches(actor, deviceRow.owner)
    /\ Register(r, "remove", actor, Nobody)

Answer(r) == registration' = [registration EXCEPT ![r] = IdleRegistration]

(* The INSERT. The unique index refuses a token that is registered already. *)
createToken(r) ==
    /\ registration[r].step = "create"
    /\ IF deviceRow.state = "absent"
       THEN /\ deviceRow' = [state |-> "stored", owner |-> registration[r].userId]
            /\ entitled' = {registration[r].userId}
       ELSE UNCHANGED <<deviceRow, entitled>>
    /\ Answer(r)

(* The UPDATE by id; a row that is gone, or a token that is taken, refuses it. *)
updateToken(r) ==
    LET by == registration[r]
    IN  /\ by.step = "update"
        /\ \/ /\ deviceRow.state = "stored"
              /\ deviceRow' = [deviceRow EXCEPT
                    !.owner = IF by.userId = Nobody THEN @ ELSE by.userId]
              /\ entitled' = IF by.actor \in Administrator
                             THEN entitled \union {deviceRow'.owner} ELSE entitled
           \/ UNCHANGED <<deviceRow, entitled>>
        /\ Answer(r)

removeToken(r) ==
    /\ registration[r].step = "remove"
    /\ deviceRow' = [state |-> "removed", owner |-> Nobody]
    /\ Answer(r)
    /\ UNCHANGED entitled

DeviceTokensNext ==
    \E r \in Registration :
        \/ \E actor \in Person :
            \/ \E userId \in Person : beginCreate(r, actor, userId)
            \/ \E userId \in Person \union {Nobody} : beginUpdate(r, actor, userId)
            \/ beginRemove(r, actor)
        \/ createToken(r) \/ updateToken(r) \/ removeToken(r)

DeviceTokensSpec == DeviceTokensInit /\ [][DeviceTokensNext]_deviceTokenVars

----------------------------------------------------------------------------
(* A write that lands after the row has changed hands can at most undo     *)
(* that change: a device's notifications only ever go to someone who       *)
(* registered the token or was given it by an administrator, although      *)
(* update writes by id what it looked up within reach.                     *)
OwnerIsEntitled == deviceRow.state = "stored" => deviceRow.owner \in entitled
=============================================================================
