------------------------ MODULE AuthorizationProofs ------------------------
(***************************************************************************)
(* Theorems about Authorization, for every set of users, workspaces and    *)
(* requests, every time to live and every bound.                           *)
(***************************************************************************)
EXTENDS Authorization, TLAPS

(* What a request has in hand at each step, at time t and epoch e, when    *)
(* the slowest request so far took s.                                      *)
Sound(q, t, e, s) ==
    q.at # "idle" =>
      /\ q.call \in Calls
      /\ q.at \in {"get", "query", "set", "decide"} => q.call.op # "reseat"
      /\ q.at = "delete" => q.call.op = "revoke"
      /\ q.at \in {"invalidate", "del"} => q.call.op # "list"
      /\ q.started <= t
      /\ t - q.started <= s
      /\ q.since <= e
      /\ q.at = "get" => q.since <= q.epoch
      /\ q.at \in {"get", "query", "set"} => q.epoch = NoEntry \/ q.epoch <= e
      /\ q.at = "set" => q.started <= q.grants.readAt
      /\ q.at = "set" => q.epoch <= q.grants.asOf
      /\ q.at \in {"set", "decide", "delete"} =>
            /\ q.started - q.grants.readAt < Ttl + s
            /\ q.since <= q.grants.asOf

(* A cached entry is alive, was read at most one request before it was     *)
(* written, and not before the epoch of its key.                           *)
Fresh(key, entry, t, s) ==
    entry # NoEntry =>
      /\ t < entry.expiresAt
      /\ entry.expiresAt <= entry.grants.readAt + s + Ttl
      /\ key[1] <= entry.grants.asOf

RequestInv == \A r \in Request : Sound(req[r], now, epoch, slowest)

CacheInv == \A key \in Epoch \X User : Fresh(key, cache[key], now, slowest)

SeatInv == \A u \in User : seated[u] \subseteq Member(u)

IInv == TypeOK /\ RequestInv /\ CacheInv /\ SeatInv

----------------------------------------------------------------------------
(* A request that is over, or has not begun, is of its type. *)
LEMMA IdleType == Idle \in RequestState
<1>1. NoGrants \in Grants
  BY AuthorizationAssumption DEF NoGrants, Grants, Time, Epoch
<1> QED
  BY <1>1, AuthorizationAssumption DEF Idle, RequestState, Step, Row, NoRow, Time, Epoch

(* The initial states satisfy the invariant. *)
LEMMA InitInv == Init => IInv
<1> SUFFICES ASSUME Init PROVE IInv
  OBVIOUS
<1>1. TypeOK
  <2>1. userRole \in [User -> [Assignable -> Row]]
    BY AuthorizationAssumption DEF Init, Row, NoRow
  <2>2. seated \in [User -> SUBSET Workspace]
    BY DEF Init, Member
  <2>3. held \in [User -> SUBSET Authority]
    BY AuthorizationAssumption DEF Init, Member, Authority
  <2>4. req \in [Request -> RequestState]
    BY IdleType DEF Init
  <2>5. \A r \in Request : req[r].at = "idle"
    BY DEF Init, Idle
  <2>6. cache \in [Epoch \X User -> Entry \union {NoEntry}]
    BY DEF Init
  <2>7. now \in Time /\ epoch \in Epoch /\ begun \in 0 .. MaxRequests /\ slowest \in Time
    BY AuthorizationAssumption DEF Init, Time, Epoch
  <2> QED
    BY <2>1, <2>2, <2>3, <2>4, <2>5, <2>6, <2>7 DEF TypeOK
<1>2. RequestInv
  BY DEF Init, Idle, RequestInv, Sound
<1>3. CacheInv
  BY DEF Init, CacheInv, Fresh
<1>4. SeatInv
  BY DEF Init, SeatInv
<1> QED
  BY <1>1, <1>2, <1>3, <1>4 DEF IInv

----------------------------------------------------------------------------
(* Steps of one request that leave clock, epoch, cache and database alone. *)

(* Such a step preserves the invariant if the request's new state is sound. *)
LEMMA OneRequest ==
    ASSUME IInv, NEW r \in Request, NEW q \in RequestState,
           Update(r, q),
           q.at \in {"get", "set", "del"} => q.epoch \in Epoch,
           Sound(q, now, epoch, slowest)
    PROVE  /\ req' \in [Request -> RequestState]
           /\ \A i \in Request :
                req'[i].at \in {"get", "set", "del"} => req'[i].epoch \in Epoch
           /\ \A i \in Request : Sound(req'[i], now, epoch, slowest)
<1>1. req \in [Request -> RequestState]
  BY DEF IInv, TypeOK
<1>2. req' = [req EXCEPT ![r] = q]
  BY DEF Update
<1>3. \A i \in Request : req'[i] = IF i = r THEN q ELSE req[i]
  BY <1>1, <1>2
<1> QED
  BY <1>1, <1>2, <1>3 DEF IInv, TypeOK, RequestInv

LEMMA QuietStep ==
    ASSUME IInv, NEW r \in Request, NEW q \in RequestState,
           Update(r, q),
           q.at \in {"get", "set", "del"} => q.epoch \in Epoch,
           Sound(q, now, epoch, slowest),
           UNCHANGED <<now, database, epoch, cache, slowest>>,
           begun' \in 0 .. MaxRequests
    PROVE  IInv'
<1>1. /\ req' \in [Request -> RequestState]
      /\ \A i \in Request :
           req'[i].at \in {"get", "set", "del"} => req'[i].epoch \in Epoch
      /\ \A i \in Request : Sound(req'[i], now, epoch, slowest)
  BY OneRequest
<1>2. TypeOK'
  BY <1>1 DEF IInv, TypeOK, database
<1>3. RequestInv'
  BY <1>1 DEF RequestInv
<1>4. CacheInv' /\ SeatInv'
  BY DEF IInv, CacheInv, SeatInv, database
<1> QED
  BY <1>2, <1>3, <1>4 DEF IInv

(* A request that ends, refused, answered, failed or dead. *)
LEMMA FinishStep ==
    ASSUME IInv, NEW r \in Request, Finish(r),
           UNCHANGED <<now, database, epoch, cache, begun, slowest>>
    PROVE  IInv'
<1>1. Idle \in RequestState /\ Idle.at = "idle"
  BY IdleType DEF Idle
<1>2. Sound(Idle, now, epoch, slowest)
  BY <1>1 DEF Sound
<1>3. begun' \in 0 .. MaxRequests
  BY DEF IInv, TypeOK
<1>4. Update(r, Idle)
  BY DEF Finish
<1>5. Idle.at \in {"get", "set", "del"} => Idle.epoch \in Epoch
  BY <1>1
<1> QED
  BY <1>1, <1>2, <1>3, <1>4, <1>5, QuietStep

(* What the clock, the epoch and a request in flight are. *)
LEMMA RequestType ==
    ASSUME IInv, NEW r \in Request
    PROVE  /\ req[r] \in RequestState
           /\ Sound(req[r], now, epoch, slowest)
           /\ now \in Int /\ epoch \in Int /\ slowest \in Int
           /\ now \in Time /\ epoch \in Epoch /\ begun \in 0 .. MaxRequests
           /\ Ttl \in Int /\ Ttl > 0
           /\ req[r].started \in Int /\ req[r].since \in Int
           /\ req[r].grants \in Grants
           /\ req[r].grants.readAt \in Int /\ req[r].grants.asOf \in Int
           /\ req[r].epoch \in Epoch => req[r].epoch \in Int
<1>1. req[r] \in RequestState /\ now \in Time /\ epoch \in Epoch /\ slowest \in Time
      /\ begun \in 0 .. MaxRequests
  BY DEF IInv, TypeOK
<1>2. req[r].started \in Time /\ req[r].since \in Epoch /\ req[r].grants \in Grants
  BY <1>1 DEF RequestState
<1>3. req[r].grants.readAt \in Time /\ req[r].grants.asOf \in Epoch
  BY <1>2 DEF Grants
<1> QED
  BY <1>1, <1>2, <1>3, AuthorizationAssumption DEF Time, Epoch, IInv, RequestInv

LEMMA BeginInv ==
    ASSUME IInv, NEW r \in Request, NEW call \in Calls, Begin(r, call)
    PROVE  IInv'
<1>1. PICK e \in {ReadEpoch, UnreadableEpoch} :
        Start(r, call, [Idle EXCEPT !.epoch = e, !.at = AfterEpoch(e)])
  BY DEF Begin
<1> DEFINE q == [Idle EXCEPT !.epoch = e, !.at = AfterEpoch(e), !.call = call,
                 !.number = begun + 1, !.started = now, !.since = epoch]
<1>2. Update(r, q) /\ begun < MaxRequests /\ begun' = begun + 1
  BY <1>1 DEF Start, Idle
<1>3. begun + 1 \in 0 .. MaxRequests
  BY <1>2, AuthorizationAssumption DEF IInv, TypeOK
<1>4. e \in Epoch \union {NoEntry} /\ e \in {epoch, NoEntry}
  BY DEF IInv, TypeOK, ReadEpoch, UnreadableEpoch
<1>5. AfterEpoch(e) \in {"get", "query"} /\ (AfterEpoch(e) = "get" => e = epoch)
  BY <1>4 DEF AfterEpoch
<1>6. q \in RequestState
  BY <1>3, <1>4, <1>5, IdleType, AuthorizationAssumption
  DEF RequestState, Step, IInv, TypeOK
<1>7. /\ q.at = AfterEpoch(e) /\ q.epoch = e /\ q.call = call
      /\ q.started = now /\ q.since = epoch
  BY DEF Idle
<1>8. call.op # "reseat"
  BY DEF Begin
<1>9. Sound(q, now, epoch, slowest)
  BY <1>4, <1>5, <1>7, <1>8 DEF Sound, IInv, TypeOK, Time, Epoch
<1>10. UNCHANGED <<now, database, epoch, cache, slowest>>
  BY DEF Begin
<1>11. q.at \in {"get", "set", "del"} => q.epoch \in Epoch
  BY <1>4, <1>5, <1>7 DEF IInv, TypeOK
<1> QED
  BY <1>2, <1>3, <1>6, <1>9, <1>10, <1>11, QuietStep

LEMMA ReadCachedGrantsInv ==
    ASSUME IInv, NEW r \in Request, ReadCachedGrants(r)
    PROVE  IInv'
<1> DEFINE q == req[r]
           key == <<q.epoch, q.call.user>>
           entry == cache[key]
<1>1. q.at = "get" /\ UNCHANGED <<now, database, epoch, cache, begun, slowest>>
  BY DEF ReadCachedGrants
<1>2. key \in Epoch \X User
  BY <1>1, RequestType, AuthorizationAssumption DEF Sound, IInv, TypeOK
<1>3. CASE /\ entry # NoEntry
           /\ Update(r, [q EXCEPT !.at = "decide", !.grants = entry.grants])
  <2> DEFINE s == [q EXCEPT !.at = "decide", !.grants = entry.grants]
  <2>1. entry \in Entry /\ Fresh(key, entry, now, slowest)
    BY <1>2, <1>3 DEF IInv, TypeOK, CacheInv
  <2>2. entry.grants \in Grants /\ entry.expiresAt \in Int
    BY <2>1 DEF Entry
  <2>3. entry.grants.readAt \in Int /\ entry.grants.asOf \in Int
    BY <2>2 DEF Grants, Time, Epoch
  <2>4. s \in RequestState
    BY <2>2, RequestType DEF RequestState, Step
  <2>5. /\ s.at = "decide" /\ s.grants = entry.grants /\ s.call = q.call
        /\ s.started = q.started /\ s.since = q.since
    BY RequestType DEF RequestState
  <2>6. q.started - entry.grants.readAt < Ttl + slowest
    BY <1>1, <1>3, <2>1, <2>2, <2>3, RequestType DEF Fresh, Sound
  <2>7. q.since <= entry.grants.asOf
    <3>1. q.epoch \in Int /\ q.since <= q.epoch
      BY <1>1, <1>2, RequestType DEF Sound, Epoch
    <3>2. q.epoch <= entry.grants.asOf
      BY <1>3, <2>1 DEF Fresh
    <3> QED
      BY <3>1, <3>2, <2>3, RequestType
  <2>8. Sound(s, now, epoch, slowest)
    BY <1>1, <2>5, <2>6, <2>7, RequestType DEF Sound
  <2> QED
    BY <1>1, <1>3, <2>4, <2>5, <2>8, QuietStep DEF IInv, TypeOK
<1>4. CASE GoTo(r, "query")
  <2> DEFINE s == [q EXCEPT !.at = "query"]
  <2>1. s \in RequestState
    BY RequestType DEF RequestState, Step
  <2>2. /\ s.at = "query" /\ s.call = q.call /\ s.epoch = q.epoch
        /\ s.started = q.started /\ s.since = q.since
    BY RequestType DEF RequestState
  <2>3. Sound(s, now, epoch, slowest)
    BY <1>1, <2>2, RequestType DEF Sound
  <2>4. Update(r, s)
    BY <1>4 DEF GoTo
  <2> QED
    BY <1>1, <2>1, <2>2, <2>3, <2>4, QuietStep DEF IInv, TypeOK
<1> QED
  BY <1>3, <1>4 DEF ReadCachedGrants, buildCacheKey

LEMMA LoadGrantsFromDatabaseInv ==
    ASSUME IInv, NEW r \in Request, LoadGrantsFromDatabase(r)
    PROVE  IInv'
<1> DEFINE q == req[r]
           u == q.call.user
           g == [roles |-> RolesOf(u),
                 seats |-> {<<w, SeatRole[u][w]>> : w \in seated[u]},
                 readAt |-> now, asOf |-> epoch]
           next == IF q.epoch = NoEntry THEN "decide" ELSE "set"
           s == [q EXCEPT !.grants = g, !.at = next]
<1>1. /\ q.at = "query" /\ Update(r, s)
      /\ UNCHANGED <<now, database, epoch, cache, begun, slowest>>
  BY DEF LoadGrantsFromDatabase
<1>2. u \in User
  BY <1>1, RequestType, AuthorizationAssumption DEF Sound
<1>3. g \in Grants
  <2>1. RolesOf(u) \subseteq Assignable
    BY DEF RolesOf
  <2>2. \A w \in seated[u] : w \in Workspace /\ SeatRole[u][w] \in WorkspaceRole
    BY <1>2, AuthorizationAssumption DEF IInv, SeatInv, Member
  <2> QED
    BY <2>1, <2>2, RequestType DEF Grants
<1>4. s \in RequestState
  BY <1>3, RequestType DEF RequestState, Step
<1>5. /\ s.at = next /\ s.grants = g /\ s.call = q.call /\ s.epoch = q.epoch
      /\ s.started = q.started /\ s.since = q.since
  BY RequestType DEF RequestState
<1>6. g.readAt = now /\ g.asOf = epoch
  OBVIOUS
<1>7. slowest >= 0
  BY DEF IInv, TypeOK, Time
<1>8. q.epoch \in Epoch \union {NoEntry}
  BY RequestType DEF RequestState
<1>9. s.at \in {"get", "set", "del"} => s.epoch \in Epoch
  BY <1>5, <1>8
<1>10. q.started <= now /\ now - q.started <= slowest /\ q.since <= epoch
       /\ q.call \in Calls /\ q.call.op # "reseat" /\ (q.epoch = NoEntry \/ q.epoch <= epoch)
  BY <1>1, RequestType DEF Sound
<1>11. Sound(s, now, epoch, slowest)
  <2> HIDE DEF s
  <2>1. s.grants.readAt = now /\ s.grants.asOf = epoch
    BY <1>5, <1>6
  <2>2. s.at \in {"decide", "set"} /\ (s.at = "set" => q.epoch # NoEntry)
    BY <1>5
  <2> HIDE DEF g, next
  <2>3. q.started - now < Ttl + slowest
    BY <1>7, <1>10, RequestType
  <2> QED
    BY <1>5, <1>7, <1>10, <2>1, <2>2, <2>3, RequestType DEF Sound
<1> QED
  BY <1>1, <1>4, <1>9, <1>11, QuietStep DEF IInv, TypeOK

(* Moving on to a step that needs no more than the request already has. *)
LEMMA GoToStep ==
    ASSUME IInv, NEW r \in Request, NEW step \in Step, GoTo(r, step),
           req[r].at # "idle",
           \/ step = "decide" /\ req[r].at = "set"
           \/ step = "invalidate" /\ req[r].call.op # "list"
    PROVE  /\ req' \in [Request -> RequestState]
           /\ \A i \in Request :
                req'[i].at \in {"get", "set", "del"} => req'[i].epoch \in Epoch
           /\ \A i \in Request : Sound(req'[i], now, epoch, slowest)
<1> DEFINE q == req[r]
           s == [q EXCEPT !.at = step]
<1>1. Update(r, s)
  BY DEF GoTo
<1>2. s \in RequestState
  BY RequestType DEF RequestState
<1>3. /\ s.at = step /\ s.call = q.call /\ s.grants = q.grants
      /\ s.started = q.started /\ s.since = q.since
  BY RequestType DEF RequestState
<1>4. Sound(s, now, epoch, slowest)
  BY <1>3, RequestType DEF Sound
<1>5. s.at \in {"get", "set", "del"} => s.epoch \in Epoch
  BY <1>3
<1> QED
  BY <1>1, <1>2, <1>4, <1>5, OneRequest

LEMMA WriteCachedGrantsInv ==
    ASSUME IInv, NEW r \in Request, WriteCachedGrants(r)
    PROVE  IInv'
<1> DEFINE q == req[r]
           key == <<q.epoch, q.call.user>>
           entry == [grants |-> q.grants, expiresAt |-> now + Ttl]
<1>1. /\ q.at = "set" /\ GoTo(r, "decide")
      /\ UNCHANGED <<now, database, epoch, begun, slowest>>
      /\ cache' = [cache EXCEPT ![key] = entry] \/ cache' = cache
  BY DEF WriteCachedGrants, buildCacheKey, ExpiresAt
<1>2. /\ req' \in [Request -> RequestState]
      /\ \A i \in Request :
           req'[i].at \in {"get", "set", "del"} => req'[i].epoch \in Epoch
      /\ \A i \in Request : Sound(req'[i], now, epoch, slowest)
  BY <1>1, GoToStep DEF Step
<1>3. key \in Epoch \X User /\ q.epoch \in Int
  BY <1>1, RequestType, AuthorizationAssumption DEF Sound, IInv, TypeOK, Epoch
<1>4. entry \in Entry
  BY RequestType, AuthorizationAssumption DEF Entry, IInv, TypeOK, Time
<1>5. Fresh(key, entry, now, slowest)
  <2>1. q.started <= q.grants.readAt /\ now - q.started <= slowest
        /\ q.epoch <= q.grants.asOf
    BY <1>1, RequestType DEF Sound
  <2>2. now < now + Ttl /\ now + Ttl <= q.grants.readAt + slowest + Ttl
    BY <2>1, RequestType
  <2> QED
    BY <2>1, <2>2 DEF Fresh
<1>6. cache \in [Epoch \X User -> Entry \union {NoEntry}] /\ CacheInv
  BY DEF IInv, TypeOK
<1>7. cache' \in [Epoch \X User -> Entry \union {NoEntry}]
  <2> HIDE DEF entry, key
  <2> QED BY <1>1, <1>3, <1>4, <1>6
<1>8. \A k \in Epoch \X User : cache'[k] \in {cache[k]} \/ (k = key /\ cache'[k] = entry)
  <2> HIDE DEF entry, key
  <2> QED BY <1>1, <1>3, <1>6
<1>9. \A k \in Epoch \X User : Fresh(k, cache'[k], now, slowest)
  <2> HIDE DEF entry, key
  <2> QED BY <1>5, <1>6, <1>8 DEF CacheInv
<1>10. TypeOK'
  BY <1>1, <1>2, <1>7 DEF IInv, TypeOK, database
<1>11. RequestInv' /\ CacheInv' /\ SeatInv'
  BY <1>1, <1>2, <1>9 DEF IInv, RequestInv, CacheInv, SeatInv, database
<1> QED
  BY <1>10, <1>11 DEF IInv

LEMMA AssignInv ==
    ASSUME IInv, NEW r \in Request, Assign(r)
    PROVE  IInv'
<1> DEFINE q == req[r]
           u == q.call.target
           p == q.call.role
<1>1. /\ q.at = "decide" /\ q.call.op = "assign" /\ GoTo(r, "invalidate")
      /\ UNCHANGED <<now, seated, epoch, cache, begun, slowest>>
      /\ userRole' = [userRole EXCEPT ![u][p] = IF @ = NoRow THEN q.number ELSE @]
      /\ held' = [held EXCEPT ![u] = @ \union {p}]
  BY DEF Assign, Admitted
<1>2. /\ req' \in [Request -> RequestState]
      /\ \A i \in Request :
           req'[i].at \in {"get", "set", "del"} => req'[i].epoch \in Epoch
      /\ \A i \in Request : Sound(req'[i], now, epoch, slowest)
  BY <1>1, GoToStep DEF Step
<1>3. u \in User /\ p \in Assignable
  BY <1>1, RequestType, AuthorizationAssumption DEF Sound
<1>4. q.number \in Row
  BY RequestType, AuthorizationAssumption DEF RequestState, Row
<1>5. userRole' \in [User -> [Assignable -> Row]] /\ held' \in [User -> SUBSET Authority]
  BY <1>1, <1>3, <1>4 DEF IInv, TypeOK, Authority
<1>6. TypeOK'
  BY <1>1, <1>2, <1>5 DEF IInv, TypeOK
<1>7. RequestInv' /\ CacheInv' /\ SeatInv'
  BY <1>1, <1>2 DEF IInv, RequestInv, CacheInv, SeatInv
<1> QED
  BY <1>6, <1>7 DEF IInv

LEMMA FindAssignmentInv ==
    ASSUME IInv, NEW r \in Request, FindAssignment(r)
    PROVE  IInv'
<1> DEFINE q == req[r]
           row == userRole[q.call.target][q.call.role]
           s == [q EXCEPT !.row = row, !.at = "delete"]
<1>1. /\ q.at = "decide" /\ q.call.op = "revoke"
      /\ UNCHANGED <<now, database, epoch, cache, begun, slowest>>
      /\ Finish(r) \/ Update(r, s)
  BY DEF FindAssignment, Admitted
<1>2. CASE Finish(r)
  BY <1>1, <1>2, FinishStep
<1>3. CASE Update(r, s)
  <2>1. row \in Row
    BY <1>1, RequestType, AuthorizationAssumption DEF Sound, IInv, TypeOK
  <2>2. s \in RequestState
    BY <2>1, RequestType DEF RequestState, Step
  <2>3. /\ s.at = "delete" /\ s.call = q.call /\ s.grants = q.grants
        /\ s.started = q.started /\ s.since = q.since
    BY RequestType DEF RequestState
  <2>4. Sound(s, now, epoch, slowest)
    BY <1>1, <2>3, RequestType DEF Sound
  <2> QED
    BY <1>1, <1>3, <2>2, <2>3, <2>4, QuietStep DEF IInv, TypeOK
<1> QED
  BY <1>1, <1>2, <1>3

LEMMA DeleteAssignmentInv ==
    ASSUME IInv, NEW r \in Request, DeleteAssignment(r)
    PROVE  IInv'
<1> DEFINE q == req[r]
           u == q.call.target
           p == q.call.role
<1>1. /\ q.at = "delete"
      /\ UNCHANGED <<now, seated, held, epoch, cache, begun, slowest>>
  BY DEF DeleteAssignment
<1>2. CASE userRole' = [userRole EXCEPT ![u][p] = NoRow] /\ GoTo(r, "invalidate")
  <2>1. u \in User /\ p \in Assignable /\ q.call.op = "revoke"
    BY <1>1, RequestType, AuthorizationAssumption DEF Sound
  <2>2. /\ req' \in [Request -> RequestState]
        /\ \A i \in Request :
             req'[i].at \in {"get", "set", "del"} => req'[i].epoch \in Epoch
        /\ \A i \in Request : Sound(req'[i], now, epoch, slowest)
    BY <1>1, <1>2, <2>1, GoToStep DEF Step
  <2>3. NoRow \in Row
    BY AuthorizationAssumption DEF NoRow, Row
  <2>4. userRole' \in [User -> [Assignable -> Row]]
    BY <1>2, <2>1, <2>3 DEF IInv, TypeOK
  <2>5. TypeOK'
    BY <1>1, <2>2, <2>4 DEF IInv, TypeOK
  <2>6. RequestInv' /\ CacheInv' /\ SeatInv'
    BY <1>1, <2>2 DEF IInv, RequestInv, CacheInv, SeatInv
  <2> QED
    BY <2>5, <2>6 DEF IInv
<1>3. CASE UNCHANGED userRole /\ Finish(r)
  BY <1>1, <1>3, FinishStep DEF database
<1> QED
  BY <1>2, <1>3 DEF DeleteAssignment

LEMMA ReseatInv ==
    ASSUME IInv, NEW r \in Request, NEW call \in Calls, Reseat(r, call)
    PROVE  IInv'
<1> DEFINE u == call.target
           w == call.workspace
           q == [Idle EXCEPT !.at = "invalidate", !.call = call,
                 !.number = begun + 1, !.started = now, !.since = epoch]
<1>1. Update(r, q) /\ begun < MaxRequests /\ begun' = begun + 1
  BY DEF Reseat, Start, Idle
<1>2. begun + 1 \in 0 .. MaxRequests
  BY <1>1, AuthorizationAssumption DEF IInv, TypeOK
<1>3. call.op = "reseat" /\ UNCHANGED <<now, userRole, held, epoch, cache, slowest>>
      /\ seated' = [seated EXCEPT ![u] = IF w \in @ THEN @ \ {w} ELSE @ \union {w}]
  BY DEF Reseat
<1>4. q \in RequestState
  BY <1>2, IdleType, AuthorizationAssumption DEF RequestState, Step, IInv, TypeOK
<1>5. q.at = "invalidate" /\ q.call = call /\ q.started = now /\ q.since = epoch
  BY DEF Idle
<1>6. Sound(q, now, epoch, slowest)
  BY <1>3, <1>5 DEF Sound, IInv, TypeOK, Time, Epoch
<1>7. /\ req' \in [Request -> RequestState]
      /\ \A i \in Request :
           req'[i].at \in {"get", "set", "del"} => req'[i].epoch \in Epoch
      /\ \A i \in Request : Sound(req'[i], now, epoch, slowest)
  BY <1>1, <1>4, <1>5, <1>6, OneRequest
<1>8. u \in User /\ w \in Workspace /\ w \in Member(u)
  BY <1>3, AuthorizationAssumption DEF Member
<1>9. seated' \in [User -> SUBSET Workspace] /\ SeatInv'
  BY <1>3, <1>8 DEF IInv, TypeOK, SeatInv, Member
<1>10. TypeOK'
  BY <1>1, <1>2, <1>3, <1>7, <1>9 DEF IInv, TypeOK
<1>11. RequestInv' /\ CacheInv'
  BY <1>3, <1>7 DEF IInv, RequestInv, CacheInv
<1> QED
  BY <1>9, <1>10, <1>11 DEF IInv

LEMMA InvalidateUserInv ==
    ASSUME IInv, NEW r \in Request, InvalidateUser(r)
    PROVE  IInv'
<1> DEFINE q == req[r]
           s == [q EXCEPT !.epoch = epoch, !.at = "del"]
<1>1. /\ q.at = "invalidate"
      /\ UNCHANGED <<now, database, epoch, cache, begun, slowest>>
      /\ Finish(r) \/ Update(r, s)
  BY DEF InvalidateUser, ReadEpoch
<1>2. CASE Finish(r)
  BY <1>1, <1>2, FinishStep
<1>3. CASE Update(r, s)
  <2>1. s \in RequestState
    BY RequestType DEF RequestState, Step
  <2>2. /\ s.at = "del" /\ s.call = q.call /\ s.epoch = epoch
        /\ s.started = q.started /\ s.since = q.since
    BY RequestType DEF RequestState
  <2>3. Sound(s, now, epoch, slowest)
    BY <1>1, <2>2, RequestType DEF Sound
  <2> QED
    BY <1>1, <1>3, <2>1, <2>2, <2>3, RequestType, QuietStep
<1> QED
  BY <1>1, <1>2, <1>3

LEMMA DeleteCachedGrantsInv ==
    ASSUME IInv, NEW r \in Request, DeleteCachedGrants(r)
    PROVE  IInv'
<1> DEFINE q == req[r]
           key == <<q.epoch, q.call.target>>
<1>1. /\ q.at = "del" /\ Update(r, Idle)
      /\ UNCHANGED <<now, database, epoch, begun, slowest>>
      /\ cache' = [cache EXCEPT ![key] = NoEntry] \/ cache' = cache
  BY DEF DeleteCachedGrants, buildCacheKey, Finish
<1>2. Idle.at = "idle"
  BY DEF Idle
<1>3. Sound(Idle, now, epoch, slowest)
  BY <1>2 DEF Sound
<1>4. /\ req' \in [Request -> RequestState]
      /\ \A i \in Request :
           req'[i].at \in {"get", "set", "del"} => req'[i].epoch \in Epoch
      /\ \A i \in Request : Sound(req'[i], now, epoch, slowest)
  BY <1>1, <1>2, <1>3, IdleType, OneRequest
<1>5. key \in Epoch \X User
  BY <1>1, RequestType, AuthorizationAssumption DEF Sound, IInv, TypeOK
<1>6. cache \in [Epoch \X User -> Entry \union {NoEntry}] /\ CacheInv
  BY DEF IInv, TypeOK
<1>7. /\ cache' \in [Epoch \X User -> Entry \union {NoEntry}]
      /\ \A k \in Epoch \X User : cache'[k] \in {cache[k], NoEntry}
  <2> HIDE DEF key
  <2> QED BY <1>1, <1>5, <1>6
<1>8. \A k \in Epoch \X User : Fresh(k, cache'[k], now, slowest)
  BY <1>6, <1>7 DEF CacheInv, Fresh
<1>9. TypeOK'
  BY <1>1, <1>4, <1>7 DEF IInv, TypeOK, database
<1>10. RequestInv' /\ CacheInv' /\ SeatInv'
  BY <1>1, <1>4, <1>8 DEF IInv, RequestInv, CacheInv, SeatInv, database
<1> QED
  BY <1>9, <1>10 DEF IInv

----------------------------------------------------------------------------
(* The steps of no request: an epoch bump and the clock. *)

(* What a request has in hand stays sound as the epoch grows. *)
LEMMA InvalidateAllUsersInv ==
    ASSUME IInv, InvalidateAllUsers
    PROVE  IInv'
<1>1. epoch < MaxEpoch /\ epoch' = epoch + 1
      /\ UNCHANGED <<now, database, cache, req, begun, slowest>>
  BY DEF InvalidateAllUsers
<1>2. epoch \in Int /\ epoch' \in Epoch
  BY <1>1, AuthorizationAssumption DEF IInv, TypeOK, Epoch
<1>3. TypeOK'
  BY <1>1, <1>2 DEF IInv, TypeOK, database
<1>4. ASSUME NEW r \in Request
      PROVE  Sound(req[r], now, epoch + 1, slowest)
  <2>1. req[r].epoch = NoEntry \/ req[r].epoch \in Int
    BY RequestType DEF RequestState, Epoch
  <2> QED
    BY <1>2, <2>1, RequestType DEF Sound
<1>5. RequestInv'
  BY <1>1, <1>4 DEF RequestInv
<1>6. CacheInv' /\ SeatInv'
  BY <1>1 DEF IInv, CacheInv, SeatInv, database
<1> QED
  BY <1>3, <1>5, <1>6 DEF IInv

(* The clock moves on: slowest keeps up with every request in flight, and  *)
(* Redis forgets what is over.                                             *)
LEMMA TickInv ==
    ASSUME IInv, Tick
    PROVE  IInv'
<1> DEFINE taken == {slowest} \union
                    {now + 1 - req[r].started : r \in {q \in Request : Active(q)}}
<1>1. /\ now < MaxTime /\ now' = now + 1
      /\ slowest' \in taken /\ \A t \in taken : t <= slowest'
      /\ UNCHANGED <<database, epoch, req, begun>>
      /\ cache' = [key \in DOMAIN cache |->
            IF cache[key] # NoEntry /\ cache[key].expiresAt <= now + 1
            THEN NoEntry ELSE cache[key]]
  BY DEF Tick
<1>2. now \in Time /\ slowest \in Time /\ now + 1 \in Time
  BY <1>1, AuthorizationAssumption DEF IInv, TypeOK, Time
<1>3. ASSUME NEW r \in Request, Active(r)
      PROVE  now + 1 - req[r].started \in Time
  <2>1. req[r].started <= now /\ req[r].started \in Time
    BY <1>3, RequestType DEF Sound, Active, RequestState
  <2> QED
    BY <1>2, <2>1, AuthorizationAssumption DEF Time
<1>4. slowest' \in Time /\ slowest <= slowest'
  BY <1>1, <1>2, <1>3
<1>5. \A r \in Request : Active(r) => now + 1 - req[r].started <= slowest'
  BY <1>1
<1>6. cache \in [Epoch \X User -> Entry \union {NoEntry}] /\ CacheInv
  BY DEF IInv, TypeOK
<1>7. /\ cache' \in [Epoch \X User -> Entry \union {NoEntry}]
      /\ \A k \in Epoch \X User :
           cache'[k] = IF cache[k] # NoEntry /\ cache[k].expiresAt <= now + 1
                       THEN NoEntry ELSE cache[k]
  BY <1>1, <1>6
<1>8. TypeOK'
  BY <1>1, <1>2, <1>4, <1>7 DEF IInv, TypeOK, database
<1>9. ASSUME NEW r \in Request
      PROVE  Sound(req[r], now + 1, epoch, slowest')
  <2>1. CASE ~Active(r)
    BY <2>1 DEF Active, Sound
  <2>2. CASE Active(r)
    <3>1. now + 1 - req[r].started <= slowest' /\ slowest' \in Int
      BY <1>4, <1>5, <2>2 DEF Time
    <3>2. req[r].started <= now + 1
      BY <2>2, RequestType DEF Sound, Active
    <3>3. req[r].started - req[r].grants.readAt < Ttl + slowest
            => req[r].started - req[r].grants.readAt < Ttl + slowest'
      BY <1>4, <3>1, RequestType
    <3> QED
      BY <2>2, <3>1, <3>2, <3>3, RequestType DEF Sound, Active
  <2> QED
    BY <2>1, <2>2
<1>10. RequestInv'
  BY <1>1, <1>9 DEF RequestInv
<1>11. ASSUME NEW k \in Epoch \X User
       PROVE  Fresh(k, cache'[k], now + 1, slowest')
  <2>1. CASE cache'[k] = NoEntry
    BY <2>1 DEF Fresh
  <2>2. CASE cache'[k] # NoEntry
    <3>1. cache'[k] = cache[k] /\ ~(cache[k].expiresAt <= now + 1)
      BY <1>7, <2>2
    <3>2. cache[k] \in Entry /\ Fresh(k, cache[k], now, slowest)
      BY <1>6, <2>2, <3>1 DEF CacheInv
    <3>3. cache[k].expiresAt \in Nat /\ cache[k].grants \in Grants
      BY <3>2 DEF Entry
    <3>4. cache[k].grants.readAt \in Int
      BY <3>3 DEF Grants, Time
    <3>5. now + 1 < cache[k].expiresAt
      BY <1>2, <3>1, <3>3 DEF Time
    <3>6. cache[k].expiresAt <= cache[k].grants.readAt + slowest' + Ttl
      BY <1>2, <1>4, <2>2, <3>1, <3>2, <3>3, <3>4, AuthorizationAssumption DEF Fresh, Time
    <3> QED
      BY <2>2, <3>1, <3>2, <3>5, <3>6 DEF Fresh
  <2> QED
    BY <2>1, <2>2
<1>12. CacheInv' /\ SeatInv'
  BY <1>1, <1>11 DEF IInv, CacheInv, SeatInv, database
<1> QED
  BY <1>8, <1>10, <1>12 DEF IInv

----------------------------------------------------------------------------
(* Every step preserves the invariant. *)
LEMMA NextInv == IInv /\ [Next]_vars => IInv'
<1> SUFFICES ASSUME IInv, [Next]_vars PROVE IInv'
  OBVIOUS
<1>1. ASSUME NEW r \in Request, NEW call \in Calls, Begin(r, call) \/ Reseat(r, call)
      PROVE  IInv'
  BY <1>1, BeginInv, ReseatInv
<1>2. ASSUME NEW r \in Request,
             \/ ReadCachedGrants(r) \/ LoadGrantsFromDatabase(r) \/ WriteCachedGrants(r)
             \/ Assign(r) \/ FindAssignment(r) \/ DeleteAssignment(r)
             \/ InvalidateUser(r) \/ DeleteCachedGrants(r)
      PROVE  IInv'
  BY <1>2, ReadCachedGrantsInv, LoadGrantsFromDatabaseInv, WriteCachedGrantsInv,
     AssignInv, FindAssignmentInv, DeleteAssignmentInv, InvalidateUserInv,
     DeleteCachedGrantsInv
<1>3. ASSUME NEW r \in Request, Refuse(r) \/ FindPaginated(r) \/ Die(r)
      PROVE  IInv'
  BY <1>3, FinishStep DEF Refuse, FindPaginated, Die
<1>4. CASE InvalidateAllUsers
  BY <1>4, InvalidateAllUsersInv
<1>5. CASE Tick
  BY <1>5, TickInv
<1>6. CASE UNCHANGED vars
  BY <1>6 DEF vars, database, IInv, TypeOK, RequestInv, CacheInv, SeatInv
<1> QED
  BY <1>1, <1>2, <1>3, <1>4, <1>5, <1>6 DEF Next

(* The invariant says how old the grants of a decision may be, and of      *)
(* which epoch.                                                            *)
LEMMA InvSuffices == IInv => TypeOK /\ StaleGrantsAgeOut /\ EpochIsFinal
<1> SUFFICES ASSUME IInv PROVE TypeOK /\ StaleGrantsAgeOut /\ EpochIsFinal
  OBVIOUS
<1>1. TypeOK
  BY DEF IInv
<1>2. ASSUME NEW r \in Request, Decides(r)
      PROVE  /\ now - req[r].grants.readAt < Ttl + 2 * slowest
             /\ req[r].grants.asOf >= req[r].since
  <2>1. /\ now - req[r].started <= slowest
        /\ req[r].started - req[r].grants.readAt < Ttl + slowest
        /\ req[r].since <= req[r].grants.asOf
    BY <1>2, RequestType DEF Sound, Decides
  <2> QED
    BY <2>1, RequestType
<1> QED
  BY <1>1, <1>2 DEF StaleGrantsAgeOut, EpochIsFinal

(* Every variable of the cache and of the requests keeps its type in every *)
(* reachable state: in particular a request that is about to GET, SET or   *)
(* DEL has read an epoch (permission-loader.service.ts builds no key from  *)
(* null).                                                                  *)
THEOREM TypeCorrect == Spec => []TypeOK
<1>1. IInv => TypeOK
  BY InvSuffices
<1> QED
  BY InitInv, NextInv, <1>1, PTL DEF Spec

(* However many requests load, write back and drop grants at once, and     *)
(* whichever Redis calls fail, no decision uses grants read longer ago     *)
(* than the TTL and two request times.                                     *)
THEOREM GrantsAgeOut == Spec => []StaleGrantsAgeOut
<1>1. IInv => StaleGrantsAgeOut
  BY InvSuffices
<1> QED
  BY InitInv, NextInv, <1>1, PTL DEF Spec

(* invalidateAllUsers is final: a request that starts after the INCR is    *)
(* never decided on grants read before it, although loads begun earlier    *)
(* keep writing to the cache.                                              *)
THEOREM EpochFinal == Spec => []EpochIsFinal
<1>1. IInv => EpochIsFinal
  BY InvSuffices
<1> QED
  BY InitInv, NextInv, <1>1, PTL DEF Spec

----------------------------------------------------------------------------
(* The catalogue: what the permissions of the roles amount to. *)

LEMMA RoleNames ==
    /\ PlatformRole = {"PLATFORM_ADMIN", "PLATFORM_ENGINEER",
                       "PLATFORM_TECHNICAL_SUPPORT", "PLATFORM_APP_SUPPORT"}
    /\ WorkspaceRole = {"WORKSPACE_OWNER", "WORKSPACE_ADMIN",
                        "WORKSPACE_MANAGER", "WORKSPACE_STAFF"}
BY DEF PlatformRole, WorkspaceRole, SeededRole, ROLE_DEFINITION_CATALOG, Role

(* Of the platform roles, only the administrator's may assign roles. *)
LEMMA OnlyAdminAssigns ==
    ASSUME NEW p \in PlatformRole,
           NEW x \in ROLE_DEFINITION_CATALOG[p].permissions,
           x.action \in {"assignRole", "manage"}, x.subject \in {"User", "all"}
    PROVE  p = "PLATFORM_ADMIN"
<1>1. CASE p = "PLATFORM_ENGINEER"
  BY <1>1 DEF ROLE_DEFINITION_CATALOG, Role, AnyRecord, Platform
<1>2. CASE p = "PLATFORM_TECHNICAL_SUPPORT"
  BY <1>2 DEF ROLE_DEFINITION_CATALOG, Role, AnyRecord, Platform
<1>3. CASE p = "PLATFORM_APP_SUPPORT"
  BY <1>3 DEF ROLE_DEFINITION_CATALOG, Role, AnyRecord, Platform
<1> QED
  BY <1>1, <1>2, <1>3, RoleNames

(* A seat's permissions are about its workspace and its roster. *)
LEMMA SeatsStayInside ==
    ASSUME NEW p \in WorkspaceRole,
           NEW x \in ROLE_DEFINITION_CATALOG[p].permissions
    PROVE  x.subject \in {"Workspace", "WorkspaceMembership", "WorkspaceInvitation"}
<1>1. CASE p = "WORKSPACE_OWNER"
  BY <1>1 DEF ROLE_DEFINITION_CATALOG, Role, Inside, InWorkspace
<1>2. CASE p = "WORKSPACE_ADMIN"
  BY <1>2 DEF ROLE_DEFINITION_CATALOG, Role, Inside, InWorkspace
<1>3. CASE p = "WORKSPACE_MANAGER"
  BY <1>3 DEF ROLE_DEFINITION_CATALOG, Role, Inside, InWorkspace
<1>4. CASE p = "WORKSPACE_STAFF"
  BY <1>4 DEF ROLE_DEFINITION_CATALOG, Role, Inside, InWorkspace
<1> QED
  BY <1>1, <1>2, <1>3, <1>4, RoleNames

(* What every account holds assigns nothing, and of memberships it reads    *)
(* one's own.                                                              *)
LEMMA EveryonesPermissions ==
    ASSUME NEW x \in AUTHENTICATED_USER_PERMISSIONS
    PROVE  /\ ~(x.action \in {"assignRole", "manage"} /\ x.subject \in {"User", "all"})
           /\ x.subject \in {"WorkspaceMembership", "all"} =>
                x.ownership = "OWN" /\ x.subject = "WorkspaceMembership"
BY DEF AUTHENTICATED_USER_PERMISSIONS, AnyRecord, OwnRecord, Platform

----------------------------------------------------------------------------
(* Where authority comes from: grants, cached or in hand, hold nothing     *)
(* their user, whose history is past, has never held.                      *)
Honest(grants, past) ==
    /\ grants.roles \subseteq past
    /\ \A seat \in grants.seats : seat[1] \in past

HeldInv ==
    /\ \A u \in User : Member(u) \union RolesOf(u) \subseteq held[u]
    /\ \A r \in Request : req[r].at \in {"set", "decide", "delete"}
                            => Honest(req[r].grants, held[req[r].call.user])
    /\ \A key \in Epoch \X User :
        cache[key] # NoEntry => Honest(cache[key].grants, held[key[2]])

LEMMA InitHeld == Init => HeldInv
<1> SUFFICES ASSUME Init PROVE HeldInv
  OBVIOUS
<1>1. ASSUME NEW u \in User
      PROVE  Member(u) \union RolesOf(u) \subseteq held[u]
  <2>1. \A p \in RolesOf(u) : u = FirstAdmin /\ p = "PLATFORM_ADMIN"
    BY DEF Init, RolesOf, NoRow
  <2> QED
    BY <2>1 DEF Init
<1>2. \A r \in Request : req[r].at = "idle"
  BY DEF Init, Idle
<1>3. \A key \in Epoch \X User : cache[key] = NoEntry
  BY DEF Init
<1> QED
  BY <1>1, <1>2, <1>3 DEF HeldInv

(* A request's step keeps it if the grants it then holds are honest, the   *)
(* histories only grow, and with the roles, and what it caches is honest.  *)
LEMMA HeldStep ==
    ASSUME IInv, HeldInv, NEW r \in Request, NEW q, Update(r, q),
           q.at \in {"set", "decide", "delete"}
             => q.call.user \in User /\ Honest(q.grants, held[q.call.user]),
           \A u \in User : held[u] \subseteq held'[u],
           \A u \in User : RolesOf(u)' \subseteq held'[u],
           \A key \in Epoch \X User :
               cache'[key] # NoEntry => Honest(cache'[key].grants, held[key[2]])
    PROVE  HeldInv'
<1>1. \A i \in Request : req'[i] = IF i = r THEN q ELSE req[i]
  BY DEF Update, IInv, TypeOK
<1>2. ASSUME NEW i \in Request, req'[i].at \in {"set", "decide", "delete"}
      PROVE  Honest(req'[i].grants, held'[req'[i].call.user])
  <2>1. CASE i = r
    BY <1>1, <1>2, <2>1 DEF Honest
  <2>2. CASE i # r
    <3>1. req'[i] = req[i] /\ req[i].at \in {"set", "decide", "delete"}
      BY <1>1, <1>2, <2>2
    <3>2. req[i].call.user \in User
      BY <3>1, RequestType, AuthorizationAssumption DEF Sound
    <3> QED
      BY <3>1, <3>2 DEF HeldInv, Honest
  <2> QED
    BY <2>1, <2>2
<1>3. ASSUME NEW key \in Epoch \X User, cache'[key] # NoEntry
      PROVE  Honest(cache'[key].grants, held'[key[2]])
  BY <1>3 DEF Honest
<1>4. \A u \in User : (Member(u) \union RolesOf(u))' \subseteq held'[u]
  BY DEF HeldInv, Member
<1> QED
  BY <1>2, <1>3, <1>4 DEF HeldInv

(* Steps that touch neither the database nor the cache. *)
LEMMA HeldQuiet ==
    ASSUME IInv, HeldInv, NEW r \in Request, NEW q, Update(r, q),
           UNCHANGED <<userRole, held, cache>>,
           q.at \in {"set", "decide", "delete"}
             => q.call.user \in User /\ Honest(q.grants, held[q.call.user])
    PROVE  HeldInv'
<1>1. \A u \in User : RolesOf(u)' \subseteq held'[u]
  BY DEF HeldInv, RolesOf
<1>2. \A key \in Epoch \X User :
        cache'[key] # NoEntry => Honest(cache'[key].grants, held[key[2]])
  BY DEF HeldInv
<1> QED
  BY <1>1, <1>2, HeldStep

(* A request that is over holds nothing. *)
LEMMA HeldFinish ==
    ASSUME IInv, HeldInv, NEW r \in Request, Finish(r),
           UNCHANGED <<userRole, held, cache>>
    PROVE  HeldInv'
BY HeldQuiet DEF Finish, Idle

LEMMA BeginHeld ==
    ASSUME IInv, HeldInv, NEW r \in Request, NEW call \in Calls,
           Begin(r, call) \/ Reseat(r, call)
    PROVE  HeldInv'
<1> DEFINE q(s) == [s EXCEPT !.call = call, !.number = begun + 1,
                    !.started = now, !.since = epoch]
<1>1. UNCHANGED <<userRole, held, cache>>
  BY DEF Begin, Reseat, database
<1>2. CASE Reseat(r, call)
  <2> DEFINE s == [Idle EXCEPT !.at = "invalidate"]
  <2>1. Update(r, q(s))
    BY <1>2 DEF Reseat, Start
  <2>2. q(s).at = "invalidate"
    BY DEF Idle
  <2> QED
    BY <1>1, <2>1, <2>2, HeldQuiet
<1>3. CASE Begin(r, call)
  <2>1. PICK e \in {ReadEpoch, UnreadableEpoch} :
          Update(r, q([Idle EXCEPT !.epoch = e, !.at = AfterEpoch(e)]))
    BY <1>3 DEF Begin, Start
  <2> DEFINE s == [Idle EXCEPT !.epoch = e, !.at = AfterEpoch(e)]
  <2>2. q(s).at \in {"get", "query"}
    BY DEF Idle, AfterEpoch
  <2> QED
    BY <1>1, <2>1, <2>2, HeldQuiet
<1> QED
  BY <1>2, <1>3

LEMMA ReadCachedGrantsHeld ==
    ASSUME IInv, HeldInv, NEW r \in Request, ReadCachedGrants(r)
    PROVE  HeldInv'
<1> DEFINE q == req[r]
           key == <<q.epoch, q.call.user>>
           s == [q EXCEPT !.at = "decide", !.grants = cache[key].grants]
<1>1. /\ q.at = "get" /\ UNCHANGED <<userRole, held, cache>>
      /\ (cache[key] # NoEntry /\ Update(r, s)) \/ GoTo(r, "query")
  BY DEF ReadCachedGrants, buildCacheKey, database
<1>2. key \in Epoch \X User /\ q.call.user \in User
  BY <1>1, RequestType, AuthorizationAssumption DEF Sound, IInv, TypeOK
<1>3. s.call = q.call /\ s.grants = cache[key].grants
  BY RequestType DEF RequestState
<1>4. [q EXCEPT !.at = "query"].at = "query"
  BY RequestType DEF RequestState
<1>5. CASE cache[key] # NoEntry /\ Update(r, s)
  BY <1>1, <1>2, <1>3, <1>5, HeldQuiet DEF HeldInv
<1>6. CASE GoTo(r, "query")
  BY <1>1, <1>4, <1>6, HeldQuiet DEF GoTo
<1> QED
  BY <1>1, <1>5, <1>6

LEMMA LoadGrantsFromDatabaseHeld ==
    ASSUME IInv, HeldInv, NEW r \in Request, LoadGrantsFromDatabase(r)
    PROVE  HeldInv'
<1> DEFINE q == req[r]
           u == q.call.user
           g == [roles |-> RolesOf(u),
                 seats |-> {<<w, SeatRole[u][w]>> : w \in seated[u]},
                 readAt |-> now, asOf |-> epoch]
           next == IF q.epoch = NoEntry THEN "decide" ELSE "set"
           s == [q EXCEPT !.grants = g, !.at = next]
<1>1. q.at = "query" /\ Update(r, s) /\ UNCHANGED <<userRole, held, cache>>
  BY DEF LoadGrantsFromDatabase, database
<1>2. u \in User
  BY <1>1, RequestType, AuthorizationAssumption DEF Sound
<1>3. Honest(g, held[u])
  BY <1>2 DEF Honest, HeldInv, IInv, SeatInv
<1>4. s.grants = g /\ s.call = q.call
  BY RequestType DEF RequestState
<1> QED
  BY <1>1, <1>2, <1>3, <1>4, HeldQuiet

LEMMA WriteCachedGrantsHeld ==
    ASSUME IInv, HeldInv, NEW r \in Request, WriteCachedGrants(r)
    PROVE  HeldInv'
<1> DEFINE q == req[r]
           key == <<q.epoch, q.call.user>>
           entry == [grants |-> q.grants, expiresAt |-> now + Ttl]
           s == [q EXCEPT !.at = "decide"]
<1>1. /\ q.at = "set" /\ Update(r, s) /\ UNCHANGED <<userRole, held>>
      /\ cache' = [cache EXCEPT ![key] = entry] \/ cache' = cache
  BY DEF WriteCachedGrants, buildCacheKey, ExpiresAt, GoTo, database
<1>2. q.call.user \in User /\ Honest(q.grants, held[q.call.user])
  BY <1>1, RequestType, AuthorizationAssumption DEF Sound, HeldInv
<1>3. s.call = q.call /\ s.grants = q.grants
  BY RequestType DEF RequestState
<1>4. ASSUME NEW k \in Epoch \X User, cache'[k] # NoEntry
      PROVE  Honest(cache'[k].grants, held[k[2]])
  <2>1. CASE cache'[k] = cache[k]
    BY <1>4, <2>1 DEF HeldInv
  <2>2. CASE cache'[k] # cache[k]
    <3>1. k = key /\ cache'[k] = entry
      BY <1>1, <2>2 DEF IInv, TypeOK
    <3> QED
      BY <1>2, <3>1
  <2> QED
    BY <2>1, <2>2
<1>5. \A u \in User : RolesOf(u)' \subseteq held'[u]
  BY <1>1 DEF HeldInv, RolesOf
<1> QED
  BY <1>1, <1>2, <1>3, <1>4, <1>5, HeldStep

LEMMA AssignHeld ==
    ASSUME IInv, HeldInv, NEW r \in Request, Assign(r)
    PROVE  HeldInv'
<1> DEFINE q == req[r]
           t == q.call.target
           p == q.call.role
           s == [q EXCEPT !.at = "invalidate"]
<1>1. /\ q.at = "decide" /\ q.call.op = "assign" /\ Update(r, s) /\ cache' = cache
      /\ userRole' = [userRole EXCEPT ![t][p] = IF @ = NoRow THEN q.number ELSE @]
      /\ held' = [held EXCEPT ![t] = @ \union {p}]
  BY DEF Assign, Admitted, GoTo
<1>2. t \in User /\ p \in Assignable
  BY <1>1, RequestType, AuthorizationAssumption DEF Sound
<1>3. s.at = "invalidate"
  BY RequestType DEF RequestState
<1>4. \A u \in User : held'[u] = IF u = t THEN held[u] \union {p} ELSE held[u]
  BY <1>1 DEF IInv, TypeOK
<1>5. \A u \in User, o \in Assignable :
        userRole'[u][o] # userRole[u][o] => u = t /\ o = p
  BY <1>1 DEF IInv, TypeOK
<1>6. ASSUME NEW u \in User, NEW o \in Assignable, userRole'[u][o] # NoRow
      PROVE  o \in held'[u]
  <2>1. CASE u = t /\ o = p
    BY <1>4, <2>1
  <2>2. CASE ~(u = t /\ o = p)
    <3>1. o \in RolesOf(u)
      BY <1>5, <1>6, <2>2 DEF RolesOf
    <3> QED
      BY <1>4, <3>1 DEF HeldInv
  <2> QED
    BY <2>1, <2>2
<1>7. \A k \in Epoch \X User :
        cache'[k] # NoEntry => Honest(cache'[k].grants, held[k[2]])
  BY <1>1 DEF HeldInv
<1>8. \A u \in User : RolesOf(u)' \subseteq held'[u]
  BY <1>6 DEF RolesOf
<1>9. \A u \in User : held[u] \subseteq held'[u]
  BY <1>4
<1> HIDE DEF s
<1> QED
  BY <1>1, <1>3, <1>7, <1>8, <1>9, HeldStep

LEMMA FindAssignmentHeld ==
    ASSUME IInv, HeldInv, NEW r \in Request, FindAssignment(r)
    PROVE  HeldInv'
<1> DEFINE q == req[r]
           row == userRole[q.call.target][q.call.role]
           s == [q EXCEPT !.row = row, !.at = "delete"]
<1>1. /\ q.at = "decide" /\ UNCHANGED <<userRole, held, cache>>
      /\ Finish(r) \/ Update(r, s)
  BY DEF FindAssignment, Admitted, database
<1>2. s.call = q.call /\ s.grants = q.grants
  BY RequestType DEF RequestState
<1>3. q.call.user \in User /\ Honest(q.grants, held[q.call.user])
  BY <1>1, RequestType, AuthorizationAssumption DEF Sound, HeldInv
<1> QED
  BY <1>1, <1>2, <1>3, HeldQuiet, HeldFinish

(* A revocation and a dropped entry take away; what is left is honest. *)
LEMMA DeleteAssignmentHeld ==
    ASSUME IInv, HeldInv, NEW r \in Request, DeleteAssignment(r)
    PROVE  HeldInv'
<1> DEFINE q == req[r]
           t == q.call.target
           p == q.call.role
           s == [q EXCEPT !.at = "invalidate"]
<1>1. UNCHANGED <<held, cache>>
  BY DEF DeleteAssignment
<1>2. CASE userRole' = userRole /\ Finish(r)
  BY <1>1, <1>2, HeldFinish
<1>3. CASE userRole' = [userRole EXCEPT ![t][p] = NoRow] /\ Update(r, s)
  <2>1. s.at = "invalidate"
    BY RequestType DEF RequestState
  <2>2. \A u \in User : RolesOf(u)' \subseteq RolesOf(u)
    BY <1>3 DEF IInv, TypeOK, RolesOf
  <2>3. \A u \in User : RolesOf(u)' \subseteq held'[u]
    BY <1>1, <2>2 DEF HeldInv
  <2>4. \A k \in Epoch \X User :
          cache'[k] # NoEntry => Honest(cache'[k].grants, held[k[2]])
    BY <1>1 DEF HeldInv
  <2> QED
    BY <1>1, <1>3, <2>1, <2>3, <2>4, HeldStep
<1> QED
  BY <1>2, <1>3 DEF DeleteAssignment, GoTo

LEMMA DropHeld ==
    ASSUME IInv, HeldInv, NEW r \in Request, InvalidateUser(r) \/ DeleteCachedGrants(r)
    PROVE  HeldInv'
<1>1. CASE InvalidateUser(r)
  <2>1. [req[r] EXCEPT !.epoch = epoch, !.at = "del"].at = "del"
    BY RequestType DEF RequestState
  <2> QED
    BY <1>1, <2>1, HeldQuiet, HeldFinish DEF InvalidateUser, ReadEpoch, database
<1>2. CASE DeleteCachedGrants(r)
  <2> DEFINE key == <<req[r].epoch, req[r].call.target>>
  <2>1. /\ Update(r, Idle) /\ UNCHANGED <<userRole, held>>
        /\ cache' = [cache EXCEPT ![key] = NoEntry] \/ cache' = cache
    BY <1>2 DEF DeleteCachedGrants, buildCacheKey, Finish, database
  <2> HIDE DEF key
  <2>2. \A k \in Epoch \X User : cache'[k] \in {cache[k], NoEntry}
    BY <2>1 DEF IInv, TypeOK
  <2>3. \A k \in Epoch \X User :
          cache'[k] # NoEntry => Honest(cache'[k].grants, held[k[2]])
    BY <2>2 DEF HeldInv
  <2>4. \A u \in User : RolesOf(u)' \subseteq held'[u]
    BY <2>1 DEF HeldInv, RolesOf
  <2> QED
    BY <2>1, <2>3, <2>4, HeldStep DEF Idle
<1> QED
  BY <1>1, <1>2

LEMMA TickHeld ==
    ASSUME IInv, HeldInv, Tick
    PROVE  HeldInv'
<1>1. \A k \in Epoch \X User : cache'[k] \in {cache[k], NoEntry}
  BY DEF Tick, IInv, TypeOK
<1>2. UNCHANGED <<userRole, held, req>>
  BY DEF Tick, database
<1> QED
  BY <1>1, <1>2 DEF HeldInv, Member, RolesOf

LEMMA NextHeld == IInv /\ HeldInv /\ [Next]_vars => HeldInv'
<1> SUFFICES ASSUME IInv, HeldInv, [Next]_vars PROVE HeldInv'
  OBVIOUS
<1>1. ASSUME NEW r \in Request, NEW call \in Calls, Begin(r, call) \/ Reseat(r, call)
      PROVE  HeldInv'
  BY <1>1, BeginHeld
<1>2. ASSUME NEW r \in Request,
             \/ ReadCachedGrants(r) \/ LoadGrantsFromDatabase(r) \/ WriteCachedGrants(r)
             \/ Assign(r) \/ FindAssignment(r) \/ DeleteAssignment(r)
             \/ InvalidateUser(r) \/ DeleteCachedGrants(r)
      PROVE  HeldInv'
  BY <1>2, ReadCachedGrantsHeld, LoadGrantsFromDatabaseHeld, WriteCachedGrantsHeld,
     AssignHeld, FindAssignmentHeld, DeleteAssignmentHeld, DropHeld
<1>3. ASSUME NEW r \in Request, Refuse(r) \/ FindPaginated(r) \/ Die(r)
      PROVE  HeldInv'
  BY <1>3, HeldFinish DEF Refuse, FindPaginated, Die, database
<1>4. CASE InvalidateAllUsers \/ UNCHANGED vars
  BY <1>4 DEF InvalidateAllUsers, vars, database, HeldInv, Member, RolesOf
<1>5. CASE Tick
  BY <1>5, TickHeld
<1> QED
  BY <1>1, <1>2, <1>3, <1>4, <1>5 DEF Next

----------------------------------------------------------------------------
(* A rule of an ability comes from a permission every account holds, from  *)
(* one of the platform roles, or from a seat, and is then tied to it.      *)
LEMMA RuleOrigin ==
    ASSUME IInv, NEW r \in Request, req[r].at = "decide", NEW rule \in Ability(r)
    PROVE  \/ \E x \in AUTHENTICATED_USER_PERMISSIONS :
                rule = grant(x, req[r].call.user)
           \/ \E p \in req[r].grants.roles :
                \E x \in ROLE_DEFINITION_CATALOG[p].permissions :
                  rule = grant(x, req[r].call.user)
           \/ \E seat \in req[r].grants.seats :
                \E x \in ROLE_DEFINITION_CATALOG[seat[2]].permissions :
                  rule = WorkspaceRule(x, seat[1])
BY DEF Ability, createForUser, AsGrants

(* Only an administrator's rules let anyone assign a role. *)
LEMMA AssignersAreAdmins ==
    ASSUME IInv, HeldInv, NEW r \in Request, Admitted(r), req[r].call.op = "assign"
    PROVE  "PLATFORM_ADMIN" \in held[req[r].call.user]
<1>1. PICK rule \in Ability(r) :
        rule.action \in {"assignRole", "manage"} /\ rule.subject \in {"User", "all"}
  BY DEF Admitted, Permitted, canActivate, RouteOf, Route, hasNonOwnerScopedRule,
         rulesFor
<1>2. req[r].at = "decide"
  BY DEF Admitted
<1>3. \A x, u : grant(x, u).action = x.action /\ grant(x, u).subject = x.subject
  BY DEF grant, Rule
<1>4. /\ req[r].grants.roles \subseteq PlatformRole
      /\ req[r].grants.roles \subseteq held[req[r].call.user]
  BY <1>2, RequestType, AuthorizationAssumption DEF Grants, HeldInv, Honest
<1>5. CASE \E x \in AUTHENTICATED_USER_PERMISSIONS : rule = grant(x, req[r].call.user)
  BY <1>1, <1>3, <1>5, EveryonesPermissions
<1>6. CASE \E p \in req[r].grants.roles :
             \E x \in ROLE_DEFINITION_CATALOG[p].permissions :
               rule = grant(x, req[r].call.user)
  BY <1>1, <1>3, <1>4, <1>6, OnlyAdminAssigns
<1>7. CASE \E seat \in req[r].grants.seats :
             \E x \in ROLE_DEFINITION_CATALOG[seat[2]].permissions :
               rule = WorkspaceRule(x, seat[1])
  <2>1. PICK seat \in req[r].grants.seats :
          \E x \in ROLE_DEFINITION_CATALOG[seat[2]].permissions :
            rule = WorkspaceRule(x, seat[1])
    BY <1>7
  <2>2. PICK x \in ROLE_DEFINITION_CATALOG[seat[2]].permissions :
            rule = WorkspaceRule(x, seat[1])
    BY <2>1
  <2>3. seat[2] \in WorkspaceRole
    BY RequestType DEF Grants
  <2>4. rule.subject = x.subject
    BY <2>2 DEF WorkspaceRule, Rule
  <2> QED
    BY <1>1, <2>3, <2>4, SeatsStayInside
<1> QED
  BY <1>2, <1>5, <1>6, <1>7, RuleOrigin

(* A row appears only in Assign, with the number of its request. *)
LEMMA StepNeedsAdmin ==
    IInv /\ HeldInv /\ [Next]_vars =>
      \A u \in User, p \in Assignable :
          userRole[u][p] = NoRow /\ userRole'[u][p] # NoRow
          => \E r \in Request :
                /\ req[r].number = userRole'[u][p]
                /\ "PLATFORM_ADMIN" \in held[req[r].call.user]
<1> SUFFICES ASSUME IInv, HeldInv, [Next]_vars, NEW u \in User, NEW p \in Assignable,
                    userRole[u][p] = NoRow, userRole'[u][p] # NoRow
             PROVE  \E r \in Request :
                      /\ req[r].number = userRole'[u][p]
                      /\ "PLATFORM_ADMIN" \in held[req[r].call.user]
  OBVIOUS
<1>1. ASSUME NEW r \in Request, Assign(r)
      PROVE  /\ req[r].number = userRole'[u][p]
             /\ "PLATFORM_ADMIN" \in held[req[r].call.user]
  <2>1. req[r].number = userRole'[u][p]
    BY <1>1 DEF Assign, IInv, TypeOK
  <2> QED
    BY <1>1, <2>1, AssignersAreAdmins DEF Assign
<1>2. ASSUME NEW r \in Request, DeleteAssignment(r)
      PROVE  FALSE
  BY <1>2 DEF DeleteAssignment, IInv, TypeOK
<1>3. userRole' # userRole
  OBVIOUS
<1>4. CASE \E r \in Request : Assign(r) \/ DeleteAssignment(r)
  BY <1>1, <1>2, <1>4
<1> QED
  BY <1>3, <1>4 DEF Next, vars, database, Begin, ReadCachedGrants,
     LoadGrantsFromDatabase, WriteCachedGrants, InvalidateUser, DeleteCachedGrants,
     InvalidateAllUsers, Refuse, FindAssignment, FindPaginated, Reseat, Die, Tick

(* What a list shows beside the caller's own row is let through by a       *)
(* platform role or by a seat in the workspace that is listed.             *)
LEMMA ListsNeedSeat == IInv /\ HeldInv => RosterNeedsSeat
<1> SUFFICES ASSUME IInv, HeldInv, NEW r \in Request, req[r].at = "decide",
                    req[r].call.op = "list",
                    NEW member \in VisibleMembers(r) \ {req[r].call.user}
             PROVE  held[req[r].call.user]
                      \intersect (Assignable \union {req[r].call.workspace}) # {}
  BY DEF RosterNeedsSeat
<1> DEFINE me == req[r].call.user
           w == req[r].call.workspace
           row == [column \in {"userId", "workspaceId"} |->
                     IF column = "userId" THEN member ELSE w]
<1>1. canRecord(Ability(r), "read", "WorkspaceMembership", row)
  BY DEF VisibleMembers, buildWhereOrEmpty
<1>2. PICK rule \in Ability(r) :
        /\ rule.subject \in {"WorkspaceMembership", "all"}
        /\ Matches(rule, row)
  BY <1>1 DEF canRecord, rulesFor
<1>3. Honest(req[r].grants, held[me]) /\ req[r].grants \in Grants
  BY RequestType DEF HeldInv
<1>4. CASE \E x \in AUTHENTICATED_USER_PERMISSIONS : rule = grant(x, me)
  <2>1. PICK x \in AUTHENTICATED_USER_PERMISSIONS : rule = grant(x, me)
    BY <1>4
  <2>2. x.subject = rule.subject
    BY <2>1 DEF grant, Rule
  <2>3. x.ownership = "OWN" /\ x.subject = "WorkspaceMembership"
    BY <1>2, <2>2, EveryonesPermissions
  <2>4. rule.conditions = [column \in {"userId"} |-> me]
    BY <2>1, <2>3 DEF grant, Rule, Column, SUBJECT_OWNER_KEY
  <2>5. row["userId"] = me
    BY <1>2, <2>4 DEF Matches
  <2> QED
    BY <2>5
<1>5. CASE \E p \in req[r].grants.roles :
             \E x \in ROLE_DEFINITION_CATALOG[p].permissions : rule = grant(x, me)
  BY <1>3, <1>5 DEF Honest, Grants
<1>6. CASE \E seat \in req[r].grants.seats :
             \E x \in ROLE_DEFINITION_CATALOG[seat[2]].permissions :
               rule = WorkspaceRule(x, seat[1])
  <2>1. PICK seat \in req[r].grants.seats :
          \E x \in ROLE_DEFINITION_CATALOG[seat[2]].permissions :
            rule = WorkspaceRule(x, seat[1])
    BY <1>6
  <2>2. PICK x \in ROLE_DEFINITION_CATALOG[seat[2]].permissions :
            rule = WorkspaceRule(x, seat[1])
    BY <2>1
  <2>3. seat[2] \in WorkspaceRole
    BY <1>3 DEF Grants
  <2>4. x.subject = "WorkspaceMembership"
    BY <1>2, <2>2, <2>3, SeatsStayInside DEF WorkspaceRule, Rule
  <2>5. rule.conditions = [column \in {"workspaceId"} |-> seat[1]]
    BY <2>2, <2>4 DEF WorkspaceRule, Rule, Column, SUBJECT_TENANT_KEY
  <2>6. row["workspaceId"] = seat[1]
    BY <1>2, <2>5 DEF Matches
  <2>7. w = seat[1] /\ seat[1] \in held[me]
    BY <1>3, <2>6 DEF Honest
  <2> QED
    BY <2>7
<1> QED
  BY <1>4, <1>5, <1>6, RuleOrigin

(* A platform role appears only by the hand of somebody who is or was an   *)
(* administrator, whatever grants the cache still holds and whichever      *)
(* requests interleave (user-roles.service.ts, assign, behind the guard).  *)
THEOREM AdminsMakeRoles == Spec => EscalationNeedsAdmin
<1> DEFINE A == \A u \in User, p \in Assignable :
          userRole[u][p] = NoRow /\ userRole'[u][p] # NoRow
          => \E r \in Request :
                /\ req[r].number = userRole'[u][p]
                /\ "PLATFORM_ADMIN" \in held[req[r].call.user]
<1>1. IInv /\ HeldInv /\ [Next]_vars => A
  BY StepNeedsAdmin
<1>2. A => [A]_vars
  OBVIOUS
<1>3. EscalationNeedsAdmin <=> [][A]_vars
  BY DEF EscalationNeedsAdmin
<1> HIDE DEF A
<1> QED
  BY <1>1, <1>2, <1>3, InitInv, NextInv, InitHeld, NextHeld, PTL DEF Spec

(* The tenant boundary of a listing: guard, cached grants and query filter *)
(* together show somebody else's membership only to those who have had a   *)
(* seat in that workspace or a platform role (workspace-memberships        *)
(* .service.ts, findPaginated, over ability-scoped-query.service.ts).      *)
THEOREM RostersStayInside == Spec => []RosterNeedsSeat
<1>1. IInv /\ HeldInv => RosterNeedsSeat
  BY ListsNeedSeat
<1> QED
  BY InitInv, NextInv, InitHeld, NextHeld, <1>1, PTL DEF Spec
=============================================================================
