-------------------------- MODULE SessionsProofs --------------------------
(***************************************************************************)
(* Sessions.tla's safety properties for any number of concurrent requests,  *)
(* any number of tokens, any clock resolution and any horizon.              *)
(***************************************************************************)
EXTENDS Sessions, TLAPS

-----------------------------------------------------------------------------
(* Clock arithmetic *)

(* nextWholeSecond yields an instant, not before the one it rounds. *)
LEMMA CutoffRoundsUp ==
    \A t \in Nat : nextWholeSecond(t) \in Nat /\ t <= nextWholeSecond(t)
BY TicksPerSecondAssumption DEF nextWholeSecond

(* Later endings never write an earlier cutoff. *)
LEMMA CutoffMonotone ==
    \A t, u \in Nat : t <= u => nextWholeSecond(t) <= nextWholeSecond(u)
BY TicksPerSecondAssumption DEF nextWholeSecond

(* `iat` is a natural number of seconds and follows the clock. *)
LEMMA WholeSecondMonotone ==
    /\ \A t \in Nat : wholeSecond(t) \in Nat
    /\ \A t, u \in Nat : t <= u => wholeSecond(t) <= wholeSecond(u)
BY TicksPerSecondAssumption DEF wholeSecond

(* The point of rounding up on the write: an instant strictly before the ending   *)
(* falls in a strictly earlier second than the cutoff.                            *)
LEMMA CutoffKillsEarlier ==
    \A t, u \in Nat : t < u => wholeSecond(t) < wholeSecond(nextWholeSecond(u))
BY TicksPerSecondAssumption DEF wholeSecond, nextWholeSecond

-----------------------------------------------------------------------------
(* Types *)

(* A request with nothing to remember, and a row nobody inserted, are typed. *)
LEMMA EmptyTyped ==
    /\ EmptyLocal \in Local
    /\ \A t \in Token : EmptyRow(t) \in Row
BY DEF EmptyLocal, Local, EndKinds, EmptyRow, Row, NotSigned

(* Reserving a token's name changes one column of one row. *)
LEMMA ReserveTyped ==
    ASSUME TypeOK, NEW t \in Token
    PROVE  [rows EXCEPT ![t].state = "reserved"] \in [Token -> Row]
<1>1. [rows[t] EXCEPT !.state = "reserved"] \in Row
    BY DEF TypeOK, Row
<1> QED
    BY <1>1 DEF TypeOK

(* What the transactions write to refresh_tokens are rows. *)
LEMMA WritesTyped ==
    ASSUME TypeOK
    PROVE  /\ \A t, f \in Token, a \in {"fresh", "sameCutoff", "movedCutoff"} :
                Persist(t, f, a) \in Row
           /\ \A r \in Request : Unreserved(r) \in [Token -> Row]
           /\ RevokedRows \in [Token -> Row]
           /\ \A t \in Token : [rows[t] EXCEPT !.consumed = TRUE] \in Row
           /\ \A t \in Token : [rows[t] EXCEPT !.revoked = TRUE] \in Row
           /\ \A t \in Token : [rows[t] EXCEPT !.state = "purged"] \in Row
           /\ \A t \in Token :
                [rows[t] EXCEPT !.iat = wholeSecond(rows[t].createdAt)] \in Row
<1>1. now \in Nat
    BY SessionsAssumption DEF TypeOK
<1>2. \A t, f \in Token, a \in {"fresh", "sameCutoff", "movedCutoff"} :
        Persist(t, f, a) \in Row
    <2> SUFFICES ASSUME NEW t \in Token, NEW f \in Token, rows[t] \in Row,
                        NEW a \in {"fresh", "sameCutoff", "movedCutoff"}
                 PROVE  Persist(t, f, a) \in Row
        BY DEF TypeOK
    <2> QED
        BY <1>1 DEF Persist, Row
<1>3. \A r \in Request : Unreserved(r) \in [Token -> Row]
    BY EmptyTyped DEF TypeOK, Unreserved
<1>4. RevokedRows \in [Token -> Row]
    <2>1. ASSUME NEW t \in Token, NEW b \in BOOLEAN,
                 NEW e \in {"no", "sameInstant", "earlier"}
          PROVE  [rows[t] EXCEPT !.revoked = b, !.ended = e] \in Row
        <3>1. rows[t] \in Row
            BY DEF TypeOK
        <3> QED
            BY <3>1 DEF Row
    <2>2. ASSUME NEW t \in Token
          PROVE  (rows[t].revoked \/ Stored(t)) \in BOOLEAN
        BY DEF TypeOK, Row, Stored
    <2> QED
        BY <2>1, <2>2 DEF TypeOK, RevokedRows
<1>5. \A t \in Token : [rows[t] EXCEPT !.consumed = TRUE] \in Row
    <2> SUFFICES ASSUME NEW t \in Token, rows[t] \in Row
                 PROVE  [rows[t] EXCEPT !.consumed = TRUE] \in Row
        BY DEF TypeOK
    <2> QED
        BY DEF Row
<1>6. \A t \in Token : [rows[t] EXCEPT !.revoked = TRUE] \in Row
    <2> SUFFICES ASSUME NEW t \in Token, rows[t] \in Row
                 PROVE  [rows[t] EXCEPT !.revoked = TRUE] \in Row
        BY DEF TypeOK
    <2> QED
        BY DEF Row
<1>7. \A t \in Token : [rows[t] EXCEPT !.state = "purged"] \in Row
    BY DEF TypeOK, Row
<1>8. \A t \in Token :
        [rows[t] EXCEPT !.iat = wholeSecond(rows[t].createdAt)] \in Row
    <2> SUFFICES ASSUME NEW t \in Token, rows[t] \in Row
                 PROVE  [rows[t] EXCEPT !.iat = wholeSecond(rows[t].createdAt)] \in Row
        BY DEF TypeOK
    <2>1. wholeSecond(rows[t].createdAt) \in Nat
        BY WholeSecondMonotone DEF Row
    <2> QED
        BY <2>1 DEF Row
<1> QED
    BY <1>2, <1>3, <1>4, <1>5, <1>6, <1>7, <1>8

-----------------------------------------------------------------------------
(* The inductive invariant. Its first half speaks of the requests, its second    *)
(* of the tables.                                                                 *)

Holding == {"issuing", "rotating", "revoking", "ending"}
Presents == {"rotate", "rotating", "revoke", "revoking"}
Mints == {"wait", "issuing", "sign", "rotate", "rotating"}

(* A request works on rows that exist and on a name nobody else can mint. *)
LocalOf(r) ==
    /\ pc[r] = "idle" => loc[r] = EmptyLocal
    /\ pc[r] \in Presents => loc[r].token \in Token /\ Minted(loc[r].token)
    /\ pc[r] \in Mints => loc[r].minted \in Token
    /\ pc[r] \in {"end", "ending"} /\ KeepsCaller(r) => loc[r].minted \in Token
    /\ loc[r].minted \in Token /\ pc[r] = "sign" => Minted(loc[r].minted)
    /\ loc[r].minted \in Token /\ pc[r] # "sign" =>
          rows[loc[r].minted].state = "reserved"

MintedApart ==
    \A r, q \in Request :
        r # q /\ loc[r].minted = loc[q].minted => loc[r].minted = NoToken

(* The row lock is held exactly by the request inside a transaction. *)
LockOf(r) == (lock = r) <=> (pc[r] \in Holding)

(* What a waiting session knows of the cutoff. *)
ExpectedOf(r) ==
    /\ pc[r] \in {"wait", "issuing"} => loc[r].cutoff <= user.cutoff
    /\ pc[r] = "issuing" => loc[r].cutoff <= now
    /\ pc[r] \in {"wait", "issuing"} /\ loc[r].overtaken = "movedCutoff" =>
          loc[r].cutoff < user.cutoff
    /\ pc[r] \in {"end", "ending"} => loc[r].overtaken = "fresh"

LocalOK == \A r \in Request : LocalOf(r)
RequestInv ==
    /\ LocalOK
    /\ MintedApart
    /\ \A r \in Request : LockOf(r) /\ ExpectedOf(r)

(* Columns of a row that was never inserted are blank; an inserted row is not in *)
(* the future, belongs to a family whose first row was inserted, and its access   *)
(* token carries its own instant.                                                 *)
Blank(row, t) ==
    /\ row.state \in {"unused", "reserved"}
    /\ row.family = t /\ ~row.consumed /\ ~row.revoked /\ row.iat = NotSigned
    /\ row.ended = "no" /\ row.authorised = "fresh"

RowOK(t) ==
    /\ ~Minted(t) => Blank(rows[t], t)
    /\ Minted(t) => rows[t].createdAt <= now /\ Minted(rows[t].family)
    /\ rows[t].iat # NotSigned => rows[t].iat = wholeSecond(rows[t].createdAt)

(* How a row's fate follows from the endings after it. *)
EndedOK(t) ==
    Minted(t) =>
        /\ rows[t].ended = "no" => rows[t].createdAt >= user.cutoff
        /\ rows[t].ended = "earlier" =>
              wholeSecond(rows[t].createdAt) < wholeSecond(user.cutoff)
        /\ Stored(t) /\ rows[t].ended # "no" => rows[t].revoked

TableInv ==
    /\ \A t \in Token : RowOK(t) /\ EndedOK(t)
    /\ user.cutoff <= nextWholeSecond(now)
    /\ \A t \in alarms : Minted(t)
    /\ RevokedFamilyStaysRevoked
    /\ OneUnconsumedPerFamily
    /\ OvertakenLoginRefused
    /\ DeletedAccountHoldsNoSession
    /\ ReplayedFamilyIsDead

IInv == TypeOK /\ RequestInv /\ TableInv

-----------------------------------------------------------------------------
(* Type correctness *)

(* The account create() leaves behind is typed. *)
LEMMA InitTypeOK == Init => TypeOK
BY SessionsAssumption, TicksPerSecondAssumption, EmptyTyped
   DEF Init, TypeOK, UserRow, Stages

(* Every step keeps every variable in its type. *)
LEMMA NextTypeOK == TypeOK /\ LocalOK /\ [Next]_vars => TypeOK'
<1> SUFFICES ASSUME TypeOK, LocalOK, [Next]_vars PROVE TypeOK'
    OBVIOUS
<1> USE EmptyTyped DEF TypeOK
<1>1. ASSUME NEW r \in Request, NEW t \in Token, Login(r, t) PROVE TypeOK'
    BY <1>1, ReserveTyped DEF Login, Goto, Stages, Local, UserRow
<1>2. ASSUME NEW r \in Request, NEW t \in Token, PresentConsumedToken(r, t)
      PROVE TypeOK'
    BY <1>2 DEF PresentConsumedToken, Goto, Stages, Local
<1>3. ASSUME NEW r \in Request, NEW t \in Token, NEW f \in Token,
             PresentToken(r, t, f)
      PROVE TypeOK'
    BY <1>3, ReserveTyped DEF PresentToken, Goto, Stages, Local
<1>4. ASSUME NEW r \in Request, NEW t \in Token, Logout(r, t) PROVE TypeOK'
    BY <1>4 DEF Logout, Goto, Stages, Local
<1>5. ASSUME NEW r \in Request, NEW k \in EndKinds, StartEnding(r, k)
      PROVE TypeOK'
    BY <1>5 DEF StartEnding, Goto, Stages, Local
<1>6. ASSUME NEW r \in Request, NEW k \in EndKinds, NEW t \in Token,
             StartCredentialChange(r, k, t)
      PROVE TypeOK'
    BY <1>6, ReserveTyped DEF StartCredentialChange, Goto, Stages, Local
<1>7. ASSUME NEW r \in Request, NEW a \in BOOLEAN, Update(r, a) PROVE TypeOK'
    BY <1>7 DEF Update, Goto, Stages, Local, EndKinds
<1>8. ASSUME NEW r \in Request, LockForIssue(r) \/ LockForRotate(r)
                                 \/ LockForRevoke(r) \/ LockForEnding(r)
      PROVE TypeOK'
    BY <1>8 DEF LockForIssue, LockForRotate, LockForRevoke, LockForEnding,
                LockUserRow, Goto, Stages
<1>9. ASSUME NEW r \in Request, IssueForNewSession(r) PROVE TypeOK'
    <2>1. loc[r].minted \in Token
        BY <1>9 DEF IssueForNewSession, LocalOK, LocalOf, Mints
    <2>2. loc[r].overtaken \in {"fresh", "sameCutoff", "movedCutoff"}
        BY DEF Local
    <2> QED
        BY <1>9, <2>1, <2>2, WritesTyped DEF IssueForNewSession, Goto, Stages, Release
<1>10. ASSUME NEW r \in Request, Refuse(r) PROVE TypeOK'
    BY <1>10, WritesTyped DEF Refuse, Finish, Goto, Stages, Release
<1>11. ASSUME NEW r \in Request, toSessionTokens(r) PROVE TypeOK'
    BY <1>11, WritesTyped
       DEF toSessionTokens, Finish, Goto, Stages, Release, LocalOK, LocalOf, Mints
<1>12. ASSUME NEW r \in Request, Rotate(r) PROVE TypeOK'
    <2>1. loc[r].token \in Token /\ loc[r].minted \in Token
        BY <1>12 DEF Rotate, LocalOK, LocalOf, Mints, Presents
    <2>2. rows[loc[r].token].family \in Token
        BY <2>1 DEF Row
    <2> QED
        BY <1>12, <2>1, <2>2, WritesTyped DEF Rotate, Goto, Stages, Release
<1>13. ASSUME NEW r \in Request, RotateIneligible(r) PROVE TypeOK'
    BY <1>13, WritesTyped DEF RotateIneligible, Goto, Stages, Release
<1>14. ASSUME NEW r \in Request, RotateLost(r) PROVE TypeOK'
    BY <1>14, WritesTyped DEF RotateLost, Goto, Stages, Release, Local
<1>15. ASSUME NEW r \in Request, RevokeFamilyGone(r) PROVE TypeOK'
    BY <1>15 DEF RevokeFamilyGone, RecordReplay, Finish, Goto, Stages, Release,
                 LocalOK, LocalOf, Presents
<1>16. ASSUME NEW r \in Request, RevokeFamily(r) PROVE TypeOK'
    BY <1>16, WritesTyped DEF RevokeFamily, RecordReplay, Finish, Goto, Stages,
                              Release, LocalOK, LocalOf, Presents
<1>17. ASSUME NEW r \in Request, EndAllSessions(r) PROVE TypeOK'
    <2>1. now \in Nat
        BY SessionsAssumption
    <2>2. user' \in UserRow
        <3>1. PICK v \in VerifiedAfter(loc[r].kind) :
                user' = EndedUser(loc[r].kind, v)
            BY <1>17 DEF EndAllSessions
        <3>2. user.active \in BOOLEAN /\ user.deleted \in BOOLEAN
              /\ user.verified \in BOOLEAN
            BY DEF UserRow
        <3>3. v \in BOOLEAN
            BY <3>2 DEF VerifiedAfter
        <3>4. nextWholeSecond(now) \in Nat
            BY <2>1, CutoffRoundsUp
        <3> QED
            BY <3>1, <3>2, <3>3, <3>4 DEF EndedUser, UserRow
    <2>3. loc' \in [Request -> Local]
        <3>1. ASSUME NEW q \in Request,
                     NEW o \in {"fresh", "sameCutoff", "movedCutoff"}
              PROVE  [loc[q] EXCEPT !.overtaken = o] \in Local
            <4>1. loc[q] \in Local
                OBVIOUS
            <4> QED
                BY <4>1 DEF Local
        <3>2. [loc[r] EXCEPT !.cutoff = user'.cutoff] \in Local
            <4>1. loc[r] \in Local /\ user'.cutoff \in Nat
                BY <2>2 DEF UserRow
            <4> QED
                BY <4>1 DEF Local
        <3>3. ASSUME NEW q \in Request
              PROVE  Overtake(q) \in {"fresh", "sameCutoff", "movedCutoff"}
            BY DEF Overtake, Local
        <3> QED
            BY <1>17, <3>1, <3>2, <3>3 DEF EndAllSessions
    <2> QED
        BY <1>17, <2>2, <2>3, WritesTyped DEF EndAllSessions, Goto, Stages, Release
<1>18. ASSUME NEW r \in Request, BareUpdate(r) PROVE TypeOK'
    <2>1. loc[r].active \in BOOLEAN
        BY DEF Local
    <2>2. user' \in UserRow
        BY <1>18, <2>1 DEF BareUpdate, UserRow
    <2> QED
        BY <1>18, <2>2 DEF BareUpdate, Finish, Goto, Stages, Release
<1>19. CASE VerifyEmail
    <2>1. user' \in UserRow
        BY <1>19 DEF VerifyEmail, UserRow
    <2> QED
        BY <1>19, <2>1 DEF VerifyEmail
<1>21. CASE Tick
    BY <1>21, SessionsAssumption DEF Tick
<1>22. CASE Idle \/ UNCHANGED vars
    BY <1>22 DEF Idle, vars
<1>20. CASE PurgeExpired
    BY <1>20, WritesTyped DEF PurgeExpired
<1> QED
    BY <1>1, <1>2, <1>3, <1>4, <1>5, <1>6, <1>7, <1>8, <1>9, <1>10, <1>11,
       <1>12, <1>13, <1>14, <1>15, <1>16, <1>17, <1>18, <1>19, <1>20, <1>21,
       <1>22
       DEF Next, Arrive, Handle, Crash, IssueRefused, RotatePredates

-----------------------------------------------------------------------------
(* Preservation of the tables' invariant *)

(* The numbers a proof about the tables compares. *)
LEMMA TableNumbers ==
    ASSUME TypeOK
    PROVE  /\ now \in Nat /\ user.cutoff \in Nat
           /\ \A t \in Token : rows[t].createdAt \in Nat /\ rows[t].family \in Token
           /\ \A t \in Token : rows[t].iat \in Nat \cup {NotSigned}
<1>1. now \in Nat /\ user.cutoff \in Nat
    BY SessionsAssumption DEF TypeOK, UserRow
<1>2. \A t \in Token : rows[t] \in Row
    BY DEF TypeOK
<1> QED
    BY <1>1, <1>2 DEF Row

(* Steps that insert no row and end nothing: names are reserved or given back,    *)
(* the clock runs, unrelated columns of the account change.                       *)
LEMMA TableFrame ==
    ASSUME TypeOK, TypeOK', TableInv, now <= now', alarms' = alarms,
           user'.cutoff = user.cutoff, user'.deleted = user.deleted,
           \A t \in Token : \/ rows'[t] = rows[t]
                            \/ ~Minted(t) /\ Blank(rows'[t], t)
    PROVE  TableInv'
<1> USE DEF Minted, Stored, Live
<1>n. now \in Nat /\ now' \in Nat /\ user.cutoff \in Nat
    BY SessionsAssumption DEF TypeOK, UserRow
<1>1. \A t \in Token : Minted(t)' <=> Minted(t)
    BY DEF Blank
<1>2. \A t \in Token : Minted(t) => rows'[t] = rows[t]
    OBVIOUS
<1>3. \A t \in Token : Stored(t)' => Stored(t) /\ rows'[t] = rows[t]
    BY DEF Blank
<1>4. ASSUME NEW t \in Token PROVE RowOK(t)'
    <2>1. CASE rows'[t] = rows[t]
        <3>1. rows[t].createdAt \in Nat /\ rows[t].family \in Token
            BY TableNumbers
        <3> QED
            BY <2>1, <3>1, <1>1, <1>n DEF TableInv, RowOK
    <2>2. CASE ~Minted(t) /\ Blank(rows'[t], t)
        BY <2>2, <1>1 DEF RowOK, Blank
    <2> QED
        BY <2>1, <2>2
<1>5. \A t \in Token : EndedOK(t)'
    BY <1>1, <1>2 DEF TableInv, EndedOK
<1>6. user'.cutoff <= nextWholeSecond(now')
    <2>1. nextWholeSecond(now) <= nextWholeSecond(now')
        BY <1>n, CutoffMonotone
    <2>2. nextWholeSecond(now) \in Nat /\ nextWholeSecond(now') \in Nat
        BY <1>n, CutoffRoundsUp
    <2> QED
        BY <1>n, <2>1, <2>2 DEF TableInv
<1>7. \A t \in alarms' : Minted(t)'
    BY <1>1 DEF TableInv, TypeOK
<1>8. RevokedFamilyStaysRevoked' /\ OneUnconsumedPerFamily'
    BY <1>3 DEF TableInv, RevokedFamilyStaysRevoked, OneUnconsumedPerFamily
<1>9. OvertakenLoginRefused' /\ DeletedAccountHoldsNoSession'
    BY <1>3 DEF TableInv, OvertakenLoginRefused, DeletedAccountHoldsNoSession
<1>10. ReplayedFamilyIsDead'
    BY <1>2, <1>3 DEF TableInv, ReplayedFamilyIsDead, TypeOK
<1> QED
    BY <1>4, <1>5, <1>6, <1>7, <1>8, <1>9, <1>10 DEF TableInv

(* Every family is closed downwards: its first row was inserted, so an inserted   *)
(* row's family is not the name of a row still to come.                           *)
LEMMA FreshFamilyIsNew ==
    ASSUME TypeOK, TableInv, NEW n \in Token, ~Minted(n),
           NEW t \in Token, Minted(t)
    PROVE  rows[t].family # n
BY DEF TableInv, RowOK

(* A first row: issueForNewSession inserts it under the cutoff it expected.       *)
LEMMA TableIssue ==
    ASSUME TypeOK, TypeOK', RequestInv, TableInv,
           NEW r \in Request, IssueForNewSession(r)
    PROVE  TableInv'
<1> DEFINE n == loc[r].minted
<1> USE DEF Minted, Stored, Live
<1>1. n \in Token /\ rows[n].state = "reserved" /\ ~Minted(n)
    BY DEF IssueForNewSession, RequestInv, LocalOK, LocalOf, Mints
<1>2. /\ now' = now /\ user' = user /\ alarms' = alarms
      /\ \A t \in Token : t # n => rows'[t] = rows[t]
    BY <1>1 DEF IssueForNewSession, TypeOK
<1>3. Blank(rows[n], n)
    BY <1>1 DEF TableInv, RowOK
<1>4. /\ rows'[n].state = "stored" /\ rows'[n].family = n
      /\ rows'[n].createdAt = now /\ ~rows'[n].consumed /\ ~rows'[n].revoked
      /\ rows'[n].iat = NotSigned /\ rows'[n].ended = "no"
      /\ rows'[n].authorised = loc[r].overtaken
    <2>1. rows'[n] = Persist(n, n, loc[r].overtaken)
        BY <1>1 DEF IssueForNewSession, TypeOK
    <2>2. rows[n] \in Row
        BY <1>1 DEF TypeOK
    <2> QED
        BY <2>1, <2>2, <1>3 DEF Persist, Row, Blank
<1>5. now \in Nat /\ user.cutoff \in Nat /\ user.cutoff <= now
      /\ loc[r].overtaken # "movedCutoff" /\ ~user.deleted
    <2>1. user.cutoff = loc[r].cutoff /\ ~user.deleted
        BY DEF IssueForNewSession, EligibleOwner
    <2>2. loc[r].cutoff <= now
          /\ (loc[r].overtaken = "movedCutoff" => loc[r].cutoff < user.cutoff)
        BY DEF IssueForNewSession, RequestInv, ExpectedOf
    <2> QED
        BY <2>1, <2>2, TableNumbers
<1>6. \A t \in Token : t # n => (Minted(t)' <=> Minted(t)) /\ (Stored(t)' <=> Stored(t))
    BY <1>2
<1>7. \A t \in Token : t # n /\ Minted(t) => rows[t].family # n
    BY <1>1, FreshFamilyIsNew
<1>8. ASSUME NEW t \in Token PROVE RowOK(t)' /\ EndedOK(t)'
    <2>1. CASE t = n
        BY <2>1, <1>2, <1>4, <1>5 DEF RowOK, EndedOK
    <2>2. CASE t # n
        <3>1. RowOK(t) /\ EndedOK(t) /\ rows'[t] = rows[t]
            BY <2>2, <1>2 DEF TableInv
        <3>2. Minted(t) => rows[t].family \in Token /\ Minted(rows[t].family)'
            BY <2>2, <1>6, <1>7, <3>1, TableNumbers DEF RowOK
        <3> QED
            BY <3>1, <3>2, <1>2 DEF RowOK, EndedOK, Blank
    <2> QED
        BY <2>1, <2>2
<1>9. user'.cutoff <= nextWholeSecond(now') /\ \A t \in alarms' : Minted(t)'
    BY <1>1, <1>2, <1>6 DEF TableInv, TypeOK
<1>10. RevokedFamilyStaysRevoked' /\ OneUnconsumedPerFamily'
    BY <1>2, <1>4, <1>6, <1>7
       DEF TableInv, RevokedFamilyStaysRevoked, OneUnconsumedPerFamily
<1>11. OvertakenLoginRefused' /\ DeletedAccountHoldsNoSession'
    BY <1>2, <1>4, <1>5, <1>6
       DEF TableInv, OvertakenLoginRefused, DeletedAccountHoldsNoSession
<1>12. ReplayedFamilyIsDead'
    <2> SUFFICES ASSUME NEW t \in alarms, NEW u \in Token,
                        rows'[u].family = rows'[t].family
                 PROVE  ~Live(u)'
        BY <1>2 DEF ReplayedFamilyIsDead
    <2>1. t \in Token /\ Minted(t) /\ t # n
        BY <1>1 DEF TableInv, TypeOK
    <2>2. u # n
        BY <2>1, <1>2, <1>4, <1>7
    <2> QED
        BY <2>1, <2>2, <1>2 DEF TableInv, ReplayedFamilyIsDead
<1> QED
    BY <1>8, <1>9, <1>10, <1>11, <1>12 DEF TableInv

(* Signing after the commit fills in one column of an inserted row. *)
LEMMA TableSign ==
    ASSUME TypeOK, TypeOK', RequestInv, TableInv,
           NEW r \in Request, toSessionTokens(r)
    PROVE  TableInv'
<1> DEFINE n == loc[r].minted
<1> USE DEF Minted, Stored, Live
<1>1. n \in Token /\ Minted(n)
    BY DEF toSessionTokens, RequestInv, LocalOK, LocalOf, Mints
<1>2. /\ now' = now /\ user' = user /\ alarms' = alarms
      /\ \A t \in Token : t # n => rows'[t] = rows[t]
    BY <1>1 DEF toSessionTokens, TypeOK
<1>3. /\ rows'[n].state = rows[n].state /\ rows'[n].family = rows[n].family
      /\ rows'[n].createdAt = rows[n].createdAt
      /\ rows'[n].consumed = rows[n].consumed /\ rows'[n].revoked = rows[n].revoked
      /\ rows'[n].ended = rows[n].ended /\ rows'[n].authorised = rows[n].authorised
      /\ rows'[n].iat = wholeSecond(rows[n].createdAt)
    <2>1. rows'[n] = [rows[n] EXCEPT !.iat = wholeSecond(rows[n].createdAt)]
        BY <1>1 DEF toSessionTokens, TypeOK
    <2>2. rows[n] \in Row
        BY <1>1 DEF TypeOK
    <2> QED
        BY <2>1, <2>2 DEF Row
<1>4. \A t \in Token :
        /\ rows'[t].state = rows[t].state /\ rows'[t].family = rows[t].family
        /\ rows'[t].createdAt = rows[t].createdAt
        /\ rows'[t].consumed = rows[t].consumed
        /\ rows'[t].revoked = rows[t].revoked /\ rows'[t].ended = rows[t].ended
        /\ rows'[t].authorised = rows[t].authorised
        /\ (t # n => rows'[t].iat = rows[t].iat)
    BY <1>2, <1>3
<1>5. ASSUME NEW t \in Token PROVE RowOK(t)' /\ EndedOK(t)'
    <2>1. RowOK(t) /\ EndedOK(t) /\ rows[t].family \in Token
        BY TableNumbers DEF TableInv
    <2> QED
        BY <1>1, <1>2, <1>3, <1>4, <2>1 DEF RowOK, EndedOK, Blank
<1>6. user'.cutoff <= nextWholeSecond(now') /\ \A t \in alarms' : Minted(t)'
    BY <1>2, <1>4 DEF TableInv, TypeOK
<1>7. RevokedFamilyStaysRevoked' /\ OneUnconsumedPerFamily'
    BY <1>4 DEF TableInv, RevokedFamilyStaysRevoked, OneUnconsumedPerFamily
<1>8. OvertakenLoginRefused' /\ DeletedAccountHoldsNoSession'
    BY <1>2, <1>4 DEF TableInv, OvertakenLoginRefused, DeletedAccountHoldsNoSession
<1>9. ReplayedFamilyIsDead'
    BY <1>2, <1>4 DEF TableInv, TypeOK, ReplayedFamilyIsDead
<1> QED
    BY <1>5, <1>6, <1>7, <1>8, <1>9 DEF TableInv

(* Rotation moves a family's one unconsumed token to a new row. *)
LEMMA TableRotate ==
    ASSUME TypeOK, TypeOK', RequestInv, TableInv,
           NEW r \in Request, Rotate(r)
    PROVE  TableInv'
<1> DEFINE o == loc[r].token
           n == loc[r].minted
<1> USE DEF Minted, Stored, Live
<1>1. /\ o \in Token /\ n \in Token /\ ~Minted(n) /\ o # n
      /\ Stored(o) /\ ~rows[o].consumed /\ ~rows[o].revoked
      /\ rows[o].createdAt >= user.cutoff /\ ~user.deleted
    <2>1. o \in Token /\ n \in Token /\ rows[n].state = "reserved" /\ Minted(o)
        BY DEF Rotate, RequestInv, LocalOK, LocalOf, Mints, Presents
    <2>2. Live(o) /\ ~PredatesCutoff(o) /\ ~user.deleted
        BY DEF Rotate, Consumable, EligibleOwner
    <2> QED
        BY <2>1, <2>2, TableNumbers DEF PredatesCutoff
<1>2. /\ now' = now /\ user' = user /\ alarms' = alarms
      /\ \A t \in Token : t # n /\ t # o => rows'[t] = rows[t]
    BY <1>1 DEF Rotate, TypeOK
<1>3. Blank(rows[n], n) /\ rows[o].family \in Token
    BY <1>1, TableNumbers DEF TableInv, RowOK
<1>4. /\ rows'[n].state = "stored" /\ rows'[n].family = rows[o].family
      /\ rows'[n].createdAt = now /\ ~rows'[n].consumed /\ ~rows'[n].revoked
      /\ rows'[n].iat = NotSigned /\ rows'[n].ended = "no"
      /\ rows'[n].authorised = "fresh"
    <2>1. rows'[n] = Persist(n, rows[o].family, "fresh")
        BY <1>1 DEF Rotate, TypeOK
    <2>2. rows[n] \in Row
        BY <1>1 DEF TypeOK
    <2> QED
        BY <2>1, <2>2, <1>3 DEF Persist, Row, Blank
<1>5. /\ rows'[o].state = "stored" /\ rows'[o].family = rows[o].family
      /\ rows'[o].createdAt = rows[o].createdAt /\ rows'[o].consumed
      /\ ~rows'[o].revoked /\ rows'[o].iat = rows[o].iat
      /\ rows'[o].ended = rows[o].ended /\ rows'[o].authorised = rows[o].authorised
    <2>1. rows'[o] = [rows[o] EXCEPT !.consumed = TRUE]
        BY <1>1 DEF Rotate, TypeOK
    <2>2. rows[o] \in Row
        BY <1>1 DEF TypeOK
    <2> QED
        BY <2>1, <2>2, <1>1 DEF Row
<1>6. \A t \in Token : Minted(t) => Minted(t)'
    BY <1>1, <1>2, <1>4, <1>5
<1>7. \A t \in Token : Minted(t) => rows[t].family # n
    BY <1>1, FreshFamilyIsNew
<1>8. user.cutoff <= now
    <2>1. rows[o].createdAt <= now
        BY <1>1 DEF TableInv, RowOK
    <2> QED
        BY <2>1, <1>1, TableNumbers
<1>9. ASSUME NEW t \in Token PROVE RowOK(t)' /\ EndedOK(t)'
    <2>0. rows[t].createdAt \in Nat /\ rows[o].createdAt \in Nat
          /\ rows[t].family \in Token /\ now \in Nat /\ user.cutoff \in Nat
        BY <1>1, TableNumbers
    <2>1. rows'[rows[o].family].state \in {"stored", "purged"}
        BY <1>1, <1>3, <1>6 DEF TableInv, RowOK
    <2>2. CASE t = n
        <3>1. RowOK(t)'
            BY <2>0, <2>1, <2>2, <1>2, <1>4 DEF RowOK
        <3>2. EndedOK(t)'
            BY <2>0, <2>2, <1>2, <1>4, <1>8 DEF EndedOK
        <3> QED
            BY <3>1, <3>2
    <2>3. CASE t = o
        <3>1. RowOK(o) /\ EndedOK(o)
            BY <1>1 DEF TableInv
        <3>2. RowOK(t)'
            BY <2>0, <2>1, <2>3, <3>1, <1>1, <1>2, <1>5 DEF RowOK
        <3>3. EndedOK(t)'
            BY <2>0, <2>3, <3>1, <1>1, <1>2, <1>5 DEF EndedOK
        <3> QED
            BY <3>2, <3>3
    <2>4. CASE t # n /\ t # o
        <3>1. RowOK(t) /\ EndedOK(t) /\ rows'[t] = rows[t]
            BY <2>4, <1>2 DEF TableInv
        <3>2. RowOK(t)'
            BY <2>0, <3>1, <1>2, <1>6 DEF RowOK, Blank
        <3>3. EndedOK(t)'
            BY <2>0, <3>1, <1>2 DEF EndedOK
        <3> QED
            BY <3>2, <3>3
    <2> QED
        BY <2>2, <2>3, <2>4
<1>10. user'.cutoff <= nextWholeSecond(now') /\ \A t \in alarms' : Minted(t)'
    BY <1>2, <1>6 DEF TableInv, TypeOK
<1>11. \A u \in Token : Stored(u) /\ rows[u].family = rows[o].family => ~rows[u].revoked
    BY <1>1 DEF TableInv, RevokedFamilyStaysRevoked
<1>12. \A u \in Token : Stored(u) /\ rows[u].family = rows[o].family
                         /\ ~rows[u].consumed => u = o
    BY <1>1 DEF TableInv, OneUnconsumedPerFamily
<1>13. RevokedFamilyStaysRevoked'
    BY <1>1, <1>2, <1>4, <1>5, <1>11 DEF TableInv, RevokedFamilyStaysRevoked
<1>14. OneUnconsumedPerFamily'
    BY <1>1, <1>2, <1>4, <1>5, <1>12 DEF TableInv, OneUnconsumedPerFamily
<1>15. OvertakenLoginRefused' /\ DeletedAccountHoldsNoSession'
    BY <1>1, <1>2, <1>4, <1>5
       DEF TableInv, OvertakenLoginRefused, DeletedAccountHoldsNoSession
<1>16. ReplayedFamilyIsDead'
    <2> SUFFICES ASSUME NEW t \in alarms, NEW u \in Token,
                        rows'[u].family = rows'[t].family
                 PROVE  ~Live(u)'
        BY <1>2 DEF ReplayedFamilyIsDead
    <2>1. t \in Token /\ Minted(t) /\ t # n
        BY <1>1 DEF TableInv, TypeOK
    <2>2. rows'[t].family = rows[t].family
        BY <2>1, <1>2, <1>5
    <2>3. rows[t].family # rows[o].family
        BY <1>1, <2>1 DEF TableInv, ReplayedFamilyIsDead
    <2> QED
        BY <2>1, <2>2, <2>3, <1>1, <1>2, <1>4, <1>5 DEF TableInv, ReplayedFamilyIsDead
<1> QED
    BY <1>9, <1>10, <1>13, <1>14, <1>15, <1>16 DEF TableInv

(* Revoking a family, whether or not the retention job left any of it. *)
LEMMA TableRevoke ==
    ASSUME TypeOK, TypeOK', RequestInv, TableInv, NEW r \in Request,
           RevokeFamily(r) \/ RevokeFamilyGone(r)
    PROVE  TableInv'
<1> DEFINE o == loc[r].token
           F == PresentedFamily(r)
<1> USE DEF Minted, Stored, Live
<1>1. o \in Token /\ Minted(o) /\ rows[o].family \in Token
    <2>1. o \in Token /\ Minted(o)
        BY DEF RevokeFamily, RevokeFamilyGone, RequestInv, LocalOK, LocalOf, Presents
    <2> QED
        BY <2>1, TableNumbers
<1>2. now' = now /\ user' = user /\ alarms' \subseteq alarms \cup {o}
    BY DEF RevokeFamily, RevokeFamilyGone, RecordReplay
<1>3. F = {t \in Token : Stored(t) /\ rows[t].family = rows[o].family}
    BY DEF PresentedFamily, Family
<1>4. \A t \in Token :
        /\ rows'[t].state = rows[t].state /\ rows'[t].family = rows[t].family
        /\ rows'[t].createdAt = rows[t].createdAt
        /\ rows'[t].consumed = rows[t].consumed
        /\ rows'[t].iat = rows[t].iat /\ rows'[t].ended = rows[t].ended
        /\ rows'[t].authorised = rows[t].authorised
        /\ (t \in F => rows'[t].revoked)
        /\ (t \notin F => rows'[t] = rows[t])
    <2>1. CASE RevokeFamilyGone(r)
        BY <2>1 DEF RevokeFamilyGone
    <2>2. CASE RevokeFamily(r)
        <3> SUFFICES ASSUME NEW t \in Token, t \in F
                     PROVE  /\ rows'[t].state = rows[t].state
                            /\ rows'[t].family = rows[t].family
                            /\ rows'[t].createdAt = rows[t].createdAt
                            /\ rows'[t].consumed = rows[t].consumed
                            /\ rows'[t].iat = rows[t].iat
                            /\ rows'[t].ended = rows[t].ended
                            /\ rows'[t].authorised = rows[t].authorised
                            /\ rows'[t].revoked
            BY <2>2 DEF RevokeFamily
        <3>1. rows'[t] = [rows[t] EXCEPT !.revoked = TRUE]
            BY <2>2 DEF RevokeFamily
        <3>2. rows[t] \in Row
            BY DEF TypeOK
        <3> QED
            BY <3>1, <3>2 DEF Row
    <2> QED
        BY <2>1, <2>2
<1>5. ASSUME NEW t \in Token PROVE RowOK(t)' /\ EndedOK(t)'
    <2>1. RowOK(t) /\ EndedOK(t) /\ rows[t].family \in Token
        BY TableNumbers DEF TableInv
    <2>2. RowOK(t)'
        BY <1>2, <1>3, <1>4, <2>1 DEF RowOK, Blank
    <2>3. EndedOK(t)'
        BY <1>2, <1>3, <1>4, <2>1 DEF EndedOK
    <2> QED
        BY <2>2, <2>3
<1>6. user'.cutoff <= nextWholeSecond(now')
    BY <1>2 DEF TableInv
<1>7. \A t \in alarms' : Minted(t)'
    BY <1>1, <1>2, <1>4 DEF TableInv, TypeOK
<1>8. RevokedFamilyStaysRevoked'
    BY <1>3, <1>4 DEF TableInv, RevokedFamilyStaysRevoked
<1>9. OneUnconsumedPerFamily'
    BY <1>4 DEF TableInv, OneUnconsumedPerFamily
<1>10. OvertakenLoginRefused'
    BY <1>4 DEF TableInv, OvertakenLoginRefused
<1>11. \A t \in Token : Live(t)' => Live(t) /\ t \notin F
    BY <1>4
<1>12. DeletedAccountHoldsNoSession'
    BY <1>2, <1>11 DEF TableInv, DeletedAccountHoldsNoSession
<1>13. ReplayedFamilyIsDead'
    <2> SUFFICES ASSUME NEW t \in alarms', NEW u \in Token, Live(u)',
                        rows'[u].family = rows'[t].family
                 PROVE  FALSE
        BY DEF ReplayedFamilyIsDead
    <2>1. t \in Token
        BY <1>1, <1>2 DEF TypeOK
    <2>2. rows[u].family = rows[t].family /\ Live(u) /\ u \notin F
        BY <2>1, <1>4, <1>11
    <2>3. CASE t = o
        BY <2>2, <2>3, <1>3
    <2>4. CASE t \in alarms
        BY <2>2, <2>4 DEF TableInv, ReplayedFamilyIsDead
    <2> QED
        BY <2>3, <2>4, <1>2
<1> QED
    BY <1>5, <1>6, <1>7, <1>8, <1>9, <1>10, <1>12, <1>13 DEF TableInv

(* The ending: every row revoked, and a cutoff that outdates every earlier one. *)
LEMMA TableEnding ==
    ASSUME TypeOK, TypeOK', RequestInv, TableInv,
           NEW r \in Request, EndAllSessions(r)
    PROVE  TableInv'
<1> USE DEF Minted, Stored, Live
<1>1. /\ now' = now /\ alarms' = alarms /\ rows' = RevokedRows
      /\ user'.cutoff = nextWholeSecond(now)
    BY DEF EndAllSessions, EndedUser
<1>2. /\ now \in Nat /\ user.cutoff \in Nat /\ nextWholeSecond(now) \in Nat
      /\ now <= nextWholeSecond(now) /\ user.cutoff <= nextWholeSecond(now)
    BY TableNumbers, CutoffRoundsUp DEF TableInv
<1>3. ASSUME NEW t \in Token, ~Minted(t) PROVE rows'[t] = rows[t]
    BY <1>1, <1>3 DEF RevokedRows
<1>4. ASSUME NEW t \in Token, Minted(t)
      PROVE  /\ rows'[t].state = rows[t].state /\ rows'[t].family = rows[t].family
             /\ rows'[t].createdAt = rows[t].createdAt
             /\ rows'[t].consumed = rows[t].consumed
             /\ rows'[t].iat = rows[t].iat
             /\ rows'[t].authorised = rows[t].authorised
             /\ (Stored(t) => rows'[t].revoked)
             /\ rows'[t].ended # "no"
             /\ (rows'[t].ended = "earlier" =>
                    rows[t].createdAt < now \/ rows[t].ended = "earlier")
    <2>1. rows[t] \in Row
        BY DEF TypeOK
    <2>2. rows'[t] = [rows[t] EXCEPT
                !.revoked = rows[t].revoked \/ Stored(t),
                !.ended = IF rows[t].createdAt < now \/ rows[t].ended = "earlier"
                            THEN "earlier" ELSE "sameInstant"]
        BY <1>1, <1>4 DEF RevokedRows
    <2> QED
        BY <2>1, <2>2 DEF Row
<1>5. \A t \in Token : (Minted(t)' <=> Minted(t)) /\ (Stored(t)' <=> Stored(t))
    BY <1>3, <1>4
<1>6. ASSUME NEW t \in Token PROVE RowOK(t)' /\ EndedOK(t)'
    <2>1. RowOK(t) /\ EndedOK(t) /\ rows[t].family \in Token
          /\ rows[t].createdAt \in Nat
        BY TableNumbers DEF TableInv
    <2>2. RowOK(t)'
        BY <1>1, <1>3, <1>4, <1>5, <2>1 DEF RowOK, Blank
    <2>3. ASSUME Minted(t), rows'[t].ended = "earlier"
          PROVE  wholeSecond(rows[t].createdAt) < wholeSecond(user'.cutoff)
        <3>1. CASE rows[t].createdAt < now
            BY <3>1, <1>1, <1>2, <2>1, CutoffKillsEarlier
        <3>2. CASE rows[t].ended = "earlier"
            <4>1. wholeSecond(rows[t].createdAt) < wholeSecond(user.cutoff)
                BY <2>1, <2>3, <3>2 DEF EndedOK
            <4>2. wholeSecond(user.cutoff) <= wholeSecond(nextWholeSecond(now))
                BY <1>2, WholeSecondMonotone
            <4>3. /\ wholeSecond(rows[t].createdAt) \in Nat
                  /\ wholeSecond(user.cutoff) \in Nat
                  /\ wholeSecond(nextWholeSecond(now)) \in Nat
                BY <1>2, <2>1, WholeSecondMonotone
            <4> QED
                BY <4>1, <4>2, <4>3, <1>1
        <3> QED
            BY <2>3, <3>1, <3>2, <1>4
    <2>4. EndedOK(t)'
        BY <1>4, <1>5, <2>3 DEF EndedOK
    <2> QED
        BY <2>2, <2>4
<1>7. user'.cutoff <= nextWholeSecond(now')
    BY <1>1, <1>2
<1>8. \A t \in alarms' : Minted(t)'
    BY <1>1, <1>5 DEF TableInv, TypeOK
<1>9. \A t \in Token : Stored(t)' => rows'[t].revoked
    BY <1>4, <1>5
<1>10. RevokedFamilyStaysRevoked' /\ DeletedAccountHoldsNoSession'
       /\ ReplayedFamilyIsDead'
    BY <1>9 DEF RevokedFamilyStaysRevoked, DeletedAccountHoldsNoSession,
                ReplayedFamilyIsDead
<1>11. OneUnconsumedPerFamily'
    BY <1>4, <1>5 DEF TableInv, OneUnconsumedPerFamily
<1>12. OvertakenLoginRefused'
    BY <1>4, <1>5 DEF TableInv, OvertakenLoginRefused
<1> QED
    BY <1>6, <1>7, <1>8, <1>10, <1>11, <1>12 DEF TableInv

(* The retention job only takes rows away. *)
LEMMA TablePurge ==
    ASSUME TypeOK, TypeOK', TableInv, PurgeExpired
    PROVE  TableInv'
<1> USE DEF Minted, Stored, Live
<1>1. now' = now /\ user' = user /\ alarms' = alarms
    BY DEF PurgeExpired
<1>2. ASSUME NEW t \in Token
      PROVE  /\ rows'[t].family = rows[t].family
             /\ rows'[t].createdAt = rows[t].createdAt
             /\ rows'[t].consumed = rows[t].consumed
             /\ rows'[t].revoked = rows[t].revoked
             /\ rows'[t].iat = rows[t].iat /\ rows'[t].ended = rows[t].ended
             /\ rows'[t].authorised = rows[t].authorised
             /\ (rows'[t].state = rows[t].state
                 \/ (rows[t].state = "stored" /\ rows'[t].state = "purged"))
    <2>1. rows[t] \in Row
        BY DEF TypeOK
    <2>2. rows'[t] = IF t \in Purgeable THEN [rows[t] EXCEPT !.state = "purged"]
                                        ELSE rows[t]
        BY DEF PurgeExpired
    <2>3. CASE t \in Purgeable
        <3>1. rows'[t] = [rows[t] EXCEPT !.state = "purged"] /\ rows[t].state = "stored"
            BY <2>2, <2>3 DEF Purgeable
        <3> QED
            BY <2>1, <3>1 DEF Row
    <2>4. CASE t \notin Purgeable
        BY <2>2, <2>4
    <2> QED
        BY <2>3, <2>4
<1>3. \A t \in Token : (Minted(t)' <=> Minted(t)) /\ (Stored(t)' => Stored(t))
    BY <1>2
<1>4. ASSUME NEW t \in Token PROVE RowOK(t)' /\ EndedOK(t)'
    <2>1. RowOK(t) /\ EndedOK(t) /\ rows[t].family \in Token
        BY TableNumbers DEF TableInv
    <2>2. RowOK(t)'
        BY <1>1, <1>2, <1>3, <2>1 DEF RowOK, Blank
    <2>3. EndedOK(t)'
        BY <1>1, <1>2, <1>3, <2>1 DEF EndedOK
    <2> QED
        BY <2>2, <2>3
<1>5. user'.cutoff <= nextWholeSecond(now') /\ \A t \in alarms' : Minted(t)'
    BY <1>1, <1>3 DEF TableInv, TypeOK
<1>6. RevokedFamilyStaysRevoked' /\ OneUnconsumedPerFamily'
    BY <1>2, <1>3 DEF TableInv, RevokedFamilyStaysRevoked, OneUnconsumedPerFamily
<1>7. OvertakenLoginRefused' /\ DeletedAccountHoldsNoSession'
    BY <1>1, <1>2, <1>3
       DEF TableInv, OvertakenLoginRefused, DeletedAccountHoldsNoSession
<1>8. ReplayedFamilyIsDead'
    BY <1>1, <1>2, <1>3 DEF TableInv, ReplayedFamilyIsDead, TypeOK
<1> QED
    BY <1>4, <1>5, <1>6, <1>7, <1>8 DEF TableInv

-----------------------------------------------------------------------------
(* Preservation of the requests' invariant *)

(* A step of request r touches no name another request reserved and leaves the    *)
(* cutoff alone: only r's own obligations remain.                                 *)
LEMMA RequestFrame ==
    ASSUME TypeOK, TypeOK', RequestInv, NEW r \in Request,
           now <= now', user'.cutoff = user.cutoff,
           \A q \in Request : q # r => pc'[q] = pc[q] /\ loc'[q] = loc[q],
           \A q \in Request : q # r => ((lock' = q) <=> (lock = q)),
           \A t \in Token : Minted(t) => Minted(t)',
           \A t \in Token : rows[t].state = "reserved" /\ t # loc[r].minted
                              => rows'[t].state = "reserved",
           \/ loc'[r].minted \in {NoToken, loc[r].minted}
           \/ loc'[r].minted \in Token /\ rows[loc'[r].minted].state = "unused",
           LocalOf(r)', LockOf(r)', ExpectedOf(r)'
    PROVE  RequestInv'
<1>1. \A q \in Request : loc[q].minted \in Token =>
         rows[loc[q].minted].state # "unused"
    BY DEF RequestInv, LocalOK, LocalOf, Minted
<1>2. \A q \in Request : loc[q].minted \in Token \cup {NoToken}
    BY DEF TypeOK, Local
<1>3. MintedApart'
    BY <1>1, <1>2, SessionsAssumption DEF RequestInv, MintedApart
<1>4. ASSUME NEW q \in Request, q # r PROVE LocalOf(q)'
    <2>1. loc[q].minted \in Token => loc[q].minted # loc[r].minted
        BY <1>4, SessionsAssumption DEF RequestInv, MintedApart
    <2>2. LocalOf(q) /\ pc'[q] = pc[q] /\ loc'[q] = loc[q]
        BY <1>4 DEF RequestInv, LocalOK
    <2> QED
        BY <2>1, <2>2 DEF LocalOf, KeepsCaller, Minted
<1>5. ASSUME NEW q \in Request, q # r PROVE LockOf(q)' /\ ExpectedOf(q)'
    <2>1. now \in Nat /\ now' \in Nat /\ loc[q].cutoff \in Nat
        BY SessionsAssumption DEF TypeOK, Local
    <2>2. LockOf(q) /\ ExpectedOf(q) /\ pc'[q] = pc[q] /\ loc'[q] = loc[q]
        BY <1>5 DEF RequestInv
    <2>3. LockOf(q)'
        BY <1>5, <2>2 DEF LockOf
    <2>4. ExpectedOf(q)'
        BY <2>1, <2>2 DEF ExpectedOf
    <2> QED
        BY <2>3, <2>4
<1> QED
    BY <1>3, <1>4, <1>5 DEF RequestInv, LocalOK

(* A request that answers, crashes or is refused leaves nothing behind. *)
LEMMA RequestFinish ==
    ASSUME TypeOK, TypeOK', RequestInv, NEW r \in Request, Finish(r),
           now' = now, user'.cutoff = user.cutoff,
           \A t \in Token : Minted(t) => Minted(t)',
           \A t \in Token : rows[t].state = "reserved" /\ t # loc[r].minted
                              => rows'[t].state = "reserved"
    PROVE  RequestInv'
<1>1. /\ pc'[r] = "idle" /\ loc'[r] = EmptyLocal /\ lock' # r
      /\ \A q \in Request : q # r => pc'[q] = pc[q] /\ loc'[q] = loc[q]
      /\ \A q \in Request : q # r => ((lock' = q) <=> (lock = q))
    BY SessionsAssumption DEF Finish, Goto, Release, TypeOK
<1>2. EmptyLocal.minted = NoToken
    BY DEF EmptyLocal
<1>3. LocalOf(r)' /\ LockOf(r)' /\ ExpectedOf(r)'
    BY <1>1, <1>2, SessionsAssumption
       DEF LocalOf, LockOf, ExpectedOf, Presents, Mints, Holding
<1>4. now <= now'
    BY SessionsAssumption DEF TypeOK
<1> QED
    BY <1>1, <1>2, <1>3, <1>4, RequestFrame

(* A request enters a handler with its unlocked read. *)
LEMMA RequestArrives ==
    ASSUME TypeOK, TypeOK', RequestInv, NEW r \in Request, Arrive(r)
    PROVE  RequestInv'
<1> USE SessionsAssumption DEF Minted
<1>1. ASSUME NEW l \in Local, NEW stage \in {"wait", "rotate", "revoke", "end", "update"},
             pc[r] = "idle", pc' = [pc EXCEPT ![r] = stage],
             loc' = [loc EXCEPT ![r] = l], UNCHANGED <<now, user, lock>>,
             \A t \in Token : Minted(t) => Minted(t)',
             \A t \in Token : rows[t].state = "reserved" => rows'[t].state = "reserved",
             l.minted = NoToken \/ (l.minted \in Token /\ Reserve(l.minted)
                                    /\ rows'[l.minted].state = "reserved"),
             stage \in {"rotate", "revoke"} => l.token \in Token /\ Minted(l.token),
             stage \in {"wait", "rotate"}
               \/ (stage = "end" /\ l.kind \in {"ownPassword", "ownEmail"})
               => l.minted \in Token,
             l.overtaken = "fresh", stage = "wait" => l.cutoff = user.cutoff
      PROVE  RequestInv'
    <2>1. /\ pc'[r] = stage /\ loc'[r] = l
          /\ \A q \in Request : q # r => pc'[q] = pc[q] /\ loc'[q] = loc[q]
        BY <1>1 DEF TypeOK
    <2>2. LocalOf(r)'
        BY <1>1, <2>1 DEF LocalOf, Presents, Mints, KeepsCaller
    <2>3. LockOf(r)'
        BY <1>1, <2>1 DEF LockOf, Holding, RequestInv
    <2>4. ExpectedOf(r)'
        BY <1>1, <2>1 DEF ExpectedOf, TypeOK, UserRow
    <2>5. now <= now' /\ user'.cutoff = user.cutoff
        BY <1>1 DEF TypeOK
    <2> QED
        BY <1>1, <2>1, <2>2, <2>3, <2>4, <2>5, RequestFrame DEF Reserve
<1>2. ASSUME NEW t \in Token, Reserve(t), rows' = [rows EXCEPT ![t].state = "reserved"]
      PROVE  /\ \A u \in Token : Minted(u) => Minted(u)'
             /\ \A u \in Token : rows[u].state = "reserved"
                                   => rows'[u].state = "reserved"
             /\ rows'[t].state = "reserved"
    <2>1. rows[t] \in Row /\ rows'[t] = [rows[t] EXCEPT !.state = "reserved"]
          /\ \A u \in Token : u # t => rows'[u] = rows[u]
        BY <1>2 DEF TypeOK
    <2>2. rows'[t].state = "reserved"
        BY <2>1 DEF Row
    <2> QED
        BY <1>2, <2>1, <2>2 DEF Reserve
<1>3. ASSUME NEW t \in Token, Login(r, t) PROVE RequestInv'
    <2> DEFINE l == [EmptyLocal EXCEPT !.minted = t, !.cutoff = user.cutoff]
    <2>1. l \in Local /\ l.minted = t /\ l.cutoff = user.cutoff /\ l.overtaken = "fresh"
        BY EmptyTyped DEF Local, EmptyLocal, TypeOK, UserRow
    <2> HIDE DEF l
    <2>2. loc' = [loc EXCEPT ![r] = l]
        BY <1>3 DEF Login, l
    <2> QED
        BY <1>1, <1>2, <1>3, <2>1, <2>2 DEF Login, Goto
<1>4. ASSUME NEW t \in Token, PresentConsumedToken(r, t) PROVE RequestInv'
    <2> DEFINE l == [EmptyLocal EXCEPT !.token = t, !.replay = TRUE]
    <2>1. l \in Local /\ l.minted = NoToken /\ l.token = t /\ l.overtaken = "fresh"
        BY EmptyTyped DEF Local, EmptyLocal
    <2> HIDE DEF l
    <2>2. loc' = [loc EXCEPT ![r] = l]
        BY <1>4 DEF PresentConsumedToken, l
    <2> QED
        BY <1>1, <1>4, <2>1, <2>2 DEF PresentConsumedToken, Goto, Stored
<1>5. ASSUME NEW t \in Token, NEW f \in Token, PresentToken(r, t, f) PROVE RequestInv'
    <2> DEFINE l == [EmptyLocal EXCEPT !.token = t, !.minted = f]
    <2>1. l \in Local /\ l.minted = f /\ l.token = t /\ l.overtaken = "fresh"
        BY EmptyTyped DEF Local, EmptyLocal
    <2> HIDE DEF l
    <2>2. loc' = [loc EXCEPT ![r] = l]
        BY <1>5 DEF PresentToken, l
    <2> QED
        BY <1>1, <1>2, <1>5, <2>1, <2>2 DEF PresentToken, Goto, Stored
<1>6. ASSUME NEW t \in Token, Logout(r, t) PROVE RequestInv'
    <2> DEFINE l == [EmptyLocal EXCEPT !.token = t]
    <2>1. l \in Local /\ l.minted = NoToken /\ l.token = t /\ l.overtaken = "fresh"
        BY EmptyTyped DEF Local, EmptyLocal
    <2> HIDE DEF l
    <2>2. loc' = [loc EXCEPT ![r] = l]
        BY <1>6 DEF Logout, l
    <2> QED
        BY <1>1, <1>6, <2>1, <2>2 DEF Logout, Goto, Stored
<1>7. ASSUME NEW k \in EndKinds, StartEnding(r, k) PROVE RequestInv'
    <2> DEFINE l == [EmptyLocal EXCEPT !.kind = k]
    <2>1. l \in Local /\ l.minted = NoToken /\ l.kind = k /\ l.overtaken = "fresh"
        BY EmptyTyped DEF Local, EmptyLocal
    <2> HIDE DEF l
    <2>2. loc' = [loc EXCEPT ![r] = l]
        BY <1>7 DEF StartEnding, l
    <2> QED
        BY <1>1, <1>7, <2>1, <2>2 DEF StartEnding, Goto
<1>8. ASSUME NEW k \in EndKinds, NEW t \in Token, StartCredentialChange(r, k, t)
      PROVE  RequestInv'
    <2> DEFINE l == [EmptyLocal EXCEPT !.kind = k, !.minted = t]
    <2>1. l \in Local /\ l.minted = t /\ l.overtaken = "fresh"
        BY EmptyTyped DEF Local, EmptyLocal
    <2> HIDE DEF l
    <2>2. loc' = [loc EXCEPT ![r] = l]
        BY <1>8 DEF StartCredentialChange, l
    <2> QED
        BY <1>1, <1>2, <1>8, <2>1, <2>2 DEF StartCredentialChange, Goto
<1>9. ASSUME NEW a \in BOOLEAN, Update(r, a) PROVE RequestInv'
    <2>1. CASE ~a /\ user.active
        <3> DEFINE l == [EmptyLocal EXCEPT !.kind = "deactivate"]
        <3>1. l \in Local /\ l.minted = NoToken /\ l.kind = "deactivate"
              /\ l.overtaken = "fresh"
            BY EmptyTyped DEF Local, EmptyLocal, EndKinds
        <3> HIDE DEF l
        <3>2. loc' = [loc EXCEPT ![r] = l]
            BY <1>9, <2>1 DEF Update, l
        <3> QED
            BY <1>1, <1>9, <2>1, <3>1, <3>2 DEF Update, Goto
    <2>2. CASE ~(~a /\ user.active)
        <3> DEFINE l == [EmptyLocal EXCEPT !.active = a]
        <3>1. l \in Local /\ l.minted = NoToken /\ l.overtaken = "fresh"
            BY EmptyTyped DEF Local, EmptyLocal
        <3> HIDE DEF l
        <3>2. loc' = [loc EXCEPT ![r] = l]
            BY <1>9, <2>2 DEF Update, l
        <3> QED
            BY <1>1, <1>9, <2>2, <3>1, <3>2 DEF Update, Goto
    <2> QED
        BY <2>1, <2>2
<1> QED
    BY <1>3, <1>4, <1>5, <1>6, <1>7, <1>8, <1>9 DEF Arrive

(* Giving a reserved name back disturbs no other row. *)
LEMMA UnreserveFrame ==
    ASSUME TypeOK, NEW r \in Request, rows' = Unreserved(r)
    PROVE  /\ \A t \in Token : Minted(t) => Minted(t)'
           /\ \A t \in Token : rows[t].state = "reserved" /\ t # loc[r].minted
                                 => rows'[t].state = "reserved"
           /\ \A t \in Token : \/ rows'[t] = rows[t]
                               \/ ~Minted(t) /\ Blank(rows'[t], t)
BY DEF TypeOK, Unreserved, Minted, EmptyRow, Blank

(* A transaction starts by taking the row lock. *)
LEMMA RequestLocks ==
    ASSUME TypeOK, TypeOK', RequestInv, NEW r \in Request,
           LockForIssue(r) \/ LockForRotate(r) \/ LockForRevoke(r) \/ LockForEnding(r)
    PROVE  RequestInv'
<1> USE SessionsAssumption
<1>1. PICK stage \in Holding :
        /\ LockUserRow(r, stage)
        /\ stage = "issuing" => pc[r] = "wait" /\ loc[r].cutoff <= now
        /\ stage = "rotating" => pc[r] = "rotate"
        /\ stage = "revoking" => pc[r] = "revoke"
        /\ stage = "ending" => pc[r] = "end"
    BY DEF LockForIssue, LockForRotate, LockForRevoke, LockForEnding, Holding
<1>2. /\ pc'[r] = stage /\ loc' = loc /\ lock = Nobody /\ lock' = r
      /\ \A q \in Request : q # r => pc'[q] = pc[q]
      /\ now' = now /\ user' = user /\ rows' = rows
    BY <1>1 DEF LockUserRow, Goto, TypeOK
<1>3. LocalOf(r) /\ ExpectedOf(r)
    BY DEF RequestInv, LocalOK
<1>4. LocalOf(r)'
    BY <1>1, <1>2, <1>3 DEF LocalOf, Presents, Mints, KeepsCaller, Holding, Minted
<1>5. LockOf(r)' /\ ExpectedOf(r)'
    BY <1>1, <1>2, <1>3 DEF LockOf, ExpectedOf, Holding
<1>6. now <= now'
    BY <1>2 DEF TypeOK
<1> QED
    BY <1>2, <1>4, <1>5, <1>6, RequestFrame DEF Minted

(* A transaction commits its insert and goes on to sign. *)
LEMMA RequestMints ==
    ASSUME TypeOK, TypeOK', RequestInv, NEW r \in Request,
           IssueForNewSession(r) \/ Rotate(r)
    PROVE  RequestInv'
<1> USE SessionsAssumption
<1> DEFINE n == loc[r].minted
<1>1. n \in Token /\ rows[n] \in Row
    BY DEF IssueForNewSession, Rotate, RequestInv, LocalOK, LocalOf, Mints, TypeOK
<1>2. /\ pc'[r] = "sign" /\ loc' = loc /\ lock' # r
      /\ \A q \in Request : q # r => pc'[q] = pc[q] /\ ((lock' = q) <=> (lock = q))
      /\ now' = now /\ user' = user
    BY DEF IssueForNewSession, Rotate, Goto, Release, TypeOK
<1>3. /\ rows'[n].state = "stored"
      /\ \A t \in Token : t # n => rows'[t].state = rows[t].state
    <2>1. CASE IssueForNewSession(r)
        <3>1. rows'[n] = Persist(n, n, loc[r].overtaken)
              /\ \A t \in Token : t # n => rows'[t] = rows[t]
            BY <1>1, <2>1 DEF IssueForNewSession, TypeOK
        <3> QED
            BY <1>1, <3>1 DEF Persist, Row
    <2>2. CASE Rotate(r)
        <3> DEFINE o == loc[r].token
        <3>1. o \in Token /\ rows[o] \in Row
            BY <2>2 DEF Rotate, RequestInv, LocalOK, LocalOf, Presents, TypeOK
        <3>2. /\ rows'[n] = Persist(n, rows[o].family, "fresh")
              /\ o # n => rows'[o] = [rows[o] EXCEPT !.consumed = TRUE]
              /\ \A t \in Token : t # n /\ t # o => rows'[t] = rows[t]
            <4>1. o # n
                BY <2>2 DEF Rotate, RequestInv, LocalOK, LocalOf, Presents, Mints, Minted
            <4> QED
                BY <1>1, <2>2, <3>1, <4>1 DEF Rotate, TypeOK
        <3>3. rows'[n].state = "stored"
            BY <1>1, <3>2 DEF Persist, Row
        <3>4. o # n => rows'[o].state = rows[o].state
            BY <3>1, <3>2 DEF Row
        <3> QED
            BY <3>2, <3>3, <3>4
    <2> QED
        BY <2>1, <2>2
<1>4. LocalOf(r)'
    BY <1>1, <1>2, <1>3 DEF LocalOf, Presents, Mints, Minted
<1>5. LockOf(r)' /\ ExpectedOf(r)'
    BY <1>2 DEF LockOf, ExpectedOf, Holding
<1>6. now <= now'
    BY <1>2 DEF TypeOK
<1> QED
    BY <1>1, <1>2, <1>3, <1>4, <1>5, <1>6, RequestFrame DEF Minted

(* A rotation that lost rolls back and goes on to a second transaction. *)
LEMMA RequestRollsBack ==
    ASSUME TypeOK, TypeOK', RequestInv, NEW r \in Request,
           RotateIneligible(r) \/ RotateLost(r)
    PROVE  RequestInv'
<1> USE SessionsAssumption
<1>1. /\ now' = now /\ user' = user /\ rows' = Unreserved(r) /\ lock' # r
      /\ \A q \in Request : q # r => /\ pc'[q] = pc[q] /\ loc'[q] = loc[q]
                                     /\ ((lock' = q) <=> (lock = q))
    BY DEF RotateIneligible, RotateLost, Goto, Release, TypeOK
<1>2. /\ pc'[r] \in {"end", "revoke"} /\ loc'[r].minted = NoToken
      /\ pc'[r] = "end" => loc'[r].kind = "logoutAll" /\ loc'[r].overtaken = "fresh"
      /\ pc'[r] = "revoke" => loc'[r].token = loc[r].token /\ pc[r] = "rotating"
    <2>1. CASE RotateIneligible(r)
        BY <2>1 DEF RotateIneligible, Goto, TypeOK, EmptyLocal
    <2>2. CASE RotateLost(r)
        <3>1. pc'[r] = "revoke" /\ pc[r] = "rotating"
              /\ loc'[r] = [EmptyLocal EXCEPT !.token = loc[r].token, !.replay = TRUE]
            BY <2>2 DEF RotateLost, Goto, TypeOK
        <3> QED
            BY <3>1 DEF EmptyLocal
    <2> QED
        BY <2>1, <2>2
<1>3. /\ \A t \in Token : Minted(t) => Minted(t)'
      /\ \A t \in Token : rows[t].state = "reserved" /\ t # loc[r].minted
                            => rows'[t].state = "reserved"
    BY <1>1, UnreserveFrame
<1>4. LocalOf(r)'
    <2>1. LocalOf(r)
        BY DEF RequestInv, LocalOK
    <2> QED
        BY <1>2, <1>3, <2>1 DEF LocalOf, Presents, Mints, KeepsCaller
<1>5. LockOf(r)' /\ ExpectedOf(r)'
    BY <1>1, <1>2 DEF LockOf, ExpectedOf, Holding
<1>6. now <= now'
    BY <1>1 DEF TypeOK
<1> QED
    BY <1>1, <1>2, <1>3, <1>4, <1>5, <1>6, RequestFrame

(* An ending moves the cutoff forward and marks the logins it overtakes. *)
LEMMA RequestEnds ==
    ASSUME TypeOK, TypeOK', RequestInv, TableInv, NEW r \in Request, EndAllSessions(r)
    PROVE  RequestInv'
<1> USE SessionsAssumption
<1>1. user.cutoff \in Nat /\ user'.cutoff \in Nat /\ user.cutoff <= user'.cutoff
      /\ now' = now /\ now \in Nat
    <2>1. user'.cutoff = nextWholeSecond(now) /\ now' = now
        BY DEF EndAllSessions, EndedUser
    <2> QED
        BY <2>1, TableNumbers, CutoffRoundsUp DEF TableInv
<1>2. \A t \in Token : rows'[t].state = rows[t].state
    <2> SUFFICES ASSUME NEW t \in Token PROVE rows'[t].state = rows[t].state
        OBVIOUS
    <2>1. rows[t] \in Row
        BY DEF TypeOK
    <2>2. \/ rows'[t] = rows[t]
          \/ \E b, e : rows'[t] = [rows[t] EXCEPT !.revoked = b, !.ended = e]
        BY DEF EndAllSessions, RevokedRows
    <2> QED
        BY <2>1, <2>2 DEF Row
<1>3. /\ \A q \in Request : q # r => pc'[q] = pc[q] /\ ((lock' = q) <=> (lock = q))
      /\ lock' # r
      /\ pc'[r] = IF KeepsCaller(r) THEN "wait" ELSE "idle"
    BY DEF EndAllSessions, Goto, Release, TypeOK
<1>4. ASSUME NEW q \in Request, q # r
      PROVE  /\ loc'[q].token = loc[q].token /\ loc'[q].minted = loc[q].minted
             /\ loc'[q].kind = loc[q].kind /\ loc'[q].cutoff = loc[q].cutoff
             /\ pc[q] = "idle" => loc'[q] = loc[q]
             /\ pc[q] = "wait" => loc'[q].overtaken = Overtake(q)
             /\ pc[q] # "wait" => loc'[q] = loc[q]
    <2>1. loc[q] \in Local
        BY DEF TypeOK
    <2>2. loc'[q] = IF pc[q] = "wait" THEN [loc[q] EXCEPT !.overtaken = Overtake(q)]
                                      ELSE loc[q]
        BY <1>4 DEF EndAllSessions
    <2> QED
        BY <2>1, <2>2 DEF Local
<1>5. IF KeepsCaller(r)
        THEN /\ loc'[r].minted = loc[r].minted /\ loc'[r].cutoff = user'.cutoff
             /\ loc'[r].overtaken = loc[r].overtaken
        ELSE loc'[r] = EmptyLocal
    <2>1. loc[r] \in Local
        BY DEF TypeOK
    <2>2. loc'[r] = IF KeepsCaller(r) THEN [loc[r] EXCEPT !.cutoff = user'.cutoff]
                                      ELSE EmptyLocal
        BY DEF EndAllSessions
    <2> QED
        BY <2>1, <2>2 DEF Local
<1>6. EmptyLocal.minted = NoToken
    BY DEF EmptyLocal
<1>7. LocalOf(r)' /\ LockOf(r)' /\ ExpectedOf(r)'
    <2>1. LocalOf(r) /\ ExpectedOf(r) /\ pc[r] = "ending"
        BY DEF RequestInv, LocalOK, EndAllSessions
    <2>2. LocalOf(r)'
        BY <1>2, <1>3, <1>5, <1>6, <2>1 DEF LocalOf, Presents, Mints, Minted
    <2>3. LockOf(r)'
        BY <1>3 DEF LockOf, Holding
    <2>4. ExpectedOf(r)'
        BY <1>1, <1>3, <1>5, <2>1 DEF ExpectedOf
    <2> QED
        BY <2>2, <2>3, <2>4
<1>8. ASSUME NEW q \in Request, q # r PROVE LocalOf(q)' /\ LockOf(q)' /\ ExpectedOf(q)'
    <2>1. LocalOf(q) /\ LockOf(q) /\ ExpectedOf(q) /\ loc[q].cutoff \in Nat
        BY DEF RequestInv, LocalOK, TypeOK, Local
    <2>2. LocalOf(q)'
        BY <1>2, <1>3, <1>4, <1>8, <2>1 DEF LocalOf, Presents, Mints, Minted, KeepsCaller
    <2>3. LockOf(q)'
        BY <1>3, <1>8, <2>1 DEF LockOf
    <2>4. ExpectedOf(q)'
        <3>1. CASE pc[q] = "wait"
            BY <1>1, <1>3, <1>4, <1>8, <2>1, <3>1 DEF ExpectedOf, Overtake
        <3>2. CASE pc[q] # "wait"
            BY <1>1, <1>3, <1>4, <1>8, <2>1, <3>2 DEF ExpectedOf
        <3> QED
            BY <3>1, <3>2
    <2> QED
        BY <2>2, <2>3, <2>4
<1>9. MintedApart'
    <2>1. ASSUME NEW q \in Request
          PROVE  loc'[q].minted = loc[q].minted \/ loc'[q].minted = NoToken
        <3>1. CASE q # r
            BY <3>1, <1>4
        <3>2. CASE q = r /\ KeepsCaller(r)
            BY <3>2, <1>5
        <3>3. CASE q = r /\ ~KeepsCaller(r)
            BY <3>3, <1>5, <1>6
        <3> QED
            BY <3>1, <3>2, <3>3
    <2> SUFFICES ASSUME NEW p \in Request, NEW q \in Request, p # q,
                        loc'[p].minted = loc'[q].minted
                 PROVE  loc'[p].minted = NoToken
        BY DEF MintedApart
    <2>2. loc[p].minted = loc[q].minted => loc[p].minted = NoToken
        BY DEF MintedApart, RequestInv
    <2>3. loc'[p].minted = loc[p].minted \/ loc'[p].minted = NoToken
        BY <2>1
    <2>4. loc'[q].minted = loc[q].minted \/ loc'[q].minted = NoToken
        BY <2>1
    <2> QED
        BY <2>2, <2>3, <2>4
<1> QED
    BY <1>7, <1>8, <1>9 DEF RequestInv, LocalOK

-----------------------------------------------------------------------------
(* The whole invariant *)

(* The invariant holds of a new account. *)
LEMMA InitIInv == Init => IInv
<1> SUFFICES ASSUME Init PROVE IInv
    OBVIOUS
<1>1. TypeOK
    BY InitTypeOK
<1>2. RequestInv
    BY SessionsAssumption
       DEF Init, RequestInv, LocalOK, LocalOf, MintedApart, LockOf, ExpectedOf,
           EmptyLocal, Presents, Mints, Holding
<1>3. now \in Nat /\ user.cutoff = now
    BY SessionsAssumption DEF Init
<1>4. \A t \in Token : Blank(rows[t], t) /\ rows[t].state = "unused"
    BY DEF Init, EmptyRow, Blank
<1>5. TableInv
    BY <1>3, <1>4, CutoffRoundsUp
       DEF Init, TableInv, RowOK, EndedOK, Blank, Minted, Stored, Live,
           RevokedFamilyStaysRevoked, OneUnconsumedPerFamily, OvertakenLoginRefused,
           DeletedAccountHoldsNoSession, ReplayedFamilyIsDead
<1> QED
    BY <1>1, <1>2, <1>5 DEF IInv

(* Reserving a name inserts nothing. *)
LEMMA ReserveFrame ==
    ASSUME TypeOK, TableInv, NEW n \in Token, Reserve(n),
           rows' = [rows EXCEPT ![n].state = "reserved"]
    PROVE  \A t \in Token : \/ rows'[t] = rows[t]
                            \/ ~Minted(t) /\ Blank(rows'[t], t)
<1>1. rows[n] \in Row /\ rows'[n] = [rows[n] EXCEPT !.state = "reserved"]
      /\ \A t \in Token : t # n => rows'[t] = rows[t]
    BY DEF TypeOK
<1>2. ~Minted(n) /\ Blank(rows[n], n)
    BY DEF Reserve, TableInv, RowOK, Minted
<1>3. Blank(rows'[n], n)
    BY <1>1, <1>2 DEF Blank, Row
<1> QED
    BY <1>1, <1>2, <1>3

(* One step per group of actions: what each may disturb was shown above. *)
LEMMA NextIInv == IInv /\ [Next]_vars => IInv'
<1> SUFFICES ASSUME TypeOK, RequestInv, TableInv, [Next]_vars PROVE IInv'
    BY DEF IInv
<1>1. TypeOK'
    BY NextTypeOK DEF RequestInv
<1>n. now <= now
    BY SessionsAssumption DEF TypeOK
<1>2. ASSUME NEW r \in Request, Arrive(r) PROVE IInv'
    <2>1. RequestInv'
        BY <1>1, <1>2, RequestArrives
    <2>2. now' = now /\ user' = user /\ alarms' = alarms
        BY <1>2 DEF Arrive, Login, PresentConsumedToken, PresentToken, Logout,
                    StartEnding, StartCredentialChange, Update
    <2>3. \/ rows' = rows
          \/ \E n \in Token : Reserve(n) /\ rows' = [rows EXCEPT ![n].state = "reserved"]
        BY <1>2 DEF Arrive, Login, PresentConsumedToken, PresentToken, Logout,
                    StartEnding, StartCredentialChange, Update
    <2>4. \A t \in Token : rows'[t] = rows[t] \/ (~Minted(t) /\ Blank(rows'[t], t))
        BY <2>3, ReserveFrame
    <2>5. TableInv'
        BY <1>1, <1>n, <2>2, <2>4, TableFrame
    <2> QED
        BY <1>1, <2>1, <2>5 DEF IInv
<1>3. ASSUME NEW r \in Request, Refuse(r) PROVE IInv'
    <2>1. Finish(r) /\ rows' = Unreserved(r) /\ now' = now /\ user' = user
          /\ alarms' = alarms
        BY <1>3 DEF Refuse
    <2>2. RequestInv'
        BY <1>1, <2>1, UnreserveFrame, RequestFinish
    <2>3. TableInv'
        BY <1>1, <1>n, <2>1, UnreserveFrame, TableFrame
    <2> QED
        BY <1>1, <2>2, <2>3 DEF IInv
<1>4. ASSUME NEW r \in Request, LockForIssue(r) \/ LockForRotate(r)
                                 \/ LockForRevoke(r) \/ LockForEnding(r)
      PROVE  IInv'
    <2>1. RequestInv'
        BY <1>1, <1>4, RequestLocks
    <2>2. now' = now /\ user' = user /\ alarms' = alarms /\ rows' = rows
        BY <1>4 DEF LockForIssue, LockForRotate, LockForRevoke, LockForEnding, LockUserRow
    <2>3. TableInv'
        BY <1>1, <1>n, <2>2, TableFrame
    <2> QED
        BY <1>1, <2>1, <2>3 DEF IInv
<1>5. ASSUME NEW r \in Request, IssueForNewSession(r) \/ Rotate(r) PROVE IInv'
    BY <1>1, <1>5, RequestMints, TableIssue, TableRotate DEF IInv
<1>6. ASSUME NEW r \in Request, RotateIneligible(r) \/ RotateLost(r) PROVE IInv'
    <2>1. RequestInv'
        BY <1>1, <1>6, RequestRollsBack
    <2>2. now' = now /\ user' = user /\ alarms' = alarms /\ rows' = Unreserved(r)
        BY <1>6 DEF RotateIneligible, RotateLost
    <2>3. TableInv'
        BY <1>1, <1>n, <2>2, UnreserveFrame, TableFrame
    <2> QED
        BY <1>1, <2>1, <2>3 DEF IInv
<1>7. ASSUME NEW r \in Request, toSessionTokens(r) PROVE IInv'
    <2>1. Finish(r) /\ now' = now /\ user' = user
        BY <1>7 DEF toSessionTokens
    <2>2. \A t \in Token : rows'[t].state = rows[t].state
        <3>1. loc[r].minted \in Token
            BY <1>7 DEF toSessionTokens, RequestInv, LocalOK, LocalOf, Mints
        <3>2. rows[loc[r].minted] \in Row
            BY <3>1 DEF TypeOK
        <3> QED
            BY <1>7, <3>1, <3>2 DEF toSessionTokens, TypeOK, Row
    <2>3. RequestInv'
        BY <1>1, <2>1, <2>2, RequestFinish DEF Minted
    <2> QED
        BY <1>1, <1>7, <2>3, TableSign DEF IInv
<1>8. ASSUME NEW r \in Request, RevokeFamily(r) \/ RevokeFamilyGone(r) PROVE IInv'
    <2>1. Finish(r) /\ now' = now /\ user' = user
        BY <1>8 DEF RevokeFamily, RevokeFamilyGone
    <2>2. \A t \in Token : rows'[t].state = rows[t].state
        <3> SUFFICES ASSUME NEW t \in Token PROVE rows'[t].state = rows[t].state
            OBVIOUS
        <3>1. rows[t] \in Row
            BY DEF TypeOK
        <3>2. rows'[t] = rows[t] \/ rows'[t] = [rows[t] EXCEPT !.revoked = TRUE]
            BY <1>8 DEF RevokeFamily, RevokeFamilyGone
        <3> QED
            BY <3>1, <3>2 DEF Row
    <2>3. RequestInv'
        BY <1>1, <2>1, <2>2, RequestFinish DEF Minted
    <2> QED
        BY <1>1, <1>8, <2>3, TableRevoke DEF IInv
<1>9. ASSUME NEW r \in Request, EndAllSessions(r) PROVE IInv'
    BY <1>1, <1>9, RequestEnds, TableEnding DEF IInv
<1>10. ASSUME NEW r \in Request, BareUpdate(r) PROVE IInv'
    <2>1. Finish(r) /\ now' = now /\ rows' = rows /\ alarms' = alarms
        BY <1>10 DEF BareUpdate
    <2>2. user'.cutoff = user.cutoff /\ user'.deleted = user.deleted
        BY <1>10 DEF BareUpdate, TypeOK, UserRow
    <2>3. RequestInv'
        BY <1>1, <2>1, <2>2, RequestFinish DEF Minted
    <2>4. TableInv'
        BY <1>1, <1>n, <2>1, <2>2, TableFrame
    <2> QED
        BY <1>1, <2>3, <2>4 DEF IInv
<1>11. ASSUME now <= now', user'.cutoff = user.cutoff, user'.deleted = user.deleted,
              rows' = rows, UNCHANGED <<lock, pc, loc, alarms>>
       PROVE  IInv'
    <2>1. TableInv'
        BY <1>1, <1>11, TableFrame
    <2>2. \A r \in Request : LockOf(r)' /\ ExpectedOf(r)'
        <3> SUFFICES ASSUME NEW r \in Request PROVE LockOf(r)' /\ ExpectedOf(r)'
            OBVIOUS
        <3>1. LockOf(r) /\ ExpectedOf(r) /\ loc[r].cutoff \in Nat
              /\ now \in Nat /\ now' \in Nat
            BY <1>1, SessionsAssumption DEF RequestInv, TypeOK, Local
        <3> QED
            BY <1>11, <3>1 DEF LockOf, ExpectedOf
    <2>3. RequestInv'
        BY <1>11, <2>2 DEF RequestInv, LocalOK, LocalOf, MintedApart, Minted, KeepsCaller
    <2> QED
        BY <1>1, <2>1, <2>3 DEF IInv
<1>12. CASE VerifyEmail
    <2>1. user'.cutoff = user.cutoff /\ user'.deleted = user.deleted
        BY <1>12 DEF VerifyEmail, TypeOK, UserRow
    <2> QED
        BY <1>11, <1>12, <1>n, <2>1 DEF VerifyEmail
<1>13. CASE PurgeExpired
    <2>1. TableInv'
        BY <1>1, <1>13, TablePurge
    <2>2. UNCHANGED <<now, user, lock, pc, loc>>
        BY <1>13 DEF PurgeExpired
    <2>3. \A t \in Token : /\ Minted(t) => Minted(t)'
                           /\ rows[t].state = "reserved" => rows'[t].state = "reserved"
        <3> SUFFICES ASSUME NEW t \in Token
                     PROVE  /\ Minted(t) => Minted(t)'
                            /\ rows[t].state = "reserved" => rows'[t].state = "reserved"
            OBVIOUS
        <3>1. rows[t] \in Row
            BY DEF TypeOK
        <3>2. \/ rows'[t] = rows[t]
              \/ Stored(t) /\ rows'[t] = [rows[t] EXCEPT !.state = "purged"]
            BY <1>13 DEF PurgeExpired, Purgeable
        <3> QED
            BY <3>1, <3>2 DEF Row, Minted, Stored
    <2>4. \A r \in Request : LocalOf(r)'
        BY <2>2, <2>3 DEF RequestInv, LocalOK, LocalOf, KeepsCaller
    <2>5. RequestInv'
        BY <2>2, <2>4 DEF RequestInv, LocalOK, MintedApart, LockOf, ExpectedOf
    <2> QED
        BY <1>1, <2>1, <2>5 DEF IInv
<1>14. CASE Tick
    <2>1. now <= now'
        BY <1>14, SessionsAssumption DEF Tick, TypeOK
    <2> QED
        BY <1>11, <1>14, <2>1 DEF Tick
<1>15. CASE Idle \/ UNCHANGED vars
    BY <1>11, <1>15, <1>n DEF Idle, vars
<1> QED
    BY <1>2, <1>3, <1>4, <1>5, <1>6, <1>7, <1>8, <1>9, <1>10, <1>12, <1>13,
       <1>14, <1>15
       DEF Next, Handle, Crash, IssueRefused, RotatePredates

(* The inductive invariant holds in every reachable state. *)
THEOREM IInvInvariant == Spec => []IInv
BY InitIInv, NextIInv, PTL DEF Spec

-----------------------------------------------------------------------------
(* What follows from it *)

(* Every variable keeps its type, whatever the requests do. *)
THEOREM TypeCorrect == Spec => []TypeOK
BY IInvInvariant, PTL DEF IInv

(* A revoked family gains no new children: rotate and revokeFamily exclude each   *)
(* other through the account's row lock.                                           *)
THEOREM RevocationIsFinal == Spec => []RevokedFamilyStaysRevoked
<1>1. IInv => RevokedFamilyStaysRevoked
    BY DEF IInv, TableInv
<1> QED
    BY <1>1, IInvInvariant, PTL

(* rotate never forks a family: at most one of its tokens is unconsumed.           *)
THEOREM RotationIsLinear == Spec => []OneUnconsumedPerFamily
<1>1. IInv => OneUnconsumedPerFamily
    BY DEF IInv, TableInv
<1> QED
    BY <1>1, IInvInvariant, PTL

(* A family for which handleReplay recorded a replay never holds a live row again. *)
THEOREM ReplayKillsFamily == Spec => []ReplayedFamilyIsDead
<1>1. IInv => ReplayedFamilyIsDead
    BY DEF IInv, TableInv
<1> QED
    BY <1>1, IInvInvariant, PTL

(* A login overtaken by an ending that moved the cutoff is never given a session.  *)
THEOREM CompareAndIssue == Spec => []OvertakenLoginRefused
<1>1. IInv => OvertakenLoginRefused
    BY DEF IInv, TableInv
<1> QED
    BY <1>1, IInvInvariant, PTL

(* deleteAccount and gdprErase leave no live refresh row, and none appears later.  *)
THEOREM DeletionEndsSessions == Spec => []DeletedAccountHoldsNoSession
<1>1. IInv => DeletedAccountHoldsNoSession
    BY DEF IInv, TableInv
<1> QED
    BY <1>1, IInvInvariant, PTL

(* The whole-second cutoff kills every access token decided at an earlier instant  *)
(* than the ending: nextWholeSecond against JwtStrategy's comparison in seconds.   *)
THEOREM EndingKillsAccess == Spec => []EndedAccessTokensDie
<1>1. ASSUME IInv PROVE EndedAccessTokensDie
    <2> SUFFICES ASSUME NEW t \in Token, rows[t].ended = "earlier",
                        rows[t].iat # NotSigned
                 PROVE  rows[t].iat < wholeSecond(user.cutoff)
        BY DEF EndedAccessTokensDie, Accepts
    <2>1. Minted(t)
        BY <1>1 DEF IInv, TableInv, RowOK, Blank
    <2> QED
        BY <1>1, <2>1 DEF IInv, TableInv, RowOK, EndedOK
<1> QED
    BY <1>1, IInvInvariant, PTL

(* startSession and rotate hand out no access token that the cutoff rejects.       *)
THEOREM FreshAccessAccepted == Spec => []FreshAccessTokensLive
<1>1. ASSUME IInv PROVE FreshAccessTokensLive
    <2> SUFFICES ASSUME NEW t \in Token, rows[t].iat # NotSigned,
                        rows[t].ended = "no"
                 PROVE  ~(rows[t].iat < wholeSecond(user.cutoff))
        BY DEF FreshAccessTokensLive, Accepts
    <2>1. Minted(t)
        BY <1>1 DEF IInv, TableInv, RowOK, Blank
    <2>2. rows[t].iat = wholeSecond(rows[t].createdAt)
          /\ rows[t].createdAt >= user.cutoff
        BY <1>1, <2>1 DEF IInv, TableInv, RowOK, EndedOK
    <2>3. rows[t].createdAt \in Nat /\ user.cutoff \in Nat
        BY <1>1, TableNumbers DEF IInv
    <2>4. /\ wholeSecond(user.cutoff) <= wholeSecond(rows[t].createdAt)
          /\ wholeSecond(user.cutoff) \in Nat /\ wholeSecond(rows[t].createdAt) \in Nat
        BY <2>2, <2>3, WholeSecondMonotone
    <2> QED
        BY <2>2, <2>4
<1> QED
    BY <1>1, IInvInvariant, PTL

(* rotate's SessionPredatesCutoffError only ever refuses a row already revoked.    *)
THEOREM LiveRowsAreRecent == Spec => []LiveRowsFollowCutoff
<1>1. ASSUME IInv PROVE LiveRowsFollowCutoff
    <2> SUFFICES ASSUME NEW t \in Token, Live(t)
                 PROVE  rows[t].createdAt >= user.cutoff
        BY DEF LiveRowsFollowCutoff
    <2>1. Minted(t) /\ Stored(t) /\ ~rows[t].revoked
        BY DEF Live, Minted, Stored
    <2> QED
        BY <1>1, <2>1 DEF IInv, TableInv, EndedOK
<1> QED
    BY <1>1, IInvInvariant, PTL
=============================================================================
