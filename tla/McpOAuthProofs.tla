---------------------------- MODULE McpOAuthProofs ----------------------------
(***************************************************************************)
(* Proofs about McpOAuth, for any attempts, requests and credentials, any  *)
(* lifetimes and any clock resolution: a sign-in goes on through one token *)
(* or one exchange at a time, renewing it never extends it, and the end of *)
(* all sessions, or the revocation of its grant, ends what it gave, but    *)
(* for the access token an exchange in flight at that moment stores.       *)
(***************************************************************************)
EXTENDS McpOAuth, FiniteSetTheorems, TLAPS

(* A whole second that an instant up to t, or before t, falls in. *)
Upto(s, t) == \E u \in Nat : u <= t /\ s = wholeSecond(u)
Before(s, t) == \E u \in Nat : u < t /\ s = wholeSecond(u)

(* Whole seconds and cutoffs follow the clock; a cutoff is past every second *)
(* that began before it was taken.                                          *)
LEMMA Seconds ==
    /\ \A t \in Nat : wholeSecond(t) \in 0 .. t /\ nextWholeSecond(t) \in Nat
    /\ \A t, u \in Nat : t <= u => wholeSecond(t) <= wholeSecond(u)
    /\ \A t, u \in Nat : t <= u => nextWholeSecond(t) <= nextWholeSecond(u)
    /\ \A t, u \in Nat : t < u => wholeSecond(t) < wholeSecond(nextWholeSecond(u))
<1>1. \A t \in Nat : wholeSecond(t) \in 0 .. t /\ nextWholeSecond(t) \in Nat
  BY TicksPerSecondAssumption DEF wholeSecond, nextWholeSecond
<1>2. \A t, u \in Nat : t <= u => wholeSecond(t) <= wholeSecond(u)
  BY TicksPerSecondAssumption DEF wholeSecond
<1>3. \A t, u \in Nat : t <= u => nextWholeSecond(t) <= nextWholeSecond(u)
  BY TicksPerSecondAssumption DEF nextWholeSecond
<1>4. \A t, u \in Nat : t < u => wholeSecond(t) < wholeSecond(nextWholeSecond(u))
  BY TicksPerSecondAssumption DEF wholeSecond, nextWholeSecond
<1> QED
  BY <1>1, <1>2, <1>3, <1>4

(* What a past instant is before. *)
LEMMA Instants ==
    /\ \A t \in Nat : Upto(wholeSecond(t), t)
    /\ \A t, v \in Nat : \A s : Upto(s, t) /\ t < v => Before(s, v) /\ Upto(s, v)
    /\ \A t \in Nat : \A s : Before(s, t) => s \in Nat /\ s < wholeSecond(nextWholeSecond(t))
<1>1. \A t \in Nat : Upto(wholeSecond(t), t)
  BY DEF Upto
<1>2. \A t, v \in Nat : \A s : Upto(s, t) /\ t < v => Before(s, v) /\ Upto(s, v)
  BY DEF Upto, Before
<1>3. \A t \in Nat : \A s : Before(s, t) => s \in Nat /\ s < wholeSecond(nextWholeSecond(t))
  BY Seconds DEF Before
<1> QED
  BY <1>1, <1>2, <1>3

(* An attempt has a grant from its consent on, and is revoked only while the *)
(* grant is gone.                                                           *)
PageOK(x, stored) ==
    /\ x.page \in {"login", "comparing", "signedIn", "consent"} =>
           x.grant = NoAttempt /\ ~x.revoked
    /\ x.page \in {"approved", "consented", "granted"} => x.grant \in Attempt
    /\ x.page \notin {"login", "comparing", "done"} => x.ts \in Time
    /\ x.revoked => x.grant \notin stored

PagesOK == \A a \in Attempt : PageOK(attempt[a], grants)

(* What is stored descends from an attempt that is done, and keeps its ts. *)
RowsOK ==
    \A c \in Credential :
        /\ row[c].kind # "none" =>
               /\ row[c].lineage \in Attempt
               /\ attempt[row[c].lineage].page = "done"
               /\ attempt[row[c].lineage].grant \in Attempt
        /\ row[c].kind \in {"code", "refresh"} =>
               row[c].authTime \in Time /\ row[c].authTime = attempt[row[c].lineage].ts
        /\ row[c].kind = "access" => row[c].iat \in Time

(* An exchange under way has a token and something to do. *)
ReqOK ==
    \A r \in Request : req[r] # Idle =>
        /\ req[r].token \in Credential /\ req[r].todo # {}
        /\ row[req[r].token].kind \in {"code", "refresh"}

Redeemable(c) == row[c].kind \in {"code", "refresh"} /\ Consumable(c)

Renewing(r) == req[r] # Idle /\ "refresh" \in req[r].todo /\ "consume" \notin req[r].todo

LineageOf(r) == row[req[r].token].lineage

(* A sign-in goes on through one token or one exchange at a time. *)
OneWayOn ==
    /\ \A c, d \in Credential :
           Redeemable(c) /\ Redeemable(d) /\ row[c].lineage = row[d].lineage => c = d
    /\ \A r, q \in Request :
           Renewing(r) /\ Renewing(q) /\ LineageOf(r) = LineageOf(q) => r = q
    /\ \A c \in Credential, r \in Request :
           ~(Redeemable(c) /\ Renewing(r) /\ row[c].lineage = LineageOf(r))

(* Once it has a refresh token its code is spent. *)
CodeSpent ==
    \A d \in Credential : row[d].kind = "refresh" =>
        /\ \A c \in Credential :
               ~(row[c].kind = "code" /\ Redeemable(c) /\ row[c].lineage = row[d].lineage)
        /\ \A r \in Request :
               ~(Renewing(r) /\ row[req[r].token].kind = "code" /\ LineageOf(r) = row[d].lineage)

(* Sign-ins and access tokens are of the past, or of this instant. *)
ClockOK ==
    /\ account.cutoff <= nextWholeSecond(now)
    /\ \A a \in Attempt : attempt[a].ts # Never =>
           Upto(attempt[a].ts, now) /\ (a \notin recent => Before(attempt[a].ts, now))
    /\ \A c \in Credential : row[c].kind = "access" =>
           Upto(row[c].iat, now) /\ (c \notin recent => Before(row[c].iat, now))

(* After the end of a sign-in only an exchange it overtook goes on.        *)
EndedOK ==
    /\ \A a \in Attempt : attempt[a].ended => attempt[a].ts < wholeSecond(account.cutoff)
    /\ \A r \in Request :
           /\ req[r] # Idle /\ attempt[LineageOf(r)].ended /\ ~req[r].overtaken
                  => "account" \in req[r].todo
           /\ req[r] # Idle /\ attempt[LineageOf(r)].revoked => req[r].overtaken
    /\ \A c \in Credential :
           /\ row[c].kind = "access" /\ row[c].iat >= wholeSecond(account.cutoff)
           /\ \/ attempt[row[c].lineage].ended
              \/ attempt[row[c].lineage].revoked /\ row[c].stored
           => c \in late

OAuthIInv ==
    /\ TypeOK /\ PagesOK /\ RowsOK /\ ReqOK
    /\ OneWayOn /\ CodeSpent
    /\ ClockOK /\ EndedOK

(* What is written of an attempt, a row and an exchange. *)
LEMMA AttemptWrites ==
    /\ NotBegun \in AttemptState /\ [NotBegun EXCEPT !.page = "done"] \in AttemptState
    /\ \A x \in AttemptState :
           /\ \A p \in Page : [x EXCEPT !.page = p] \in AttemptState
           /\ \A t \in Time : [x EXCEPT !.page = "signedIn", !.ts = t, !.ended = FALSE]
                                  \in AttemptState
           /\ \A g \in Attempt : [x EXCEPT !.page = "approved", !.grant = g] \in AttemptState
           /\ \A p \in Page, b \in BOOLEAN : [x EXCEPT !.page = p, !.revoked = b] \in AttemptState
           /\ \A b \in BOOLEAN : [x EXCEPT !.revoked = b] \in AttemptState
           /\ \A b \in BOOLEAN : [x EXCEPT !.ended = b] \in AttemptState
BY DEF AttemptState, NotBegun, Instant, Page

(* A row's marks keep it a row. *)
LEMMA RowWrites ==
    /\ NoRow \in Row
    /\ \A x \in Row, b \in BOOLEAN :
           [x EXCEPT !.stored = b] \in Row /\ [x EXCEPT !.consumed = b] \in Row
BY McpOAuthAssumption DEF Row, NoRow, Instant

(* What an exchange under way is and becomes. *)
LEMMA ExchangeWrites ==
    /\ Idle \in Exchange
    /\ \A c \in Credential : [token |-> c, todo |-> Task, overtaken |-> FALSE] \in Exchange
    /\ \A x \in Exchange :
           /\ \A t \in Task : [x EXCEPT !.todo = @ \ {t}] \in Exchange
           /\ \A b \in BOOLEAN : [x EXCEPT !.overtaken = b] \in Exchange
BY DEF Exchange, Idle

(* The page of one attempt goes on before its code; nothing else is written *)
(* but the session and the sign-ins of this instant.                        *)
LEMMA AttemptMoves ==
    ASSUME OAuthIInv, NEW a \in Attempt, NEW y \in AttemptState,
           attempt[a].page # "done", attempt' = [attempt EXCEPT ![a] = y],
           PageOK(y, grants), y.ended => y.ts < wholeSecond(account.cutoff),
           y.ts # Never => Upto(y.ts, now) /\ (a \notin recent' => Before(y.ts, now)),
           UNCHANGED <<now, account, grants, row, req, late>>,
           recent' = recent \/ recent' = recent \union {a},
           session' \in [signedInAt : Instant, grant : Attempt \union {NoAttempt}]
    PROVE  OAuthIInv'
<1> USE DEF OAuthIInv
<1>1. /\ attempt'[a] = y /\ \A b \in Attempt \ {a} : attempt'[b] = attempt[b]
      /\ attempt' \in [Attempt -> AttemptState]
  BY DEF TypeOK
<1>2. TypeOK'
  BY <1>1 DEF TypeOK
<1>3. PagesOK'
  BY <1>1 DEF PagesOK
<1>4. /\ \A c \in Credential : row[c].kind # "none" => attempt'[row[c].lineage] = attempt[row[c].lineage]
      /\ \A r \in Request : req[r] # Idle => attempt'[LineageOf(r)] = attempt[LineageOf(r)]
  BY <1>1 DEF RowsOK, ReqOK, LineageOf
<1>5. RowsOK'
  BY <1>4 DEF RowsOK
<1>6. ReqOK' /\ OneWayOn' /\ CodeSpent'
  BY DEF ReqOK, OneWayOn, CodeSpent, Redeemable, Renewing, LineageOf, Consumable
<1>7. ClockOK'
  BY <1>1 DEF ClockOK
<1>8. EndedOK'
  <2>1. \A b \in Attempt : attempt'[b].ended => attempt'[b].ts < wholeSecond(account.cutoff)
    BY <1>1 DEF EndedOK
  <2> QED
    BY <1>4, <2>1 DEF EndedOK, LineageOf
<1> QED
  BY <1>2, <1>3, <1>5, <1>6, <1>7, <1>8

(* One exchange goes on, ends or begins; it becomes the one way on only if  *)
(* it was it before.                                                        *)
LEMMA RequestMoves ==
    ASSUME OAuthIInv, NEW r \in Request, NEW z \in Exchange,
           req' = [req EXCEPT ![r] = z],
           UNCHANGED <<now, account, session, attempt, grants, row, recent, late>>,
           z # Idle =>
               /\ z.token \in Credential /\ z.todo # {}
               /\ row[z.token].kind \in {"code", "refresh"}
               /\ "refresh" \in z.todo /\ "consume" \notin z.todo =>
                      Renewing(r) /\ z.token = req[r].token
               /\ attempt[row[z.token].lineage].ended /\ ~z.overtaken => "account" \in z.todo
               /\ attempt[row[z.token].lineage].revoked => z.overtaken
    PROVE  OAuthIInv'
<1> USE DEF OAuthIInv
<1>1. /\ req'[r] = z /\ \A q \in Request \ {r} : req'[q] = req[q]
      /\ req' \in [Request -> Exchange]
  BY DEF TypeOK
<1>2. TypeOK'
  BY <1>1 DEF TypeOK
<1>3. PagesOK' /\ RowsOK' /\ ClockOK'
  BY DEF PagesOK, RowsOK, ClockOK
<1>4. ReqOK'
  BY <1>1 DEF ReqOK
<1>5. /\ \A q \in Request : Renewing(q)' => Renewing(q) /\ req'[q].token = req[q].token
      /\ \A c \in Credential : Redeemable(c)' <=> Redeemable(c)
  BY <1>1 DEF Renewing, Redeemable, Consumable
<1>6. OneWayOn'
  BY <1>5 DEF OneWayOn, LineageOf
<1>7. CodeSpent'
  BY <1>5 DEF CodeSpent, LineageOf
<1>8. EndedOK'
  BY <1>1 DEF EndedOK, LineageOf
<1> QED
  BY <1>2, <1>3, <1>4, <1>6, <1>7, <1>8

(* The pages: OAuthInteractionController and the provider. *)
LEMMA SigningIn ==
    ASSUME OAuthIInv, NEW a \in Attempt,
           VerifyCredentials(a) \/ FinishLogin(a) \/ ResumeLogin(a)
    PROVE  OAuthIInv'
<1> USE DEF OAuthIInv
<1>1. /\ attempt[a] \in AttemptState /\ PageOK(attempt[a], grants)
      /\ attempt[a].ended => attempt[a].ts < wholeSecond(account.cutoff)
      /\ attempt[a].ts # Never =>
             Upto(attempt[a].ts, now) /\ (a \notin recent => Before(attempt[a].ts, now))
      /\ session \in [signedInAt : Instant, grant : Attempt \union {NoAttempt}]
      /\ now \in Nat
  BY McpOAuthAssumption DEF TypeOK, Time, PagesOK, EndedOK, ClockOK
<1>2. CASE VerifyCredentials(a)
  <2> DEFINE y == [attempt[a] EXCEPT !.page = "comparing"]
  <2>1. attempt' = [attempt EXCEPT ![a] = y] /\ attempt[a].page = "login"
    BY <1>2 DEF VerifyCredentials, Goto
  <2>2. y \in AttemptState
    BY <1>1, AttemptWrites DEF Page
  <2>3. PageOK(y, grants) /\ y.ts = attempt[a].ts /\ y.ended = attempt[a].ended
    BY <1>1, <2>1 DEF PageOK, AttemptState
  <2>4. UNCHANGED <<now, account, grants, row, req, late, recent, session>>
    BY <1>2 DEF VerifyCredentials, history
  <2> HIDE DEF y
  <2> QED
    BY <1>1, <2>1, <2>2, <2>3, <2>4, AttemptMoves
<1>3. CASE FinishLogin(a)
  <2> DEFINE y == [attempt[a] EXCEPT !.page = "signedIn", !.ts = wholeSecond(now),
                                     !.ended = FALSE]
  <2>1. attempt' = [attempt EXCEPT ![a] = y] /\ attempt[a].page = "comparing"
    BY <1>3 DEF FinishLogin
  <2>2. wholeSecond(now) \in Time
    BY <1>1, Seconds, McpOAuthAssumption DEF TypeOK, Time
  <2>3. y \in AttemptState
    BY <1>1, <2>2, AttemptWrites
  <2>4. PageOK(y, grants) /\ y.ts = wholeSecond(now) /\ y.ended = FALSE
    BY <1>1, <2>1, <2>2 DEF PageOK, AttemptState
  <2>5. UNCHANGED <<now, account, grants, row, req, late, session>>
        /\ recent' = recent \union {a}
    BY <1>3 DEF FinishLogin
  <2>6. Upto(wholeSecond(now), now)
    BY <1>1, Instants
  <2> HIDE DEF y
  <2> QED
    BY <1>1, <2>1, <2>3, <2>4, <2>5, <2>6, AttemptMoves
<1>4. CASE ResumeLogin(a)
  <2>1. /\ attempt[a].page = "signedIn"
        /\ UNCHANGED <<now, account, grants, row, req, late, recent>>
        /\ session' \in [signedInAt : Instant, grant : Attempt \union {NoAttempt}]
    BY <1>1, <1>4 DEF ResumeLogin, history, AttemptState
  <2>2. CASE Goto(a, "consent")
    <3> DEFINE y == [attempt[a] EXCEPT !.page = "consent"]
    <3>1. attempt' = [attempt EXCEPT ![a] = y]
      BY <2>2 DEF Goto
    <3>2. y \in AttemptState
      BY <1>1, AttemptWrites DEF Page
    <3>3. PageOK(y, grants) /\ y.ts = attempt[a].ts /\ y.ended = attempt[a].ended
      BY <1>1, <2>1 DEF PageOK, AttemptState
    <3> HIDE DEF y
    <3> QED
      BY <1>1, <2>1, <3>1, <3>2, <3>3, AttemptMoves
  <2>3. CASE AskAgain(a)
    BY <2>1, <2>3, AttemptMoves, AttemptWrites DEF AskAgain, NotBegun, PageOK
  <2> QED
    BY <1>4, <2>2, <2>3 DEF ResumeLogin
<1> QED
  BY <1>2, <1>3, <1>4

(* The consent form, and an attempt given up. *)
LEMMA Consenting ==
    ASSUME OAuthIInv, NEW a \in Attempt, Confirm(a) \/ ResumeConsent(a) \/ Abandon(a)
    PROVE  OAuthIInv'
<1> USE DEF OAuthIInv
<1>1. /\ attempt[a] \in AttemptState /\ PageOK(attempt[a], grants)
      /\ attempt[a].ended => attempt[a].ts < wholeSecond(account.cutoff)
      /\ attempt[a].ts # Never =>
             Upto(attempt[a].ts, now) /\ (a \notin recent => Before(attempt[a].ts, now))
      /\ session \in [signedInAt : Instant, grant : Attempt \union {NoAttempt}]
  BY DEF TypeOK, PagesOK, EndedOK, ClockOK
<1>2. CASE Confirm(a)
  <2> DEFINE g == IF session.grant = NoAttempt THEN a ELSE session.grant
             y == [attempt[a] EXCEPT !.page = "approved", !.grant = g]
  <2>1. attempt' = [attempt EXCEPT ![a] = y] /\ attempt[a].page = "consent"
    BY <1>2 DEF Confirm
  <2>2. g \in Attempt
    BY <1>1
  <2>3. y \in AttemptState
    BY <1>1, <2>2, AttemptWrites
  <2>4. PageOK(y, grants) /\ y.ts = attempt[a].ts /\ y.ended = attempt[a].ended
    BY <1>1, <2>1, <2>2 DEF PageOK, AttemptState
  <2>5. UNCHANGED <<now, account, grants, row, req, late, recent, session>>
    BY <1>2 DEF Confirm, history
  <2> HIDE DEF y
  <2> QED
    BY <1>1, <2>1, <2>3, <2>4, <2>5, AttemptMoves
<1>3. CASE ResumeConsent(a)
  <2>1. /\ attempt[a].page = "consented"
        /\ UNCHANGED <<now, account, grants, row, req, late, recent>>
        /\ session' \in [signedInAt : Instant, grant : Attempt \union {NoAttempt}]
    BY <1>1, <1>3 DEF ResumeConsent, history, AttemptState
  <2>2. CASE Goto(a, "granted")
    <3> DEFINE y == [attempt[a] EXCEPT !.page = "granted"]
    <3>1. attempt' = [attempt EXCEPT ![a] = y]
      BY <2>2 DEF Goto
    <3>2. y \in AttemptState
      BY <1>1, AttemptWrites DEF Page
    <3>3. PageOK(y, grants) /\ y.ts = attempt[a].ts /\ y.ended = attempt[a].ended
      BY <1>1, <2>1 DEF PageOK, AttemptState
    <3> HIDE DEF y
    <3> QED
      BY <1>1, <2>1, <3>1, <3>2, <3>3, AttemptMoves
  <2>3. CASE AskAgain(a)
    BY <2>1, <2>3, AttemptMoves, AttemptWrites DEF AskAgain, NotBegun, PageOK
  <2> QED
    BY <1>3, <2>2, <2>3 DEF ResumeConsent
<1>4. CASE Abandon(a)
  <2> DEFINE y == [NotBegun EXCEPT !.page = "done"]
  <2>1. y \in AttemptState /\ PageOK(y, grants) /\ y.ts = Never /\ y.ended = FALSE
    BY AttemptWrites DEF PageOK, NotBegun
  <2>2. /\ attempt' = [attempt EXCEPT ![a] = y] /\ attempt[a].page # "done"
        /\ UNCHANGED <<now, account, grants, row, req, late, recent, session>>
    BY <1>4 DEF Abandon, history
  <2> HIDE DEF y
  <2> QED
    BY <1>1, <2>1, <2>2, AttemptMoves
<1> QED
  BY <1>2, <1>3, <1>4

(* A saved grant is revoked no more, for every attempt it covers. *)
LEMMA Saving ==
    ASSUME OAuthIInv, NEW a \in Attempt, SaveGrant(a)
    PROVE  OAuthIInv'
<1> USE DEF OAuthIInv
<1> DEFINE g == attempt[a].grant
<1>1. /\ attempt[a].page = "approved" /\ g \in Attempt /\ attempt[a].ts \in Time
      /\ grants' = grants \union {g}
      /\ UNCHANGED <<now, account, session, row, req, recent, late>>
  BY DEF SaveGrant, history, PagesOK, PageOK
<1>2. /\ attempt' \in [Attempt -> AttemptState]
      /\ \A b \in Attempt :
             /\ attempt'[b].page = IF b = a THEN "consented" ELSE attempt[b].page
             /\ attempt'[b].ts = attempt[b].ts /\ attempt'[b].grant = attempt[b].grant
             /\ attempt'[b].ended = attempt[b].ended
             /\ attempt'[b].revoked => attempt[b].revoked /\ attempt[b].grant # g
  <2>1. \A b \in Attempt : attempt[b] \in AttemptState
    BY DEF TypeOK
  <2>2. \A b \in Attempt :
            attempt'[b] = [attempt[b] EXCEPT
                              !.page = IF b = a THEN "consented" ELSE attempt[b].page,
                              !.revoked = attempt[b].revoked /\ attempt[b].grant # g]
    BY DEF SaveGrant
  <2>3. \A b \in Attempt : attempt'[b] \in AttemptState
    <3> TAKE b \in Attempt
    <3> DEFINE p == IF b = a THEN "consented" ELSE attempt[b].page
               v == attempt[b].revoked /\ attempt[b].grant # g
    <3>1. p \in Page /\ v \in BOOLEAN
      BY <2>1 DEF AttemptState, Page
    <3>2. [attempt[b] EXCEPT !.page = p, !.revoked = v] \in AttemptState
      BY <2>1, <3>1, AttemptWrites
    <3> QED
      BY <2>2, <3>2
  <2>4. attempt' \in [Attempt -> AttemptState]
    <3>1. attempt' = [b \in Attempt |-> attempt'[b]]
      BY DEF SaveGrant
    <3> QED
      BY <2>3, <3>1
  <2>5. \A b \in Attempt :
            /\ attempt'[b].page = IF b = a THEN "consented" ELSE attempt[b].page
            /\ attempt'[b].ts = attempt[b].ts /\ attempt'[b].grant = attempt[b].grant
            /\ attempt'[b].ended = attempt[b].ended
    BY <2>1, <2>2 DEF AttemptState
  <2>6. \A b \in Attempt :
            attempt'[b].revoked => attempt[b].revoked /\ attempt[b].grant # g
    <3> TAKE b \in Attempt
    <3>1. CASE attempt[b].revoked /\ attempt[b].grant # g
      BY <3>1
    <3>2. CASE ~(attempt[b].revoked /\ attempt[b].grant # g)
      <4>1. attempt'[b] = [attempt[b] EXCEPT
                              !.page = IF b = a THEN "consented" ELSE attempt[b].page,
                              !.revoked = FALSE]
        BY <2>2, <3>2
      <4> QED
        BY <2>1, <4>1 DEF AttemptState
    <3> QED
      BY <3>1, <3>2
  <2> QED
    BY <2>4, <2>5, <2>6
<1>3. TypeOK'
  BY <1>1, <1>2 DEF TypeOK
<1>4. PagesOK'
  BY <1>1, <1>2 DEF PagesOK, PageOK
<1>5. RowsOK'
  BY <1>1, <1>2 DEF RowsOK
<1>6. ReqOK' /\ OneWayOn' /\ CodeSpent'
  BY <1>1 DEF ReqOK, OneWayOn, CodeSpent, Redeemable, Renewing, LineageOf, Consumable
<1>7. ClockOK'
  BY <1>1, <1>2 DEF ClockOK
<1>8. EndedOK'
  <2>1. /\ \A c \in Credential : row[c].kind = "access" => row[c].lineage \in Attempt
        /\ \A r \in Request : req[r] # Idle => LineageOf(r) \in Attempt
    BY DEF RowsOK, ReqOK, LineageOf
  <2> QED
    BY <1>1, <1>2, <2>1 DEF EndedOK, LineageOf
<1> QED
  BY <1>3, <1>4, <1>5, <1>6, <1>7, <1>8

(* The exchanges that only go on: findAccount, a failed consume, a death,  *)
(* and a token presented for the first time.                               *)
LEMMA Exchanging ==
    ASSUME OAuthIInv, NEW r \in Request,
           UNCHANGED <<now, account, session, attempt, grants, row, recent, late>>,
           \/ Fail(r)
           \/ req[r] # Idle /\ Done(r, "account")
                  /\ ~attempt[LineageOf(r)].ended
           \/ \E c \in Credential :
                  /\ row[c].kind \in {"code", "refresh"} /\ ~attempt[row[c].lineage].revoked
                  /\ req' = [req EXCEPT ![r] = [token |-> c, todo |-> Task, overtaken |-> FALSE]]
    PROVE  OAuthIInv'
<1> USE DEF OAuthIInv
<1>1. CASE Fail(r)
  BY <1>1, RequestMoves, ExchangeWrites DEF Fail
<1>2. CASE req[r] # Idle /\ Done(r, "account") /\ ~attempt[LineageOf(r)].ended
  <2>1. req[r] \in Exchange
    BY DEF TypeOK
  <2>2. CASE req[r].todo = {"account"}
    BY <1>2, <2>2, RequestMoves, ExchangeWrites DEF Done
  <2>3. CASE req[r].todo # {"account"}
    <3> DEFINE z == [req[r] EXCEPT !.todo = req[r].todo \ {"account"}]
    <3>1. req' = [req EXCEPT ![r] = z]
      BY <1>2, <2>3 DEF Done
    <3>2. z \in Exchange
      BY <2>1, ExchangeWrites DEF Task
    <3>3. /\ z.token = req[r].token /\ z.todo = req[r].todo \ {"account"}
          /\ z.overtaken = req[r].overtaken
      BY <2>1 DEF Exchange
    <3>4. /\ req[r].token \in Credential /\ req[r].todo # {}
          /\ row[req[r].token].kind \in {"code", "refresh"}
          /\ attempt[LineageOf(r)].revoked => req[r].overtaken
      BY <1>2 DEF ReqOK, EndedOK
    <3>5. z.todo # {}
      BY <2>3, <3>3, <3>4
    <3>6. "refresh" \in z.todo /\ "consume" \notin z.todo => Renewing(r)
      BY <1>2, <3>3 DEF Renewing
    <3> HIDE DEF z
    <3> QED
      BY <1>2, <3>1, <3>2, <3>3, <3>4, <3>5, <3>6, RequestMoves DEF LineageOf
  <2> QED
    BY <2>2, <2>3
<1>3. ASSUME NEW c \in Credential,
             row[c].kind \in {"code", "refresh"}, ~attempt[row[c].lineage].revoked,
             req' = [req EXCEPT ![r] = [token |-> c, todo |-> Task, overtaken |-> FALSE]]
      PROVE  OAuthIInv'
  <2> DEFINE z == [token |-> c, todo |-> Task, overtaken |-> FALSE]
  <2>1. z \in Exchange
    BY ExchangeWrites
  <2>2. z.token = c /\ z.todo = Task /\ "account" \in Task /\ "consume" \in Task
    BY DEF Task
  <2> HIDE DEF z
  <2>3. req' = [req EXCEPT ![r] = z]
    BY <1>3 DEF z
  <2> QED
    BY <1>3, <2>1, <2>2, <2>3, RequestMoves
<1> QED
  BY <1>1, <1>2, <1>3

(* A task is struck off, or the exchange is over. *)
LEMMA DoneMoves ==
    ASSUME TypeOK, NEW r \in Request, NEW task \in Task, task \in req[r].todo, Done(r, task)
    PROVE  /\ req[r] # Idle /\ req' \in [Request -> Exchange]
           /\ \A q \in Request \ {r} : req'[q] = req[q]
           /\ \/ req'[r] = Idle
              \/ /\ req'[r].token = req[r].token /\ req'[r].todo = req[r].todo \ {task}
                 /\ req'[r].todo # {} /\ req'[r].overtaken = req[r].overtaken
<1>1. req[r] \in Exchange /\ req[r] # Idle
  BY DEF TypeOK, Idle
<1>2. CASE req[r].todo = {task}
  <2>1. req' = [req EXCEPT ![r] = Idle]
    BY <1>2 DEF Done
  <2> QED
    BY <1>1, <2>1, ExchangeWrites DEF TypeOK
<1>3. CASE req[r].todo # {task}
  <2> DEFINE z == [req[r] EXCEPT !.todo = req[r].todo \ {task}]
  <2>1. req' = [req EXCEPT ![r] = z]
    BY <1>3 DEF Done
  <2>2. z \in Exchange
    BY <1>1, ExchangeWrites
  <2>3. /\ z.token = req[r].token /\ z.todo = req[r].todo \ {task}
        /\ z.overtaken = req[r].overtaken
    BY <1>1 DEF Exchange
  <2>4. z.todo # {}
    BY <1>3, <2>3
  <2> HIDE DEF z
  <2> QED
    BY <1>1, <2>1, <2>2, <2>3, <2>4 DEF TypeOK
<1> QED
  BY <1>2, <1>3

(* Nothing new to present and no new exchange about to store a token. *)
LEMMA Narrower ==
    ASSUME ReqOK, OneWayOn, CodeSpent,
           \A c \in Credential : Redeemable(c)' => Redeemable(c),
           \A c \in Credential : row[c].kind \in {"code", "refresh"} =>
               row'[c].kind = row[c].kind /\ row'[c].lineage = row[c].lineage,
           \A c \in Credential : row'[c].kind = "refresh" => row[c].kind = "refresh",
           \A r \in Request : Renewing(r)' => Renewing(r) /\ req'[r].token = req[r].token
    PROVE  OneWayOn' /\ CodeSpent'
<1>1. \A r \in Request : Renewing(r)' =>
          /\ LineageOf(r)' = LineageOf(r)
          /\ row'[req'[r].token].kind = row[req[r].token].kind
  BY DEF ReqOK, Renewing, LineageOf
<1>2. \A c \in Credential : Redeemable(c)' =>
          row'[c].lineage = row[c].lineage /\ row'[c].kind = row[c].kind
  BY DEF Redeemable
<1>3. OneWayOn'
  BY <1>1, <1>2 DEF OneWayOn
<1>4. CodeSpent'
  BY <1>1, <1>2 DEF CodeSpent
<1> QED
  BY <1>3, <1>4

(* A mark changes nothing else of a row, an attempt, an exchange. *)
LEMMA RowMarks ==
    \A x \in Row, b \in BOOLEAN :
        LET y == [x EXCEPT !.stored = b]
        IN  /\ y \in Row /\ y.kind = x.kind /\ y.lineage = x.lineage
            /\ y.authTime = x.authTime /\ y.iat = x.iat /\ y.expiresAt = x.expiresAt
            /\ y.consumed = x.consumed /\ y.stored = b
BY DEF Row

LEMMA RevokedMarks ==
    \A x \in AttemptState, b \in BOOLEAN :
        LET y == [x EXCEPT !.revoked = b]
        IN  /\ y \in AttemptState /\ y.page = x.page /\ y.ts = x.ts /\ y.grant = x.grant
            /\ y.ended = x.ended /\ y.revoked = b
BY DEF AttemptState

(* The same of the mark of an ended sign-in. *)
LEMMA EndedMarks ==
    \A x \in AttemptState, b \in BOOLEAN :
        LET y == [x EXCEPT !.ended = b]
        IN  /\ y \in AttemptState /\ y.page = x.page /\ y.ts = x.ts /\ y.grant = x.grant
            /\ y.ended = b /\ y.revoked = x.revoked
BY DEF AttemptState

(* The same of the mark of an exchange that was overtaken. *)
LEMMA ExchangeMarks ==
    \A x \in Exchange, b \in BOOLEAN :
        LET y == [x EXCEPT !.overtaken = b]
        IN  /\ y \in Exchange /\ y.token = x.token /\ y.todo = x.todo /\ y.overtaken = b
            /\ x = Idle /\ b = FALSE => y = Idle
            /\ y = Idle => x.todo = {}
<1>1. \A x \in Exchange, b \in BOOLEAN :
          LET y == [x EXCEPT !.overtaken = b]
          IN  /\ y \in Exchange /\ y.token = x.token /\ y.todo = x.todo /\ y.overtaken = b
  BY DEF Exchange
<1>2. \A x \in Exchange : [x EXCEPT !.overtaken = x.overtaken] = x
  BY DEF Exchange
<1>3. Idle.overtaken = FALSE /\ Idle.todo = {}
  BY DEF Idle
<1>4. \A x \in Exchange, b \in BOOLEAN :
          x = Idle /\ b = FALSE => [x EXCEPT !.overtaken = b] = Idle
  BY <1>2, <1>3
<1>5. \A x \in Exchange, b \in BOOLEAN : [x EXCEPT !.overtaken = b] = Idle => x.todo = {}
  BY <1>1, <1>3
<1> QED
  BY <1>1, <1>4, <1>5

(* A replay: everything of the grant goes, and what is in flight is marked. *)
LEMMA Replaying ==
    ASSUME OAuthIInv, NEW g \in grants, revokeByGrantId(g),
           UNCHANGED <<now, account, session, recent, late>>
    PROVE  OAuthIInv'
<1> USE DEF OAuthIInv
<1>1. /\ g \in Attempt /\ g # NoAttempt /\ grants' = grants \ {g}
      /\ \A c \in Credential : row[c] \in Row
      /\ \A a \in Attempt : attempt[a] \in AttemptState
      /\ \A r \in Request : req[r] \in Exchange
  BY McpOAuthAssumption DEF TypeOK, revokeByGrantId
<1>2. \A c \in Credential :
          /\ row'[c] \in Row
          /\ row'[c].kind = row[c].kind /\ row'[c].lineage = row[c].lineage
          /\ row'[c].authTime = row[c].authTime /\ row'[c].iat = row[c].iat
          /\ row'[c].consumed = row[c].consumed
          /\ row'[c].stored => row[c].stored /\ GrantOf(c) # g
  <2> TAKE c \in Credential
  <2> DEFINE v == row[c].stored /\ GrantOf(c) # g
  <2>1. row[c].stored \in BOOLEAN
    BY <1>1 DEF Row
  <2>2. v \in BOOLEAN
    BY <2>1
  <2>3. row'[c] = [row[c] EXCEPT !.stored = v]
    BY DEF revokeByGrantId
  <2>4. v => row[c].stored /\ GrantOf(c) # g
    OBVIOUS
  <2> HIDE DEF v
  <2> QED
    BY <1>1, <2>2, <2>3, <2>4, RowMarks
<1>3. \A a \in Attempt :
          /\ attempt'[a] \in AttemptState
          /\ attempt'[a].page = attempt[a].page /\ attempt'[a].ts = attempt[a].ts
          /\ attempt'[a].grant = attempt[a].grant /\ attempt'[a].ended = attempt[a].ended
          /\ attempt'[a].revoked => attempt[a].revoked \/ attempt[a].grant = g
  <2> TAKE a \in Attempt
  <2> DEFINE v == attempt[a].revoked \/ attempt[a].grant = g
  <2>1. attempt[a].revoked \in BOOLEAN
    BY <1>1 DEF AttemptState
  <2>2. v \in BOOLEAN
    BY <2>1
  <2>3. attempt'[a] = [attempt[a] EXCEPT !.revoked = v]
    BY DEF revokeByGrantId
  <2>4. v => attempt[a].revoked \/ attempt[a].grant = g
    OBVIOUS
  <2> HIDE DEF v
  <2> QED
    BY <1>1, <2>2, <2>3, <2>4, RevokedMarks
<1>4. \A r \in Request :
          /\ req'[r] \in Exchange
          /\ req'[r].token = req[r].token /\ req'[r].todo = req[r].todo
          /\ req'[r] # Idle => req[r] # Idle
          /\ req[r].overtaken => req'[r].overtaken
          /\ req[r] # Idle /\ GrantOf(req[r].token) = g => req'[r].overtaken
  <2> TAKE r \in Request
  <2> DEFINE v == req[r].overtaken \/ (req[r] # Idle /\ GrantOf(req[r].token) = g)
  <2>1. req[r].overtaken \in BOOLEAN
    BY <1>1 DEF Exchange
  <2>2. v \in BOOLEAN /\ (req[r] = Idle => v = FALSE)
    BY <2>1 DEF Idle
  <2>3. req'[r] = [req[r] EXCEPT !.overtaken = v]
    BY DEF revokeByGrantId
  <2>4. /\ req[r].overtaken => v
        /\ req[r] # Idle /\ GrantOf(req[r].token) = g => v
    OBVIOUS
  <2> HIDE DEF v
  <2> QED
    BY <1>1, <2>2, <2>3, <2>4, ExchangeMarks
<1>5. TypeOK'
  <2>1. /\ row' = [c \in Credential |-> row'[c]] /\ attempt' = [a \in Attempt |-> attempt'[a]]
        /\ req' = [r \in Request |-> req'[r]]
    BY DEF revokeByGrantId
  <2> QED
    BY <1>1, <1>2, <1>3, <1>4, <2>1 DEF TypeOK
<1>6. PagesOK'
  BY <1>1, <1>3 DEF PagesOK, PageOK
<1>7. RowsOK'
  BY <1>2, <1>3 DEF RowsOK
<1>8. ReqOK'
  BY <1>2, <1>4 DEF ReqOK
<1>9. OneWayOn' /\ CodeSpent'
  <2>1. \A c \in Credential : Redeemable(c)' => Redeemable(c)
    BY <1>2 DEF Redeemable, Consumable
  <2>2. \A r \in Request : Renewing(r)' => Renewing(r) /\ req'[r].token = req[r].token
    BY <1>4 DEF Renewing
  <2> QED
    BY <1>2, <2>1, <2>2, Narrower
<1>10. ClockOK'
  BY <1>2, <1>3 DEF ClockOK
<1>11. EndedOK'
  <2>1. \A r \in Request : req'[r] # Idle =>
            /\ LineageOf(r)' = LineageOf(r) /\ LineageOf(r) \in Attempt
            /\ GrantOf(req[r].token) = attempt[LineageOf(r)].grant
    BY <1>2, <1>4 DEF ReqOK, RowsOK, LineageOf, GrantOf
  <2>2. \A r \in Request :
           /\ req'[r] # Idle /\ attempt'[LineageOf(r)'].ended /\ ~req'[r].overtaken
                  => "account" \in req'[r].todo
           /\ req'[r] # Idle /\ attempt'[LineageOf(r)'].revoked => req'[r].overtaken
    BY <1>3, <1>4, <2>1 DEF EndedOK
  <2>3. \A a \in Attempt : attempt'[a].ended => attempt'[a].ts < wholeSecond(account.cutoff)
    BY <1>3 DEF EndedOK
  <2>4. \A c \in Credential :
           /\ row'[c].kind = "access" /\ row'[c].iat >= wholeSecond(account.cutoff)
           /\ \/ attempt'[row'[c].lineage].ended
              \/ attempt'[row'[c].lineage].revoked /\ row'[c].stored
           => c \in late
    <3> TAKE c \in Credential
    <3>1. CASE row[c].kind = "access"
      <4>1. row[c].lineage \in Attempt /\ GrantOf(c) = attempt[row[c].lineage].grant
        BY <3>1 DEF RowsOK, GrantOf
      <4> QED
        BY <1>2, <1>3, <4>1 DEF EndedOK
    <3> QED
      BY <1>2, <3>1
  <2> QED
    BY <2>2, <2>3, <2>4 DEF EndedOK
<1> QED
  BY <1>5, <1>6, <1>7, <1>8, <1>9, <1>10, <1>11

(* Retention takes expired rows, and grants. *)
LEMMA Sweeping ==
    ASSUME OAuthIInv, runOnce
    PROVE  OAuthIInv'
<1> USE DEF OAuthIInv
<1>1. /\ grants' \subseteq grants
      /\ UNCHANGED <<now, account, session, attempt, req, recent, late>>
      /\ \A c \in Credential : row[c] \in Row
  BY DEF runOnce, history, TypeOK
<1>2. \A c \in Credential :
          /\ row'[c] \in Row
          /\ row'[c].kind = row[c].kind /\ row'[c].lineage = row[c].lineage
          /\ row'[c].authTime = row[c].authTime /\ row'[c].iat = row[c].iat
          /\ row'[c].consumed = row[c].consumed
          /\ row'[c].stored => row[c].stored
  <2> TAKE c \in Credential
  <2> DEFINE v == row[c].stored /\ ~Expired(c)
  <2>1. row[c].stored \in BOOLEAN
    BY <1>1 DEF Row
  <2>2. v \in BOOLEAN
    BY <2>1
  <2>3. row'[c] = [row[c] EXCEPT !.stored = v]
    BY DEF runOnce
  <2>4. v => row[c].stored
    OBVIOUS
  <2> HIDE DEF v
  <2> QED
    BY <1>1, <2>2, <2>3, <2>4, RowMarks
<1>3. TypeOK'
  <2>1. row' = [c \in Credential |-> row'[c]]
    BY DEF runOnce
  <2> QED
    BY <1>1, <1>2, <2>1 DEF TypeOK
<1>4. PagesOK'
  BY <1>1 DEF PagesOK, PageOK
<1>5. RowsOK'
  BY <1>1, <1>2 DEF RowsOK
<1>6. ReqOK'
  BY <1>1, <1>2 DEF ReqOK
<1>7. OneWayOn' /\ CodeSpent'
  <2>1. \A c \in Credential : Redeemable(c)' => Redeemable(c)
    BY <1>2 DEF Redeemable, Consumable
  <2>2. \A r \in Request : Renewing(r)' => Renewing(r) /\ req'[r].token = req[r].token
    BY <1>1 DEF Renewing
  <2> QED
    BY <1>2, <2>1, <2>2, Narrower
<1>8. ClockOK'
  BY <1>1, <1>2 DEF ClockOK
<1>9. EndedOK'
  <2>1. \A r \in Request : req[r] # Idle => LineageOf(r)' = LineageOf(r)
    BY <1>1, <1>2 DEF ReqOK, LineageOf
  <2> QED
    BY <1>1, <1>2, <2>1 DEF EndedOK
<1> QED
  BY <1>3, <1>4, <1>5, <1>6, <1>7, <1>8, <1>9

(* Every ending of all sessions: of the sign-ins that were complete, only   *)
(* exchanges under way now may still store an access token that is honoured. *)
LEMMA Ending ==
    ASSUME OAuthIInv, NEW usable \in BOOLEAN, EndSessions(usable)
    PROVE  OAuthIInv'
<1> USE DEF OAuthIInv
<1>1. /\ UNCHANGED <<now, session, grants, row, recent>>
      /\ account' = [usable |-> usable, cutoff |-> nextWholeSecond(now)]
      /\ late' = recent \intersect Credential
      /\ now \in Nat /\ account.cutoff \in Nat
      /\ \A a \in Attempt : attempt[a] \in AttemptState
      /\ \A r \in Request : req[r] \in Exchange
  BY McpOAuthAssumption DEF EndSessions, TypeOK, Time
<1>2. /\ account'.cutoff \in Nat /\ account' \in [usable : BOOLEAN, cutoff : Nat]
      /\ wholeSecond(account.cutoff) <= wholeSecond(account'.cutoff)
      /\ wholeSecond(account.cutoff) \in Nat /\ wholeSecond(account'.cutoff) \in Nat
      /\ account'.cutoff <= nextWholeSecond(now)
  BY <1>1, Seconds DEF ClockOK
<1>3. \A s : Before(s, now) => s < wholeSecond(account'.cutoff)
  BY <1>1, Instants
<1>4. \A a \in Attempt :
          /\ attempt'[a] \in AttemptState
          /\ attempt'[a].page = attempt[a].page /\ attempt'[a].ts = attempt[a].ts
          /\ attempt'[a].grant = attempt[a].grant /\ attempt'[a].revoked = attempt[a].revoked
          /\ attempt'[a].ended => attempt[a].ended \/ (attempt[a].ts # Never /\ a \notin recent)
  <2> TAKE a \in Attempt
  <2> DEFINE v == attempt[a].ended \/ (attempt[a].ts # Never /\ a \notin recent)
  <2>1. attempt[a].ended \in BOOLEAN
    BY <1>1 DEF AttemptState
  <2>2. v \in BOOLEAN
    BY <2>1
  <2>3. attempt'[a] = [attempt[a] EXCEPT !.ended = v]
    BY DEF EndSessions
  <2>4. v => attempt[a].ended \/ (attempt[a].ts # Never /\ a \notin recent)
    OBVIOUS
  <2> HIDE DEF v
  <2> QED
    BY <1>1, <2>2, <2>3, <2>4, EndedMarks
<1>5. \A r \in Request :
          /\ req'[r] \in Exchange
          /\ req'[r].token = req[r].token /\ req'[r].todo = req[r].todo
          /\ req'[r] # Idle => req[r] # Idle /\ req'[r].overtaken
  <2> TAKE r \in Request
  <2> DEFINE v == req[r] # Idle
  <2>1. v \in BOOLEAN /\ (req[r] = Idle => v = FALSE) /\ (v => req[r] # Idle) /\ (~v => req[r] = Idle)
    OBVIOUS
  <2>2. req'[r] = [req[r] EXCEPT !.overtaken = v]
    BY DEF EndSessions
  <2> HIDE DEF v
  <2> QED
    BY <1>1, <2>1, <2>2, ExchangeMarks
<1>6. TypeOK'
  <2>1. attempt' = [a \in Attempt |-> attempt'[a]] /\ req' = [r \in Request |-> req'[r]]
    BY DEF EndSessions
  <2> QED
    BY <1>1, <1>2, <1>4, <1>5, <2>1 DEF TypeOK
<1>7. PagesOK'
  BY <1>1, <1>4 DEF PagesOK, PageOK
<1>8. RowsOK'
  BY <1>1, <1>4 DEF RowsOK
<1>9. ReqOK'
  BY <1>1, <1>5 DEF ReqOK
<1>10. OneWayOn' /\ CodeSpent'
  <2>1. \A c \in Credential : Redeemable(c)' => Redeemable(c)
    BY <1>1 DEF Redeemable, Consumable
  <2>2. \A r \in Request : Renewing(r)' => Renewing(r) /\ req'[r].token = req[r].token
    BY <1>5 DEF Renewing
  <2> QED
    BY <1>1, <2>1, <2>2, Narrower
<1>11. ClockOK'
  BY <1>1, <1>2, <1>4 DEF ClockOK
<1>12. EndedOK'
  <2>1. \A a \in Attempt : attempt'[a].ended => attempt'[a].ts < wholeSecond(account'.cutoff)
    <3> SUFFICES ASSUME NEW a \in Attempt, attempt'[a].ended
                 PROVE  attempt[a].ts < wholeSecond(account'.cutoff)
      BY <1>4
    <3>1. CASE attempt[a].ended
      <4>1. attempt[a].ts < wholeSecond(account.cutoff) /\ attempt[a].ts \in Int
        BY <1>1, <3>1 DEF EndedOK, AttemptState, Instant, Time, Never
      <4> QED
        BY <1>2, <4>1
    <3>2. CASE attempt[a].ts # Never /\ a \notin recent
      BY <1>3, <3>2 DEF ClockOK
    <3> QED
      BY <1>4, <3>1, <3>2
  <2>2. \A c \in Credential : row'[c].kind = "access" /\ row'[c].iat >= wholeSecond(account'.cutoff)
            => c \in late'
    <3> SUFFICES ASSUME NEW c \in Credential, row[c].kind = "access", c \notin recent
                 PROVE  ~(row[c].iat >= wholeSecond(account'.cutoff))
      BY <1>1
    <3>1. Before(row[c].iat, now)
      BY DEF ClockOK
    <3>2. row[c].iat \in Nat /\ row[c].iat < wholeSecond(account'.cutoff)
      BY <1>1, <3>1, Instants
    <3> QED
      BY <1>2, <3>2
  <2> QED
    BY <1>5, <2>1, <2>2 DEF EndedOK
<1> QED
  BY <1>6, <1>7, <1>8, <1>9, <1>10, <1>11, <1>12

(* A new row is of no exchange under way. *)
LEMMA Inserted ==
    ASSUME OAuthIInv, NEW x \in Credential, NEW new \in Row, row[x].kind = "none",
           row' = [row EXCEPT ![x] = new]
    PROVE  /\ row' \in [Credential -> Row] /\ row'[x] = new
           /\ \A c \in Credential \ {x} : row'[c] = row[c]
           /\ \A r \in Request : req[r] # Idle =>
                  req[r].token # x /\ row'[req[r].token] = row[req[r].token]
BY DEF OAuthIInv, TypeOK, ReqOK

(* The code of an attempt, the first credential of its sign-in. *)
LEMMA Coding ==
    ASSUME OAuthIInv, NEW a \in Attempt, IssueCode(a)
    PROVE  OAuthIInv'
<1> USE DEF OAuthIInv
<1> DEFINE new == [kind |-> "code", stored |-> TRUE, lineage |-> a,
                   authTime |-> attempt[a].ts, iat |-> Never,
                   expiresAt |-> now + CodeTtl, consumed |-> FALSE]
           y == [attempt[a] EXCEPT !.page = "done"]
<1>1. PICK x \in Credential :
          row[x].kind = "none" /\ row' = [row EXCEPT ![x] = new] /\ late' = late
          /\ recent' = recent
  BY DEF IssueCode, upsert
<1>2. /\ attempt[a].page = "granted" /\ attempt[a].ts \in Time /\ attempt[a].grant \in Attempt
      /\ attempt[a].revoked => attempt[a].grant \notin grants
      /\ attempt[a] \in AttemptState /\ now \in Time
      /\ UNCHANGED <<now, account, grants, req>>
      /\ session' = [session EXCEPT !.grant = attempt[a].grant]
      /\ attempt' = [attempt EXCEPT ![a] = y]
  BY DEF IssueCode, Goto, TypeOK, PagesOK, PageOK
<1>3. y \in AttemptState /\ y.page = "done" /\ y.ts = attempt[a].ts /\ y.grant = attempt[a].grant
      /\ y.ended = attempt[a].ended /\ y.revoked = attempt[a].revoked
  BY <1>2 DEF AttemptState, Page
<1>4. new \in Row
  <2>1. now + CodeTtl \in 0 .. MaxTime + CodeTtl + AccessTtl + RefreshTtl
    BY <1>2, McpOAuthAssumption DEF Time
  <2> QED
    BY <1>2, <2>1 DEF Row, Instant
<1>5. /\ new.kind = "code" /\ new.lineage = a /\ new.authTime = attempt[a].ts
  OBVIOUS
<1> HIDE DEF new, y
<1>6. /\ row' \in [Credential -> Row] /\ row'[x] = new
      /\ \A c \in Credential \ {x} : row'[c] = row[c]
      /\ \A r \in Request : req[r] # Idle =>
             req[r].token # x /\ row'[req[r].token] = row[req[r].token]
  BY <1>1, <1>4, Inserted
<1>7. /\ attempt' \in [Attempt -> AttemptState] /\ attempt'[a] = y
      /\ \A b \in Attempt \ {a} : attempt'[b] = attempt[b]
  BY <1>2, <1>3 DEF TypeOK
<1>8. /\ \A c \in Credential : row[c].kind # "none" => row[c].lineage \in Attempt \ {a}
      /\ \A r \in Request : req[r] # Idle =>
             LineageOf(r) \in Attempt \ {a} /\ LineageOf(r)' = LineageOf(r)
  BY <1>2, <1>6 DEF RowsOK, ReqOK, LineageOf
<1>9. TypeOK'
  BY <1>1, <1>2, <1>6, <1>7 DEF TypeOK
<1>10. PagesOK'
  BY <1>2, <1>3, <1>7 DEF PagesOK, PageOK
<1>11. RowsOK'
  BY <1>2, <1>3, <1>5, <1>6, <1>7, <1>8 DEF RowsOK
<1>12. ReqOK'
  BY <1>2, <1>6 DEF ReqOK
<1>13. /\ \A c \in Credential \ {x} : Redeemable(c)' => Redeemable(c) /\ row[c].lineage # a
       /\ \A r \in Request : Renewing(r)' =>
              /\ Renewing(r) /\ LineageOf(r)' = LineageOf(r) /\ LineageOf(r) # a
              /\ row'[req'[r].token].kind = row[req[r].token].kind
  BY <1>2, <1>6, <1>8 DEF Redeemable, Consumable, Renewing, LineageOf
<1>14. OneWayOn'
  BY <1>5, <1>6, <1>13 DEF OneWayOn
<1>15. CodeSpent'
  BY <1>5, <1>6, <1>8, <1>13 DEF CodeSpent
<1>16. ClockOK'
  BY <1>1, <1>2, <1>3, <1>5, <1>6, <1>7 DEF ClockOK
<1>17. EndedOK'
  BY <1>1, <1>2, <1>3, <1>5, <1>6, <1>7, <1>8 DEF EndedOK
<1> QED
  BY <1>9, <1>10, <1>11, <1>12, <1>14, <1>15, <1>16, <1>17

(* The token is consumed: the exchange is the sign-in's one way on now.    *)
LEMMA Consuming ==
    ASSUME OAuthIInv, NEW r \in Request, "consume" \in req[r].todo,
           Consumable(req[r].token),
           row' = [row EXCEPT ![req[r].token].consumed = TRUE], Done(r, "consume"),
           UNCHANGED <<now, account, session, attempt, grants, recent, late>>
    PROVE  OAuthIInv'
<1> USE DEF OAuthIInv
<1> DEFINE t == req[r].token
<1>1. /\ req[r] # Idle /\ req' \in [Request -> Exchange]
      /\ \A q \in Request \ {r} : req'[q] = req[q]
      /\ \/ req'[r] = Idle
         \/ /\ req'[r].token = t /\ req'[r].todo = req[r].todo \ {"consume"}
            /\ req'[r].todo # {} /\ req'[r].overtaken = req[r].overtaken
  BY DoneMoves DEF Task
<1>2. t \in Credential /\ row[t].kind \in {"code", "refresh"} /\ row[t] \in Row
      /\ \A c \in Credential : row[c] \in Row
  BY <1>1 DEF ReqOK, TypeOK
<1>3. row' \in [Credential -> Row]
      /\ row'[t] = [row[t] EXCEPT !.consumed = TRUE]
      /\ \A c \in Credential \ {t} : row'[c] = row[c]
  BY <1>2, RowWrites DEF TypeOK
<1>4. \A c \in Credential :
          /\ row'[c].kind = row[c].kind /\ row'[c].lineage = row[c].lineage
          /\ row'[c].authTime = row[c].authTime /\ row'[c].iat = row[c].iat
          /\ row'[c].stored = row[c].stored
          /\ c # t => row'[c].consumed = row[c].consumed
  BY <1>2, <1>3 DEF Row
<1>5. row'[t].consumed = TRUE
  BY <1>2, <1>3 DEF Row
<1>6. TypeOK'
  BY <1>1, <1>3 DEF TypeOK
<1>7. PagesOK' /\ RowsOK' /\ ClockOK'
  BY <1>4 DEF PagesOK, RowsOK, ClockOK
<1>8. ReqOK'
  BY <1>1, <1>4 DEF ReqOK
<1>9. /\ \A c \in Credential : Redeemable(c)' => Redeemable(c) /\ c # t
      /\ Redeemable(t)
      /\ \A q \in Request \ {r} : Renewing(q)' =>
             Renewing(q) /\ LineageOf(q)' = LineageOf(q)
             /\ row'[req'[q].token].kind = row[req[q].token].kind
      /\ Renewing(r)' => LineageOf(r)' = row[t].lineage
                         /\ row'[req'[r].token].kind = row[t].kind
  BY <1>1, <1>2, <1>4, <1>5 DEF Redeemable, Consumable, Renewing, LineageOf, ReqOK
<1>10. OneWayOn'
  BY <1>2, <1>4, <1>9 DEF OneWayOn
<1>11. CodeSpent'
  BY <1>2, <1>4, <1>9 DEF CodeSpent
<1>12. EndedOK'
  <2>1. \A q \in Request : req'[q] # Idle =>
            /\ req[q] # Idle /\ LineageOf(q)' = LineageOf(q)
            /\ req'[q].overtaken = req[q].overtaken
            /\ "account" \in req[q].todo => "account" \in req'[q].todo
    BY <1>1, <1>4 DEF LineageOf, ReqOK
  <2> QED
    BY <1>4, <2>1 DEF EndedOK
<1> QED
  BY <1>6, <1>7, <1>8, <1>10, <1>11, <1>12

(* An access token: of a sign-in that ended, or whose grant went, only by   *)
(* an exchange that was overtaken.                                          *)
LEMMA StoringAccess ==
    ASSUME OAuthIInv, NEW r \in Request, IssueAccessToken(r)
    PROVE  OAuthIInv'
<1> USE DEF OAuthIInv
<1> DEFINE t == req[r].token
           new == [kind |-> "access", stored |-> TRUE, lineage |-> row[t].lineage,
                   authTime |-> Never, iat |-> wholeSecond(now),
                   expiresAt |-> now + AccessTtl, consumed |-> FALSE]
<1>1. PICK x \in Credential :
          /\ row[x].kind = "none" /\ row' = [row EXCEPT ![x] = new]
          /\ recent' = recent \union {x}
          /\ late' = IF req[r].overtaken THEN late \union {x} ELSE late
  BY DEF IssueAccessToken, upsert
<1>2. /\ "access" \in req[r].todo /\ "account" \notin req[r].todo /\ "consume" \notin req[r].todo
      /\ Done(r, "access") /\ UNCHANGED <<now, account, session, attempt, grants>>
      /\ now \in Time /\ now \in Nat
  BY McpOAuthAssumption DEF IssueAccessToken, Issuing, TypeOK, Time
<1>3. /\ req[r] # Idle /\ req' \in [Request -> Exchange]
      /\ \A q \in Request \ {r} : req'[q] = req[q]
      /\ \/ req'[r] = Idle
         \/ /\ req'[r].token = t /\ req'[r].todo = req[r].todo \ {"access"}
            /\ req'[r].todo # {} /\ req'[r].overtaken = req[r].overtaken
  BY <1>2, DoneMoves DEF Task
<1>4. /\ t \in Credential /\ row[t].kind \in {"code", "refresh"} /\ row[t].lineage \in Attempt
      /\ attempt[row[t].lineage].page = "done" /\ attempt[row[t].lineage].grant \in Attempt
  BY <1>3 DEF ReqOK, RowsOK
<1>5. wholeSecond(now) \in Time /\ Upto(wholeSecond(now), now)
  <2>1. wholeSecond(now) \in 0 .. now /\ Upto(wholeSecond(now), now)
    BY <1>2, Seconds, Instants
  <2> QED
    BY <1>2, <2>1, McpOAuthAssumption DEF Time
<1>6. new \in Row
  <2>1. now + AccessTtl \in 0 .. MaxTime + CodeTtl + AccessTtl + RefreshTtl
    BY <1>2, McpOAuthAssumption DEF Time
  <2> QED
    BY <1>4, <1>5, <2>1 DEF Row, Instant
<1>7. new.kind = "access" /\ new.lineage = row[t].lineage /\ new.iat = wholeSecond(now)
  OBVIOUS
<1> HIDE DEF new
<1>8. /\ row' \in [Credential -> Row] /\ row'[x] = new
      /\ \A c \in Credential \ {x} : row'[c] = row[c]
      /\ \A q \in Request : req[q] # Idle =>
             req[q].token # x /\ row'[req[q].token] = row[req[q].token]
  BY <1>1, <1>6, Inserted
<1>9. \A q \in Request : req'[q] # Idle =>
          /\ req[q] # Idle /\ req'[q].token = req[q].token /\ req'[q].todo # {}
          /\ LineageOf(q)' = LineageOf(q) /\ row'[req'[q].token] = row[req[q].token]
          /\ req'[q].overtaken = req[q].overtaken
          /\ "account" \in req[q].todo => "account" \in req'[q].todo
          /\ Renewing(q)' => Renewing(q)
  BY <1>2, <1>3, <1>8 DEF LineageOf, Renewing, ReqOK
<1>10. TypeOK'
  BY <1>1, <1>2, <1>3, <1>8 DEF TypeOK
<1>11. PagesOK'
  BY <1>2 DEF PagesOK
<1>12. RowsOK'
  BY <1>2, <1>4, <1>5, <1>7, <1>8 DEF RowsOK
<1>13. ReqOK'
  BY <1>9 DEF ReqOK
<1>14. OneWayOn' /\ CodeSpent'
  <2>1. \A c \in Credential : Redeemable(c)' => Redeemable(c)
    BY <1>7, <1>8 DEF Redeemable, Consumable
  <2>2. \A q \in Request : Renewing(q)' => Renewing(q) /\ req'[q].token = req[q].token
    BY <1>9 DEF Renewing
  <2>3. \A c \in Credential : row[c].kind \in {"code", "refresh"} =>
            row'[c].kind = row[c].kind /\ row'[c].lineage = row[c].lineage
    BY <1>1, <1>8
  <2>4. \A c \in Credential : row'[c].kind = "refresh" => row[c].kind = "refresh"
    BY <1>7, <1>8
  <2> QED
    BY <2>1, <2>2, <2>3, <2>4, Narrower
<1>15. ClockOK'
  BY <1>1, <1>2, <1>5, <1>7, <1>8 DEF ClockOK
<1>16. EndedOK'
  <2>1. \A q \in Request :
           /\ req'[q] # Idle /\ attempt'[LineageOf(q)'].ended /\ ~req'[q].overtaken
                  => "account" \in req'[q].todo
           /\ req'[q] # Idle /\ attempt'[LineageOf(q)'].revoked => req'[q].overtaken
    BY <1>2, <1>9 DEF EndedOK
  <2>2. attempt[row[t].lineage].ended \/ attempt[row[t].lineage].revoked => x \in late'
    BY <1>1, <1>2, <1>3 DEF EndedOK, LineageOf
  <2>3. late \subseteq late'
    BY <1>1
  <2> QED
    BY <1>2, <1>7, <1>8, <2>1, <2>2, <2>3 DEF EndedOK
<1> QED
  BY <1>10, <1>11, <1>12, <1>13, <1>14, <1>15, <1>16

(* A refresh token: the exchange was the one way on, the token is now. *)
LEMMA StoringRefresh ==
    ASSUME OAuthIInv, NEW r \in Request, IssueRefreshToken(r)
    PROVE  OAuthIInv'
<1> USE DEF OAuthIInv
<1> DEFINE t == req[r].token
           new == [kind |-> "refresh", stored |-> TRUE, lineage |-> row[t].lineage,
                   authTime |-> row[t].authTime, iat |-> Never,
                   expiresAt |-> RefreshExpiry(t), consumed |-> FALSE]
<1>1. PICK x \in Credential :
          /\ row[x].kind = "none" /\ row' = [row EXCEPT ![x] = new]
          /\ recent' = recent /\ late' = late
  BY DEF IssueRefreshToken, upsert
<1>2. /\ "refresh" \in req[r].todo /\ "account" \notin req[r].todo /\ "consume" \notin req[r].todo
      /\ Done(r, "refresh") /\ UNCHANGED <<now, account, session, attempt, grants>>
      /\ now \in Time
  BY DEF IssueRefreshToken, Issuing, TypeOK
<1>3. /\ req[r] # Idle /\ req' \in [Request -> Exchange]
      /\ \A q \in Request \ {r} : req'[q] = req[q]
      /\ \/ req'[r] = Idle
         \/ /\ req'[r].token = t /\ req'[r].todo = req[r].todo \ {"refresh"}
            /\ req'[r].todo # {} /\ req'[r].overtaken = req[r].overtaken
  BY <1>2, DoneMoves DEF Task
<1>4. /\ t \in Credential /\ row[t].kind \in {"code", "refresh"} /\ row[t].lineage \in Attempt
      /\ row[t] \in Row
      /\ attempt[row[t].lineage].page = "done" /\ attempt[row[t].lineage].grant \in Attempt
      /\ row[t].authTime \in Time /\ row[t].authTime = attempt[row[t].lineage].ts
  BY <1>3 DEF ReqOK, RowsOK, TypeOK
<1>5. new \in Row
  <2>1. RefreshExpiry(t) \in 0 .. MaxTime + CodeTtl + AccessTtl + RefreshTtl
    <3>1. now + RefreshTtl \in 0 .. MaxTime + CodeTtl + AccessTtl + RefreshTtl
      BY <1>2, McpOAuthAssumption DEF Time
    <3>2. row[t].expiresAt \in 0 .. MaxTime + CodeTtl + AccessTtl + RefreshTtl
      BY <1>4 DEF Row
    <3> QED
      BY <3>1, <3>2 DEF RefreshExpiry
  <2> QED
    BY <1>4, <2>1 DEF Row, Instant
<1>6. new.kind = "refresh" /\ new.lineage = row[t].lineage /\ new.authTime = row[t].authTime
  OBVIOUS
<1> HIDE DEF new
<1>7. /\ row' \in [Credential -> Row] /\ row'[x] = new
      /\ \A c \in Credential \ {x} : row'[c] = row[c]
      /\ \A q \in Request : req[q] # Idle =>
             req[q].token # x /\ row'[req[q].token] = row[req[q].token]
  BY <1>1, <1>5, Inserted
<1>8. \A q \in Request : req'[q] # Idle =>
          /\ req[q] # Idle /\ req'[q].token = req[q].token /\ req'[q].todo # {}
          /\ LineageOf(q)' = LineageOf(q) /\ row'[req'[q].token] = row[req[q].token]
          /\ req'[q].overtaken = req[q].overtaken
          /\ "account" \in req[q].todo => "account" \in req'[q].todo
          /\ Renewing(q)' => Renewing(q) /\ q # r
  BY <1>2, <1>3, <1>7 DEF LineageOf, Renewing, ReqOK
<1>9. TypeOK'
  BY <1>1, <1>2, <1>3, <1>7 DEF TypeOK
<1>10. PagesOK'
  BY <1>2 DEF PagesOK
<1>11. RowsOK'
  BY <1>2, <1>4, <1>6, <1>7 DEF RowsOK
<1>12. ReqOK'
  BY <1>8 DEF ReqOK
<1>13. /\ Renewing(r) /\ LineageOf(r) = row[t].lineage
       /\ \A c \in Credential \ {x} : Redeemable(c)' => Redeemable(c)
       /\ \A q \in Request : Renewing(q)' =>
              /\ Renewing(q) /\ q # r /\ LineageOf(q)' = LineageOf(q)
              /\ row'[req'[q].token].kind = row[req[q].token].kind
  BY <1>2, <1>3, <1>7, <1>8 DEF Redeemable, Consumable, Renewing, LineageOf
<1>14. OneWayOn'
  BY <1>6, <1>7, <1>13 DEF OneWayOn
<1>15. CodeSpent'
  BY <1>6, <1>7, <1>13 DEF CodeSpent, OneWayOn
<1>16. ClockOK'
  BY <1>1, <1>2, <1>6, <1>7 DEF ClockOK
<1>17. EndedOK'
  BY <1>1, <1>2, <1>6, <1>7, <1>8 DEF EndedOK
<1> QED
  BY <1>9, <1>10, <1>11, <1>12, <1>14, <1>15, <1>16, <1>17

(* A refresh token that is stored stays what it is, but for its marks. *)
LEMMA RefreshTokensStay ==
    ASSUME OAuthIInv, RenewalNeverExtends,
           \A c \in Credential : row'[c].kind = "refresh" =>
               /\ row[c].kind = "refresh" /\ row'[c].lineage = row[c].lineage
               /\ row'[c].expiresAt = row[c].expiresAt
    PROVE  RenewalNeverExtends'
BY DEF RenewalNeverExtends

(* Every step keeps the refresh tokens of a sign-in together. *)
LEMMA RenewalKept ==
    ASSUME OAuthIInv, RenewalNeverExtends, Next
    PROVE  RenewalNeverExtends'
<1> USE DEF OAuthIInv
<1>1. CASE UNCHANGED row
  BY <1>1, RefreshTokensStay
<1>2. ASSUME NEW g \in grants, revokeByGrantId(g)
      PROVE  RenewalNeverExtends'
  <2>1. ASSUME NEW c \in Credential
        PROVE  /\ row'[c].kind = row[c].kind /\ row'[c].lineage = row[c].lineage
               /\ row'[c].expiresAt = row[c].expiresAt
    <3> DEFINE v == row[c].stored /\ GrantOf(c) # g
    <3>1. row[c] \in Row /\ row[c].stored \in BOOLEAN
      BY DEF TypeOK, Row
    <3>2. v \in BOOLEAN
      BY <3>1
    <3>3. row'[c] = [row[c] EXCEPT !.stored = v]
      BY <1>2 DEF revokeByGrantId
    <3> HIDE DEF v
    <3> QED
      BY <3>1, <3>2, <3>3, RowMarks
  <2> QED
    BY <2>1, RefreshTokensStay
<1>3. CASE runOnce
  <2>1. ASSUME NEW c \in Credential
        PROVE  /\ row'[c].kind = row[c].kind /\ row'[c].lineage = row[c].lineage
               /\ row'[c].expiresAt = row[c].expiresAt
    <3> DEFINE v == row[c].stored /\ ~Expired(c)
    <3>1. row[c] \in Row /\ row[c].stored \in BOOLEAN
      BY DEF TypeOK, Row
    <3>2. v \in BOOLEAN
      BY <3>1
    <3>3. row'[c] = [row[c] EXCEPT !.stored = v]
      BY <1>3 DEF runOnce
    <3> HIDE DEF v
    <3> QED
      BY <3>1, <3>2, <3>3, RowMarks
  <2> QED
    BY <2>1, RefreshTokensStay
<1>4. ASSUME NEW r \in Request, consume(r)
      PROVE  RenewalNeverExtends'
  <2>1. CASE row' = [row EXCEPT ![req[r].token].consumed = TRUE]
    <3>1. \A c \in Credential : row[c] \in Row
      BY DEF TypeOK
    <3>2. \A c \in Credential :
              /\ row'[c].kind = row[c].kind /\ row'[c].lineage = row[c].lineage
              /\ row'[c].expiresAt = row[c].expiresAt
      BY <2>1, <3>1 DEF TypeOK, Row
    <3> QED
      BY <3>2, RefreshTokensStay
  <2> QED
    BY <1>1, <1>4, <2>1 DEF consume
<1>5. ASSUME NEW a \in Attempt, IssueCode(a)
      PROVE  RenewalNeverExtends'
  <2> DEFINE new == [kind |-> "code", stored |-> TRUE, lineage |-> a,
                     authTime |-> attempt[a].ts, iat |-> Never,
                     expiresAt |-> now + CodeTtl, consumed |-> FALSE]
  <2>1. PICK x \in Credential : row' = [row EXCEPT ![x] = new]
    BY <1>5 DEF IssueCode, upsert
  <2>2. row'[x].kind = "code" /\ \A c \in Credential \ {x} : row'[c] = row[c]
    BY <2>1 DEF TypeOK
  <2> QED
    BY <2>2, RefreshTokensStay
<1>6. ASSUME NEW r \in Request, IssueAccessToken(r)
      PROVE  RenewalNeverExtends'
  <2>1. PICK x \in Credential : \E new :
            row' = [row EXCEPT ![x] = new] /\ new.kind = "access"
    BY <1>6 DEF IssueAccessToken, upsert
  <2>2. row'[x].kind = "access" /\ \A c \in Credential \ {x} : row'[c] = row[c]
    BY <2>1 DEF TypeOK
  <2> QED
    BY <2>2, RefreshTokensStay
<1>7. ASSUME NEW r \in Request, IssueRefreshToken(r)
      PROVE  RenewalNeverExtends'
  <2> DEFINE t == req[r].token
  <2> DEFINE new == [kind |-> "refresh", stored |-> TRUE, lineage |-> row[t].lineage,
                     authTime |-> row[t].authTime, iat |-> Never,
                     expiresAt |-> RefreshExpiry(t), consumed |-> FALSE]
  <2>1. PICK x \in Credential : row' = [row EXCEPT ![x] = new]
    BY <1>7 DEF IssueRefreshToken, upsert
  <2>2. /\ row'[x].kind = "refresh" /\ row'[x].lineage = row[t].lineage
        /\ row'[x].expiresAt = RefreshExpiry(t)
        /\ \A c \in Credential \ {x} : row'[c] = row[c]
    BY <2>1 DEF TypeOK
  <2>3. Renewing(r) /\ t \in Credential /\ row[t].kind \in {"code", "refresh"}
    BY <1>7 DEF IssueRefreshToken, Issuing, Renewing, ReqOK, TypeOK, Idle
  <2>4. \A c \in Credential : row[c].kind = "refresh" /\ row[c].lineage = row[t].lineage =>
            row[c].expiresAt = RefreshExpiry(t)
    <3>1. CASE row[t].kind = "refresh"
      BY <2>3, <3>1 DEF RefreshExpiry, RenewalNeverExtends
    <3>2. CASE row[t].kind = "code"
      BY <2>3, <3>2 DEF CodeSpent, LineageOf
    <3> QED
      BY <2>3, <3>1, <3>2
  <2> QED
    BY <2>2, <2>4 DEF RenewalNeverExtends
<1>8. ASSUME NEW r \in Request, NEW c \in Credential, Present(r, c)
      PROVE  RenewalNeverExtends'
  BY <1>1, <1>2, <1>8 DEF Present
<1> QED
  BY <1>1, <1>3, <1>4, <1>5, <1>6, <1>7, <1>8
  DEF Next, VerifyCredentials, FinishLogin, ResumeLogin, Confirm, SaveGrant, ResumeConsent,
      Abandon, SessionLapses, findAccount, Die, EndSessions, Restore, Tick

(* Every step keeps the invariant. *)
LEMMA OAuthKept == OAuthIInv /\ [Next]_vars => OAuthIInv'
<1> SUFFICES ASSUME OAuthIInv, [Next]_vars
             PROVE  OAuthIInv'
  OBVIOUS
<1>1. ASSUME NEW a \in Attempt,
             \/ VerifyCredentials(a) \/ FinishLogin(a) \/ ResumeLogin(a)
             \/ Confirm(a) \/ SaveGrant(a) \/ ResumeConsent(a) \/ IssueCode(a) \/ Abandon(a)
      PROVE  OAuthIInv'
  BY <1>1, SigningIn, Consenting, Saving, Coding
<1>2. CASE SessionLapses
  BY <1>2 DEF SessionLapses, NoSession, Instant, history, OAuthIInv, TypeOK, PagesOK, RowsOK,
      ReqOK, OneWayOn, CodeSpent, Redeemable, Renewing, LineageOf, Consumable, ClockOK, EndedOK
<1>3. ASSUME NEW r \in Request, NEW c \in Credential, Present(r, c)
      PROVE  OAuthIInv'
  <2>1. /\ row[c].kind \in {"code", "refresh"} /\ GrantOf(c) \in grants
        /\ UNCHANGED <<now, account, session, recent, late>>
    BY <1>3 DEF Present, history
  <2>2. ~attempt[row[c].lineage].revoked
    BY <2>1 DEF OAuthIInv, RowsOK, PagesOK, PageOK, GrantOf
  <2>3. CASE row[c].consumed
    BY <1>3, <2>1, <2>3, Replaying DEF Present
  <2>4. CASE ~row[c].consumed
    BY <1>3, <2>1, <2>2, <2>4, Exchanging DEF Present
  <2> QED
    BY <2>3, <2>4
<1>4. ASSUME NEW r \in Request, findAccount(r)
      PROVE  OAuthIInv'
  <2>1. /\ req[r] # Idle /\ UNCHANGED <<now, account, session, attempt, grants, row, recent, late>>
        /\ req[r].token \in Credential /\ row[req[r].token].kind \in {"code", "refresh"}
    BY <1>4 DEF findAccount, history, Idle, OAuthIInv, ReqOK
  <2>2. CASE isAccountUsable(SignInTime(req[r].token))
    <3>1. row[req[r].token].authTime >= wholeSecond(account.cutoff)
      BY <2>2 DEF isAccountUsable, SignInTime
    <3>2. /\ LineageOf(r) \in Attempt
          /\ attempt[LineageOf(r)].ts = row[req[r].token].authTime
          /\ row[req[r].token].authTime \in Nat /\ account.cutoff \in Nat
      BY <2>1, McpOAuthAssumption DEF OAuthIInv, TypeOK, RowsOK, LineageOf, Time
    <3>3. wholeSecond(account.cutoff) \in Nat
      BY <3>2, Seconds
    <3>4. ~attempt[LineageOf(r)].ended
      BY <3>1, <3>2, <3>3 DEF OAuthIInv, EndedOK
    <3> QED
      BY <1>4, <2>1, <2>2, <3>4, Exchanging DEF findAccount
  <2> QED
    BY <1>4, <2>1, <2>2, Exchanging DEF findAccount
<1>5. ASSUME NEW r \in Request, consume(r)
      PROVE  OAuthIInv'
  <2>1. /\ "consume" \in req[r].todo
        /\ UNCHANGED <<now, account, session, attempt, grants, recent, late>>
    BY <1>5 DEF consume, history
  <2>2. CASE Consumable(req[r].token)
    BY <1>5, <2>1, <2>2, Consuming DEF consume
  <2>3. CASE ~Consumable(req[r].token)
    BY <1>5, <2>1, <2>3, Exchanging DEF consume
  <2> QED
    BY <2>2, <2>3
<1>6. ASSUME NEW r \in Request, Die(r)
      PROVE  OAuthIInv'
  BY <1>6, Exchanging DEF Die, history
<1>7. ASSUME NEW usable \in {account.usable, FALSE}, EndSessions(usable)
      PROVE  OAuthIInv'
  <2>1. usable \in BOOLEAN
    BY DEF OAuthIInv, TypeOK
  <2> QED
    BY <1>7, <2>1, Ending
<1>8. CASE Restore
  <2>1. /\ account'.cutoff = account.cutoff /\ account' \in [usable : BOOLEAN, cutoff : Nat]
        /\ UNCHANGED <<now, session, attempt, grants, row, req, recent, late>>
    BY <1>8 DEF Restore, history, OAuthIInv, TypeOK
  <2> QED
    BY <2>1 DEF OAuthIInv, TypeOK, PagesOK, RowsOK,
      ReqOK, OneWayOn, CodeSpent, Redeemable, Renewing, LineageOf, Consumable, ClockOK, EndedOK
<1>9. CASE Tick
  <2>1. /\ now' = now + 1 /\ now \in Nat /\ now' \in Time /\ now' \in Nat /\ recent' = {}
        /\ UNCHANGED <<account, session, attempt, grants, row, req, late>>
    BY <1>9, McpOAuthAssumption DEF Tick, OAuthIInv, TypeOK, Time
  <2>2. nextWholeSecond(now) <= nextWholeSecond(now') /\ nextWholeSecond(now) \in Nat
        /\ nextWholeSecond(now') \in Nat /\ account.cutoff \in Nat
    BY <2>1, Seconds DEF OAuthIInv, TypeOK
  <2>3. \A s : Upto(s, now) => Before(s, now') /\ Upto(s, now')
    BY <2>1, Instants
  <2>4. ClockOK'
    BY <2>1, <2>2, <2>3 DEF OAuthIInv, ClockOK
  <2> QED
    BY <2>1, <2>4 DEF OAuthIInv, TypeOK, PagesOK, RowsOK,
      ReqOK, OneWayOn, CodeSpent, Redeemable, Renewing, LineageOf, Consumable, EndedOK
<1>10. CASE runOnce
  BY <1>10, Sweeping
<1>11. CASE UNCHANGED vars
  BY <1>11 DEF vars, history, OAuthIInv, TypeOK, PagesOK, RowsOK,
      ReqOK, OneWayOn, CodeSpent, Redeemable, Renewing, LineageOf, Consumable, ClockOK, EndedOK
<1> QED
  BY <1>1, <1>2, <1>3, <1>4, <1>5, <1>6, <1>7, <1>8, <1>9, <1>10, <1>11,
     StoringAccess, StoringRefresh
  DEF Next

(* The initial state has nothing stored. *)
LEMMA OAuthBegins == Init => OAuthIInv /\ RenewalNeverExtends
<1> SUFFICES ASSUME Init
             PROVE  OAuthIInv /\ RenewalNeverExtends
  OBVIOUS
<1>1. TypeOK
  <2>1. /\ now \in Time /\ account \in [usable : BOOLEAN, cutoff : Nat]
        /\ session \in [signedInAt : Instant, grant : Attempt \union {NoAttempt}]
    BY McpOAuthAssumption DEF Init, NoSession, Instant, Time
  <2>2. /\ attempt \in [Attempt -> AttemptState] /\ row \in [Credential -> Row]
        /\ req \in [Request -> Exchange]
    BY AttemptWrites, RowWrites, ExchangeWrites DEF Init
  <2> QED
    BY <2>1, <2>2 DEF Init, TypeOK
<1>2. /\ \A c \in Credential : row[c].kind = "none"
      /\ \A r \in Request : req[r] = Idle
      /\ \A a \in Attempt : attempt[a] = NotBegun
      /\ now = 0 /\ account.cutoff = 0
  BY DEF Init, NoRow
<1>3. PagesOK /\ RowsOK /\ ReqOK /\ EndedOK
  BY <1>2 DEF PagesOK, PageOK, RowsOK, ReqOK, EndedOK, NotBegun
<1>4. OneWayOn /\ CodeSpent /\ RenewalNeverExtends
  BY <1>2 DEF OneWayOn, CodeSpent, Redeemable, Renewing, RenewalNeverExtends
<1>5. ClockOK
  <2>1. nextWholeSecond(0) \in Nat
    BY Seconds
  <2> QED
    BY <1>2, <2>1 DEF ClockOK, NotBegun
<1> QED
  BY <1>1, <1>3, <1>4, <1>5 DEF OAuthIInv

(* A set whose members are all the same has at most one.                  *)
LEMMA AtMostOne ==
    ASSUME NEW S, \A x, y \in S : x = y
    PROVE  Cardinality(S) \in {0, 1} /\ (S = {} => Cardinality(S) = 0)
<1>1. CASE S = {}
  BY <1>1, FS_EmptySet
<1>2. CASE S # {}
  <2>1. PICK x : S = {x}
    BY <1>2
  <2> QED
    BY <1>2, <2>1, FS_Singleton
<1> QED
  BY <1>1, <1>2

(* The rows, exchanges and times of the authorization server: which token   *)
(* or exchange a sign-in goes on by, and that an exchange that outlives the *)
(* end of its sign-in was in flight at that moment.                         *)
THEOREM OAuthInductive == Spec => []OAuthIInv
BY OAuthBegins, OAuthKept, PTL DEF Spec

(* However many exchanges of one code or refresh token run at once, on any  *)
(* number of requests, a sign-in goes on by one (OAuthPayloadAdapter).      *)
THEOREM OneWayOnOnly == Spec => [](TypeOK /\ OneRedeemable)
<1>1. OAuthIInv => TypeOK /\ OneRedeemable
  <2> SUFFICES ASSUME OAuthIInv, NEW a \in Attempt
               PROVE  Cardinality({c \in Credential :
                              /\ row[c].kind \in {"code", "refresh"}
                              /\ row[c].lineage = a
                              /\ Consumable(c)})
                      + Cardinality({r \in Request :
                              /\ req[r] # Idle
                              /\ row[req[r].token].lineage = a
                              /\ "refresh" \in req[r].todo /\ "consume" \notin req[r].todo}) <= 1
    BY DEF OneRedeemable, OAuthIInv
  <2> DEFINE R == {c \in Credential : /\ row[c].kind \in {"code", "refresh"}
                                      /\ row[c].lineage = a /\ Consumable(c)}
             Q == {r \in Request : /\ req[r] # Idle /\ row[req[r].token].lineage = a
                                   /\ "refresh" \in req[r].todo /\ "consume" \notin req[r].todo}
  <2>1. \A c \in R : Redeemable(c) /\ row[c].lineage = a /\ c \in Credential
    BY DEF Redeemable
  <2>2. \A r \in Q : Renewing(r) /\ LineageOf(r) = a /\ r \in Request
    BY DEF Renewing, LineageOf
  <2>3. /\ \A c, d \in R : c = d
        /\ \A r, q \in Q : r = q
        /\ R = {} \/ Q = {}
    BY <2>1, <2>2 DEF OAuthIInv, OneWayOn
  <2> HIDE DEF R, Q
  <2>4. Cardinality(R) + Cardinality(Q) <= 1
    BY <2>3, AtMostOne
  <2> QED
    BY <2>4 DEF R, Q
<1> QED
  BY <1>1, OAuthInductive, PTL

(* An ending of all sessions, and the revocation of a grant, end MCP access *)
(* but for what an exchange in flight at that moment stores                 *)
(* (verifyAccessToken, findAccount, revokeByGrantId).                        *)
THEOREM EndingsReachMcp == Spec => []AccessEndsWithSessions
<1>1. OAuthIInv => AccessEndsWithSessions
  BY DEF OAuthIInv, EndedOK, AccessEndsWithSessions, verifyAccessToken, find, isAccountUsable
<1> QED
  BY <1>1, OAuthInductive, PTL

(* Renewing never extends a sign-in: its refresh tokens expire together     *)
(* (ttl.RefreshToken).                                                      *)
THEOREM SignInsExpireOnce == Spec => []RenewalNeverExtends
<1>1. OAuthIInv /\ RenewalNeverExtends /\ [Next]_vars => RenewalNeverExtends'
  BY RenewalKept DEF vars, RenewalNeverExtends
<1> QED
  BY <1>1, OAuthBegins, OAuthInductive, PTL DEF Spec
=============================================================================
