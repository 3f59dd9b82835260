--------------------------- MODULE SessionsProofs ---------------------------
(***************************************************************************)
(* Proofs about Sessions.                                                  *)
(***************************************************************************)
EXTENDS Sessions, TLAPS

Request == [phase : Phases, key : Keys \union {NoKey}, session : {NoSession} \union Session,
            late : BOOLEAN, user : Users \union {NoUser}, version : Versions,
            since : Times \union {Missing}]

\* What a copy of a session, stored or carried by a request, says of its key:
\* it is of no later login than the last, of no earlier one than the last that
\* no request overlapped, and all logins of a key were with one password.
CopyOf(c, k) ==
    /\ c.hash = login[k].version
    /\ c.login_at # Missing => login[k].at # Missing /\ c.login_at =< login[k].at
    /\ restart[k] # Missing => c.login_at # Missing /\ restart[k] =< c.login_at

KeyHolds(k) ==
    /\ login[k].at # Missing => login[k].at =< now
    /\ restart[k] # Missing => k \in issued /\ restart[k] =< now

RowHolds(k) ==
    row[k] # NoSession =>
        /\ k \in issued /\ k \notin ended
        /\ row[k].expires =< now + IdleAge
        /\ CopyOf(row[k].session, k)

RequestHolds(r) ==
    /\ ~request[r].late
    /\ request[r].phase \in {"loaded", "served", "logged_in"} => request[r].session # NoSession
    /\ request[r].phase = "served" => request[r].session.login_at # Missing
    /\ request[r].phase = "verified" => request[r].user \in Users
    /\ request[r].phase = "logged_in" =>
         /\ request[r].since # Missing
         /\ request[r].session.login_at = request[r].since
    /\ request[r].session # NoSession =>
         /\ request[r].key \in Keys
         /\ CopyOf(request[r].session, request[r].key)
         /\ request[r].phase # "logged_in" => request[r].key \in issued

IInv ==
    /\ TypeOK
    /\ \A k \in Keys : KeyHolds(k) /\ RowHolds(k)
    /\ \A r \in Requests : RequestHolds(r)

-----------------------------------------------------------------------------
LEMMA NothingTyped ==
    /\ NoRequest \in Request /\ NoRequest.phase = "none"
    /\ NoRequest.session = NoSession /\ NoRequest.late = FALSE
    /\ Anonymous \in Request /\ Anonymous.phase = "anonymous"
    /\ Anonymous.session = NoSession /\ Anonymous.late = FALSE
<1>1. 1 \in Versions
    BY BoundsAssumption DEF Versions
<1>2. /\ NoRequest \in Request /\ NoRequest.phase = "none"
      /\ NoRequest.session = NoSession /\ NoRequest.late = FALSE
    BY <1>1 DEF NoRequest, Request, Phases
<1>3. /\ Anonymous \in Request /\ Anonymous.phase = "anonymous"
      /\ Anonymous.session = NoSession /\ Anonymous.late = FALSE
    BY <1>2 DEF Anonymous, Request, Phases
<1>. QED BY <1>2, <1>3

LEMMA Initially == ASSUME Init PROVE IInv
<1>1. 0 \in Times /\ 1 \in Versions /\ IdleAge \in 0 .. MaxTime + IdleAge
    BY BoundsAssumption, AgesAssumption DEF Times, Versions
<1>2. PICK user \in Users :
         row = [k \in Keys |->
                  IF k \in issued
                  THEN [session |-> [user |-> user, hash |-> 1, login_at |-> Missing],
                        expires |-> IdleAge]
                  ELSE NoSession]
    BY DEF Init
<1>3. row \in [Keys -> {NoSession} \union Row]
    BY <1>1, <1>2 DEF Row, Session
<1>4. \A k \in Keys : row[k] # NoSession =>
         /\ k \in issued /\ row[k].expires = IdleAge
         /\ row[k].session.hash = 1 /\ row[k].session.login_at = Missing
    BY <1>2
<1>5. TypeOK
    <2>1. \A k \in Keys : row[k] # NoSession => k \in issued /\ row[k].expires =< now + IdleAge
        BY <1>4, AgesAssumption DEF Init
    <2>2. request \in [Requests -> Request]
        BY NothingTyped DEF Init
    <2>. QED BY <1>1, <1>3, <2>1, <2>2, BoundsAssumption DEF Init, TypeOK, Request
<1>6. \A k \in Keys : KeyHolds(k)
    BY DEF Init, KeyHolds
<1>7. \A k \in Keys : RowHolds(k)
    BY <1>4, AgesAssumption DEF Init, RowHolds, CopyOf
<1>8. \A r \in Requests : RequestHolds(r)
    BY DEF Init, RequestHolds, NoRequest
<1>. QED BY <1>5, <1>6, <1>7, <1>8 DEF IInv

-----------------------------------------------------------------------------
(* The steps. *)

\* A request that moves on with a good copy, or none.
LEMMA RequestMoves ==
    ASSUME IInv, NEW r \in Requests, NEW q \in Request,
           request' = [request EXCEPT ![r] = q],
           ~q.late,
           q.phase \in {"loaded", "served"} => q.session # NoSession,
           q.phase = "served" => q.session.login_at # Missing,
           q.phase = "verified" => q.user \in Users,
           q.phase # "logged_in",
           q.session # NoSession =>
             q.key \in Keys /\ CopyOf(q.session, q.key) /\ q.key \in issued,
           UNCHANGED <<now, account, row, issued, login, restart, ended>>
    PROVE  IInv'
<1>1. request' \in [Requests -> Request]
    BY DEF IInv, TypeOK, Request
<1>2. TypeOK'
    BY <1>1 DEF IInv, TypeOK, Request, Times
<1>3. \A k \in Keys : (KeyHolds(k) /\ RowHolds(k))'
    BY DEF IInv, KeyHolds, RowHolds, CopyOf
<1>4. ASSUME NEW p \in Requests PROVE RequestHolds(p)'
    <2>1. request'[p] = IF p = r THEN q ELSE request[p]
        BY DEF IInv, TypeOK
    <2>2. CASE p = r
        BY <2>1, <2>2 DEF RequestHolds, CopyOf
    <2>3. CASE p # r
        BY <2>1, <2>3 DEF IInv, RequestHolds, CopyOf
    <2>. QED BY <2>2, <2>3
<1>. QED BY <1>2, <1>3, <1>4 DEF IInv

LEMMA BeginStep == ASSUME IInv, NEW r \in Requests, NEW k \in Keys \union {NoKey}, Begin(r, k) PROVE IInv'
<1>1. CASE k \in issued /\ row[k] # NoSession /\ row[k].expires > now
    <2>. DEFINE q == [NoRequest EXCEPT !.phase = "loaded", !.key = k, !.session = row[k].session,
                                       !.late = FALSE]
    <2>1. k \in Keys /\ row[k] \in Row
        BY <1>1 DEF IInv, TypeOK
    <2>2. row[k].session \in Session /\ row[k].session # NoSession
        BY <2>1, NothingAssumption DEF Row
    <2>3. RowHolds(k)
        BY <2>1 DEF IInv
    <2>4. k \notin ended /\ CopyOf(row[k].session, k)
        BY <1>1, <2>3 DEF RowHolds
    <2>5. q \in Request /\ q.phase = "loaded" /\ q.key = k /\ q.session = row[k].session /\ q.late = FALSE
        BY <2>1, <2>2, <2>4, NothingTyped DEF Request, Phases
    <2>6. (k \in ended) = FALSE
        BY <2>4
    <2>7. request' = [request EXCEPT ![r] = q]
        BY <1>1, <2>6 DEF Begin
    <2>. HIDE DEF q
    <2>. QED BY <1>1, <2>1, <2>2, <2>4, <2>5, <2>7, RequestMoves DEF Begin
<1>2. CASE ~(k \in issued /\ row[k] # NoSession /\ row[k].expires > now)
    <2>1. request' = [request EXCEPT ![r] = Anonymous]
        BY <1>2 DEF Begin
    <2>. QED BY <2>1, NothingTyped, RequestMoves DEF Begin
<1>. QED BY <1>1, <1>2

\* A flush: the row goes, and the request forgets the session.
LEMMA FlushStep ==
    ASSUME IInv, NEW r \in Requests, request[r].phase \in {"loaded", "served"}, Flush(r),
           UNCHANGED <<now, account, issued, login, restart>>
    PROVE  IInv'
<1>1. request[r].key \in Keys /\ request[r].key \in issued
    BY DEF IInv, RequestHolds
<1>2. request' \in [Requests -> Request] /\ request' = [request EXCEPT ![r] = Anonymous]
    BY NothingTyped DEF Flush, IInv, TypeOK, Request
<1>3. /\ row' \in [Keys -> {NoSession} \union Row]
      /\ \A k \in Keys : row'[k] = IF k = request[r].key THEN NoSession ELSE row[k]
    BY <1>1 DEF Flush, IInv, TypeOK
<1>4. ended' = ended \union {request[r].key}
    BY DEF Flush
<1>5. TypeOK'
    BY <1>1, <1>2, <1>3, <1>4 DEF IInv, TypeOK, Request, Times
<1>6. \A k \in Keys : (KeyHolds(k) /\ RowHolds(k))'
    BY <1>3, <1>4 DEF IInv, KeyHolds, RowHolds, CopyOf
<1>7. ASSUME NEW p \in Requests PROVE RequestHolds(p)'
    <2>1. request'[p] = IF p = r THEN Anonymous ELSE request[p]
        BY <1>2 DEF IInv, TypeOK
    <2>2. CASE p = r
        BY <2>1, <2>2, NothingTyped DEF RequestHolds
    <2>3. CASE p # r
        BY <2>1, <2>3 DEF IInv, RequestHolds, CopyOf
    <2>. QED BY <2>2, <2>3
<1>. QED BY <1>5, <1>6, <1>7 DEF IInv

LEMMA AuthenticateStep == ASSUME IInv, NEW r \in Requests, Authenticate(r) PROVE IInv'
<1>1. request[r] \in Request /\ RequestHolds(r) /\ request[r].phase = "loaded"
    BY DEF Authenticate, IInv, TypeOK, Request
<1>2. CASE Flush(r)
    BY <1>1, <1>2, FlushStep DEF Authenticate
<1>3. ASSUME NEW phase \in {"anonymous", "served"}, UNCHANGED <<row, ended>>,
             phase = "served" => ~TimedOut(request[r].session),
             request' = [request EXCEPT ![r].phase = phase, ![r].late = FALSE]
      PROVE  IInv'
    <2>. DEFINE q == [request[r] EXCEPT !.phase = phase, !.late = FALSE]
    <2>1. q \in Request /\ q.phase = phase /\ q.late = FALSE /\ q.key = request[r].key
          /\ q.session = request[r].session
        BY <1>1 DEF Request, Phases
    <2>2. request' = [request EXCEPT ![r] = q]
        BY <1>3 DEF IInv, TypeOK
    <2>. HIDE DEF q
    <2>3. phase \notin {"verified", "logged_in"}
        BY <1>3
    <2>4. phase = "served" => request[r].session.login_at # Missing
        BY <1>3 DEF TimedOut
    <2>. QED BY <1>1, <1>3, <2>1, <2>2, <2>3, <2>4, RequestMoves DEF Authenticate, RequestHolds
<1>. QED BY <1>2, <1>3 DEF Authenticate

LEMMA VerifyStep == ASSUME IInv, NEW r \in Requests, NEW u \in Users, Verify(r, u) PROVE IInv'
<1>. DEFINE q == [request[r] EXCEPT !.phase = "verified", !.user = u, !.version = account[u].version]
<1>1. request[r] \in Request /\ RequestHolds(r) /\ request[r].phase # "logged_in"
    BY DEF Verify, IInv, TypeOK, Request
<1>2. account[u].version \in Versions
    BY DEF IInv, TypeOK
<1>3. q \in Request /\ q.phase = "verified" /\ q.late = request[r].late /\ q.key = request[r].key
      /\ q.session = request[r].session /\ q.user = u
    BY <1>1, <1>2 DEF Request, Phases
<1>4. request' = [request EXCEPT ![r] = q]
    BY DEF Verify, IInv, TypeOK
<1>. HIDE DEF q
<1>. QED BY <1>1, <1>3, <1>4, RequestMoves DEF Verify, RequestHolds

\* What a login and a change of password share: the request carries a session
\* under key k, whose last login is at t with the password of version v.
LEMMA NewSession ==
    ASSUME IInv, NEW r \in Requests, NEW k \in Keys, NEW q \in Request,
           NEW t \in Times, NEW v \in Versions, request[r].phase # "logged_in",
           q.phase = "logged_in", q.key = k, q.session \in Session, ~q.late,
           q.session.hash = v, q.session.login_at = q.since, q.since \in Times,
           q.since =< t, t =< now,
           request' = [request EXCEPT ![r] = q],
           login' = [login EXCEPT ![k] = [at |-> t, version |-> v]],
           account' \in [Users -> [version : Versions, active : BOOLEAN]],
           UNCHANGED <<now, issued, restart>>,
           \* the key is kept with its password version, or fresh
           \/ /\ login[k].version = v /\ q.since = now
              /\ UNCHANGED <<row, ended>>
           \/ /\ k \in FreshKeys
              /\ \/ UNCHANGED <<row, ended>>
                 \/ /\ request[r].session # NoSession
                    /\ row' = [row EXCEPT ![request[r].key] = NoSession]
                    /\ ended' = ended \union {request[r].key}
    PROVE  IInv'
<1>1. request[r] \in Request /\ RequestHolds(r)
    BY DEF IInv, TypeOK, Request
<1>2. /\ now \in Int /\ t # Missing /\ t \in Int /\ q.since # Missing /\ q.since \in Int
    BY NothingAssumption, BoundsAssumption DEF IInv, TypeOK, Times
<1>3. login' \in [Keys -> [at : Times \union {Missing}, version : Versions]]
    BY <1>2 DEF IInv, TypeOK
<1>4. /\ login'[k].at = t /\ login'[k].version = v
      /\ \A j \in Keys \ {k} : login'[j] = login[j]
    BY DEF IInv, TypeOK
<1>5. /\ row' \in [Keys -> {NoSession} \union Row]
      /\ ended' \subseteq issued
      /\ \A j \in Keys : row'[j] # NoSession => row'[j] = row[j] /\ j \notin ended' \ ended
    <2>1. CASE UNCHANGED <<row, ended>>
        BY <2>1 DEF IInv, TypeOK
    <2>2. CASE /\ request[r].session # NoSession
               /\ row' = [row EXCEPT ![request[r].key] = NoSession]
               /\ ended' = ended \union {request[r].key}
        <3>1. request[r].key \in Keys /\ request[r].key \in issued
            BY <1>1, <2>2 DEF RequestHolds
        <3>. QED BY <2>2, <3>1 DEF IInv, TypeOK
    <2>. QED BY <2>1, <2>2
<1>6. TypeOK'
    <2>1. request' \in [Requests -> Request]
        BY DEF IInv, TypeOK, Request
    <2>2. \A j \in Keys : row'[j] # NoSession => j \in issued' /\ row'[j].expires =< now' + IdleAge
        BY <1>5 DEF IInv, TypeOK
    <2>. QED BY <1>3, <1>5, <2>1, <2>2 DEF IInv, TypeOK, Request, Times
\* What held of a copy holds still.
<1>7. ASSUME NEW c \in Session, NEW j \in Keys, CopyOf(c, j),
             j = k => login[k].version = v /\ t = now
      PROVE  CopyOf(c, j)'
    <2>1. CASE j # k
        BY <1>4, <1>7, <2>1 DEF CopyOf
    <2>2. CASE j = k
        <3>1. KeyHolds(k) /\ login[k].at \in Times \union {Missing} /\ c.login_at \in Times \union {Missing}
            BY DEF IInv, TypeOK, Session
        <3>2. c.login_at # Missing => c.login_at =< now
            BY <1>2, <1>7, <2>2, <3>1, BoundsAssumption DEF CopyOf, KeyHolds, Times
        <3>. QED BY <1>2, <1>4, <1>7, <2>2, <3>2 DEF CopyOf
    <2>. QED BY <2>1, <2>2
\* Of a fresh key there is no copy.
<1>8. ASSUME k \in FreshKeys
      PROVE  row[k] = NoSession /\ \A p \in Requests : request[p].key # k
    <2>1. RowHolds(k)
        BY DEF IInv
    <2>. QED BY <1>8, <2>1 DEF RowHolds, FreshKeys
<1>9. k \in FreshKeys \/ (login[k].version = v /\ t = now)
    BY <1>2
<1>10. ASSUME NEW j \in Keys PROVE (KeyHolds(j) /\ RowHolds(j))'
    <2>1. KeyHolds(j) /\ RowHolds(j)
        BY DEF IInv
    <2>2. KeyHolds(j)'
        BY <1>2, <1>4, <2>1 DEF KeyHolds
    <2>3. ASSUME row'[j] # NoSession, NEW c, c = row[j].session PROVE CopyOf(c, j)'
        <3>1. c \in Session /\ CopyOf(c, j)
            BY <1>5, <2>1, <2>3 DEF RowHolds, IInv, TypeOK, Row
        <3>2. j = k => login[k].version = v /\ t = now
            BY <1>5, <1>8, <1>9, <2>3
        <3>. QED BY <1>7, <3>1, <3>2
    <2>4. RowHolds(j)'
        <3>1. CASE row'[j] = NoSession
            BY <3>1 DEF RowHolds
        <3>2. CASE row'[j] # NoSession
            <4>1. row'[j] = row[j] /\ j \notin ended'
                BY <1>5, <2>1, <3>2 DEF RowHolds
            <4>2. PICK c : c = row[j].session
                OBVIOUS
            <4>3. CopyOf(c, j)' /\ c = row'[j].session
                BY <2>3, <3>2, <4>1, <4>2
            <4>4. j \in issued' /\ row'[j].expires =< now' + IdleAge
                BY <2>1, <3>2, <4>1 DEF RowHolds
            <4>. QED BY <4>1, <4>3, <4>4 DEF RowHolds, CopyOf
        <3>. QED BY <3>1, <3>2
    <2>. QED BY <2>2, <2>4
<1>11. ASSUME NEW p \in Requests PROVE RequestHolds(p)'
    <2>1. request'[p] = IF p = r THEN q ELSE request[p]
        BY DEF IInv, TypeOK
    <2>2. CASE p = r
        <3>1. q.session # NoSession
            BY NothingAssumption
        <3>2. KeyHolds(k) /\ restart[k] \in Times \union {Missing}
            BY DEF IInv, TypeOK
        <3>3. CopyOf(q.session, k)'
            BY <1>2, <1>4, <3>2 DEF CopyOf, KeyHolds, FreshKeys
        <3>. QED BY <1>2, <2>1, <2>2, <3>1, <3>3 DEF RequestHolds, CopyOf
    <2>3. CASE p # r
        <3>1. RequestHolds(p) /\ request[p] \in Request
            BY DEF IInv, TypeOK, Request
        <3>2. CASE request[p].session = NoSession
            BY <2>1, <2>3, <3>1, <3>2 DEF RequestHolds
        <3>3. CASE request[p].session # NoSession
            <4>1. request[p].session \in Session /\ request[p].key \in Keys
                BY <3>1, <3>3 DEF RequestHolds, Request
            <4>2. PICK c, j : c = request[p].session /\ j = request[p].key
                OBVIOUS
            <4>3. CopyOf(c, j)'
                BY <1>7, <1>8, <1>9, <3>1, <3>3, <4>1, <4>2 DEF RequestHolds
            <4>. QED BY <2>1, <2>3, <3>1, <3>3, <4>2, <4>3 DEF RequestHolds, CopyOf
        <3>. QED BY <3>2, <3>3
    <2>. QED BY <2>2, <2>3
<1>. QED BY <1>6, <1>10, <1>11 DEF IInv

LEMMA LoginStep == ASSUME IInv, NEW r \in Requests, Login(r) PROVE IInv'
<1>1. request[r] \in Request /\ RequestHolds(r) /\ request[r].phase = "verified"
    BY DEF Login, IInv, TypeOK, Request
<1>2. request[r].user \in Users /\ request[r].version \in Versions /\ now \in Times
    BY <1>1 DEF RequestHolds, Request, IInv, TypeOK
<1>3. /\ LoggedIn(r) \in Session
      /\ LoggedIn(r).hash = request[r].version /\ LoggedIn(r).login_at = now
    BY <1>2 DEF LoggedIn, Session
<1>4. PICK k \in IF SameLogin(r) THEN {request[r].key} ELSE FreshKeys :
        /\ request' = [request EXCEPT ![r] =
              [NoRequest EXCEPT !.phase = "logged_in", !.key = k, !.session = LoggedIn(r),
                                !.since = now]]
        /\ login' = [login EXCEPT ![k] = [at |-> now, version |-> request[r].version]]
        /\ IF SameLogin(r) \/ request[r].session = NoSession
           THEN UNCHANGED <<row, ended>>
           ELSE /\ row' = [row EXCEPT ![request[r].key] = NoSession]
                /\ ended' = ended \union {request[r].key}
    BY DEF Login
<1>. DEFINE q == [NoRequest EXCEPT !.phase = "logged_in", !.key = k, !.session = LoggedIn(r),
                                  !.since = now]
<1>5. /\ k \in Keys
      /\ SameLogin(r) => login[k].version = request[r].version
    <2>1. CASE SameLogin(r)
        BY <1>1, <1>4, <2>1 DEF SameLogin, RequestHolds, CopyOf
    <2>2. CASE ~SameLogin(r)
        BY <1>4, <2>2 DEF FreshKeys
    <2>. QED BY <2>1, <2>2
<1>6. /\ q \in Request /\ q.phase = "logged_in" /\ q.key = k /\ q.session = LoggedIn(r)
      /\ q.late = FALSE /\ q.since = now
    BY <1>2, <1>3, <1>5, NothingTyped DEF Request, Phases
<1>7. request' = [request EXCEPT ![r] = q] /\ ~q.late
    BY <1>4, <1>6
<1>8. UNCHANGED <<now, account, issued, restart>>
    BY DEF Login
<1>. HIDE DEF q
<1>9. now =< now /\ account' \in [Users -> [version : Versions, active : BOOLEAN]]
    BY <1>8, BoundsAssumption DEF IInv, TypeOK, Times
<1>10. \/ /\ login[k].version = request[r].version /\ q.since = now
          /\ UNCHANGED <<row, ended>>
       \/ /\ k \in FreshKeys
          /\ \/ UNCHANGED <<row, ended>>
             \/ /\ request[r].session # NoSession
                /\ row' = [row EXCEPT ![request[r].key] = NoSession]
                /\ ended' = ended \union {request[r].key}
    BY <1>4, <1>5, <1>6
<1>11. /\ q.session \in Session /\ q.session.hash = request[r].version
       /\ q.session.login_at = q.since /\ q.since \in Times /\ q.since =< now
       /\ request[r].phase # "logged_in"
    BY <1>1, <1>2, <1>3, <1>6, <1>9
<1>. QED BY <1>2, <1>4, <1>5, <1>6, <1>7, <1>8, <1>9, <1>10, <1>11, NewSession

\* A change of password signs the own session anew, with what was its login.
LEMMA ChangePasswordStep ==
    ASSUME IInv, NEW r \in Requests, NEW u \in Users, ChangePassword(r, u) PROVE IInv'
<1>. DEFINE old == request[r].key
            c == request[r].session
            session == [c EXCEPT !.hash = IF c.user = u THEN account[u].version + 1 ELSE @]
<1>1. request[r] \in Request /\ RequestHolds(r) /\ request[r].phase = "served"
    BY DEF ChangePassword, IInv, TypeOK, Request
<1>2. /\ old \in Keys /\ c # NoSession /\ c \in Session /\ CopyOf(c, old)
      /\ c.login_at # Missing /\ c.login_at \in Times
    BY <1>1 DEF RequestHolds, Request, Session
<1>3. /\ login[old].at # Missing /\ login[old].at \in Times /\ now \in Times
      /\ c.login_at =< login[old].at /\ login[old].at =< now
    <2>1. KeyHolds(old)
        BY <1>2 DEF IInv
    <2>. QED BY <1>2, <2>1 DEF CopyOf, KeyHolds, IInv, TypeOK
<1>4. /\ account[u].version + 1 \in Versions
      /\ account' \in [Users -> [version : Versions, active : BOOLEAN]]
    BY BoundsAssumption DEF ChangePassword, IInv, TypeOK, Versions
<1>5. session \in Session /\ session.login_at = c.login_at /\ session.hash \in Versions
    BY <1>2, <1>4 DEF Session
<1>6. PICK k \in FreshKeys :
        /\ request' = [request EXCEPT ![r] =
              [NoRequest EXCEPT !.phase = "logged_in", !.key = k, !.session = session,
                                !.since = session.login_at]]
        /\ login' = [login EXCEPT ![k] = [at |-> login[old].at, version |-> session.hash]]
    BY DEF ChangePassword
<1>7. /\ row' = [row EXCEPT ![old] = NoSession] /\ ended' = ended \union {old}
      /\ UNCHANGED <<now, issued, restart>>
    BY DEF ChangePassword
<1>. HIDE DEF session
<1>. DEFINE q == [NoRequest EXCEPT !.phase = "logged_in", !.key = k, !.session = session,
                                  !.since = session.login_at]
<1>8. k \in Keys
    BY DEF FreshKeys
<1>9. /\ q \in Request /\ q.phase = "logged_in" /\ q.key = k /\ q.session = session
      /\ q.late = FALSE /\ q.since = session.login_at
    BY <1>2, <1>5, <1>8, NothingTyped DEF Request, Phases
<1>10. request' = [request EXCEPT ![r] = q] /\ ~q.late
    BY <1>6, <1>9
<1>. HIDE DEF q
<1>. QED BY <1>1, <1>2, <1>3, <1>4, <1>5, <1>6, <1>7, <1>8, <1>9, <1>10, NewSession

\* A save puts a good copy into the row; a restart is recorded when this copy is
\* the only one of its key.
LEMMA SaveStep ==
    ASSUME IInv, NEW r \in Requests, CanSave(r),
           row' = [row EXCEPT ![request[r].key] = [session |-> request[r].session, expires |-> Expiry]],
           issued' = issued \union {request[r].key},
           restart' = IF request[r].phase = "logged_in" /\ ~Overlapped(r)
                      THEN [restart EXCEPT ![request[r].key] = request[r].since] ELSE restart,
           request' = [request EXCEPT ![r] = NoRequest],
           UNCHANGED <<now, account, login, ended>>
    PROVE  IInv'
<1>1. request[r] \in Request /\ RequestHolds(r)
    BY DEF IInv, TypeOK, Request
<1>2. PICK k, s : k = request[r].key /\ s = request[r].session
    OBVIOUS
<1>3. k \in Keys /\ s \in Session /\ CopyOf(s, k)
    BY <1>1, <1>2 DEF CanSave, RequestHolds, Request
<1>4. KeyHolds(k) /\ RowHolds(k) /\ k \notin ended
    <2>1. KeyHolds(k) /\ RowHolds(k)
        BY <1>3 DEF IInv
    <2>. QED BY <1>2, <2>1 DEF CanSave, RowHolds, IInv, TypeOK
<1>5. now \in Times /\ now \in Int /\ Expiry \in 0 .. MaxTime + IdleAge /\ Expiry = now + IdleAge
    BY BoundsAssumption, AgesAssumption DEF IInv, TypeOK, Times, Expiry
<1>6. /\ row' \in [Keys -> {NoSession} \union Row]
      /\ row'[k].session = s /\ row'[k].expires = now + IdleAge
      /\ \A j \in Keys \ {k} : row'[j] = row[j]
    <2>1. [session |-> s, expires |-> Expiry] \in Row
        BY <1>3, <1>5 DEF Row
    <2>. QED BY <1>2, <1>3, <1>5, <2>1 DEF IInv, TypeOK
<1>7. \A j \in Keys \ {k} : restart'[j] = restart[j]
    BY <1>2 DEF IInv, TypeOK
\* Either the restart of k is as it was, or this is the only copy.
<1>8. \/ restart'[k] = restart[k]
      \/ /\ restart'[k] = s.login_at /\ s.login_at # Missing
         /\ \A p \in Requests \ {r} : request[p].session = NoSession \/ request[p].key # k
    <2>1. CASE request[r].phase = "logged_in" /\ ~Overlapped(r)
        BY <1>1, <1>2, <1>3, <2>1 DEF RequestHolds, Overlapped, IInv, TypeOK
    <2>. QED BY <2>1
<1>9. restart' \in [Keys -> Times \union {Missing}]
    BY <1>1, <1>2, <1>3 DEF IInv, TypeOK, Request
<1>10. TypeOK'
    <2>1. request' \in [Requests -> Request]
        BY NothingTyped DEF IInv, TypeOK, Request
    <2>2. ASSUME NEW j \in Keys, row'[j] # NoSession
          PROVE  j \in issued' /\ row'[j].expires =< now' + IdleAge
        <3>1. CASE j = k
            BY <1>2, <1>5, <1>6, <3>1, AgesAssumption
        <3>2. CASE j # k
            BY <1>6, <2>2, <3>2 DEF IInv, TypeOK
        <3>. QED BY <3>1, <3>2
    <2>. QED BY <1>2, <1>3, <1>6, <1>9, <2>1, <2>2 DEF IInv, TypeOK, Request
<1>11. /\ s.login_at # Missing => s.login_at \in Int
       /\ login[k].at # Missing => login[k].at \in Int
    <2>1. s.login_at \in Times \union {Missing} /\ login[k].at \in Times \union {Missing}
        BY <1>3 DEF Session, IInv, TypeOK
    <2>. QED BY <2>1, BoundsAssumption DEF Times
<1>12. CopyOf(s, k)'
    BY <1>3, <1>8, <1>11 DEF CopyOf
<1>13. ASSUME NEW j \in Keys PROVE (KeyHolds(j) /\ RowHolds(j))'
    <2>1. KeyHolds(j) /\ RowHolds(j)
        BY DEF IInv
    <2>2. CASE j = k
        <3>1. s.login_at # Missing => s.login_at =< now
            BY <1>3, <1>4, <1>5, <1>11 DEF CopyOf, KeyHolds
        <3>2. KeyHolds(j)'
            BY <1>2, <1>4, <1>8, <2>2, <3>1 DEF KeyHolds
        <3>3. k \in issued' /\ k \notin ended' /\ row'[k].expires =< now' + IdleAge
            BY <1>2, <1>4, <1>5, <1>6, AgesAssumption
        <3>4. RowHolds(j)'
            BY <1>6, <1>12, <2>2, <3>3 DEF RowHolds, CopyOf
        <3>. QED BY <3>2, <3>4
    <2>3. CASE j # k
        <3>1. j \in issued => j \in issued'
            OBVIOUS
        <3>2. row'[j] = row[j] /\ restart'[j] = restart[j]
            BY <1>6, <1>7, <2>3
        <3>. QED BY <2>1, <3>1, <3>2 DEF KeyHolds, RowHolds, CopyOf
    <2>. QED BY <2>2, <2>3
<1>14. ASSUME NEW p \in Requests PROVE RequestHolds(p)'
    <2>1. request'[p] = IF p = r THEN NoRequest ELSE request[p]
        BY DEF IInv, TypeOK
    <2>2. CASE p = r
        BY <2>1, <2>2, NothingTyped DEF RequestHolds
    <2>3. CASE p # r
        <3>1. RequestHolds(p)
            BY DEF IInv
        <3>2. request[p].session # NoSession => restart'[request[p].key] = restart[request[p].key]
            BY <1>7, <1>8, <2>3, <3>1 DEF RequestHolds
        <3>. QED BY <2>1, <2>3, <3>1, <3>2 DEF RequestHolds, CopyOf
    <2>. QED BY <2>2, <2>3
<1>. QED BY <1>10, <1>13, <1>14 DEF IInv

LEMMA FinishStep == ASSUME IInv, NEW r \in Requests, Finish(r) PROVE IInv'
<1>1. CASE UNCHANGED <<row, issued, restart>>
    BY <1>1, NothingTyped, RequestMoves DEF Finish
<1>2. CASE ~UNCHANGED <<row, issued, restart>>
    BY <1>2, SaveStep DEF Finish
<1>. QED BY <1>1, <1>2

\* Steps of staff and of the clock.
LEMMA OutsideStep ==
    ASSUME IInv, account' \in [Users -> [version : Versions, active : BOOLEAN]],
           now' \in Times, now =< now',
           UNCHANGED <<row, issued, request, login, restart, ended>>
    PROVE  IInv'
<1>1. now \in Int /\ now' \in Int /\ Times \subseteq Int /\ Missing \notin Times
    BY BoundsAssumption, NothingAssumption DEF IInv, TypeOK, Times
<1>2. ASSUME NEW k \in Keys PROVE (KeyHolds(k) /\ RowHolds(k))'
    <2>1. KeyHolds(k) /\ RowHolds(k)
        BY DEF IInv
    <2>2. KeyHolds(k)'
        <3>1. login[k].at \in Times \union {Missing} /\ restart[k] \in Times \union {Missing}
            BY DEF IInv, TypeOK
        <3>2. /\ login[k].at # Missing => login[k].at \in Int
              /\ restart[k] # Missing => restart[k] \in Int
            BY <1>1, <3>1
        <3>. QED BY <1>1, <2>1, <3>2 DEF KeyHolds
    <2>3. row[k] # NoSession => row[k].expires \in Int
        BY BoundsAssumption, AgesAssumption DEF IInv, TypeOK, Row
    <2>4. RowHolds(k)'
        BY <1>1, <2>1, <2>3, AgesAssumption DEF RowHolds, CopyOf
    <2>. QED BY <2>2, <2>4
<1>3. TypeOK'
    <2>1. \A k \in Keys : row'[k] # NoSession => k \in issued' /\ row'[k].expires =< now' + IdleAge
        BY <1>2 DEF RowHolds
    <2>. QED BY <2>1 DEF IInv, TypeOK
<1>4. \A r \in Requests : RequestHolds(r)'
    BY DEF IInv, RequestHolds, CopyOf
<1>. QED BY <1>2, <1>3, <1>4 DEF IInv

LEMMA Inductive == ASSUME IInv, [Next]_vars PROVE IInv'
<1>1. ASSUME NEW r \in Requests, NEW k \in Keys \union {NoKey}, Begin(r, k) PROVE IInv'
    BY <1>1, BeginStep
<1>2. ASSUME NEW r \in Requests, Authenticate(r) PROVE IInv'
    BY <1>2, AuthenticateStep
<1>3. ASSUME NEW r \in Requests, Logout(r) PROVE IInv'
    BY <1>3, FlushStep DEF Logout
<1>4. ASSUME NEW r \in Requests, Login(r) PROVE IInv'
    BY <1>4, LoginStep
<1>5. ASSUME NEW r \in Requests, Finish(r) PROVE IInv'
    BY <1>5, FinishStep
<1>6. ASSUME NEW r \in Requests, NEW u \in Users, Verify(r, u) PROVE IInv'
    BY <1>6, VerifyStep
<1>7. now \in Times /\ now \in Int
    BY BoundsAssumption DEF IInv, TypeOK, Times
<1>8. ASSUME NEW u \in Users, SetPassword(u) PROVE IInv'
    <2>1. account' \in [Users -> [version : Versions, active : BOOLEAN]]
        BY <1>8, BoundsAssumption DEF SetPassword, IInv, TypeOK, Versions
    <2>. QED BY <1>7, <1>8, <2>1, OutsideStep DEF SetPassword
<1>12. ASSUME NEW r \in Requests, NEW u \in Users, ChangePassword(r, u) PROVE IInv'
    BY <1>12, ChangePasswordStep
<1>9. ASSUME NEW u \in Users, SetActive(u) PROVE IInv'
    <2>1. account[u] \in [version : Versions, active : BOOLEAN] /\ (~account[u].active) \in BOOLEAN
        BY DEF IInv, TypeOK
    <2>2. PICK b \in BOOLEAN : b = ~account[u].active
        BY <2>1
    <2>3. account' = [account EXCEPT ![u] = [account[u] EXCEPT !.active = b]]
        BY <1>9, <2>2 DEF SetActive, IInv, TypeOK
    <2>4. [account[u] EXCEPT !.active = b] \in [version : Versions, active : BOOLEAN]
        BY <2>1
    <2>5. account' \in [Users -> [version : Versions, active : BOOLEAN]]
        BY <2>3, <2>4 DEF IInv, TypeOK
    <2>. QED BY <1>7, <1>9, <2>5, OutsideStep DEF SetActive
<1>10. CASE Tick
    <2>1. now' \in Times /\ now =< now'
        BY <1>7, <1>10, BoundsAssumption DEF Tick, Times
    <2>. QED BY <1>10, <2>1, OutsideStep DEF Tick, IInv, TypeOK
<1>11. CASE UNCHANGED vars
    BY <1>7, <1>11, OutsideStep DEF vars, IInv, TypeOK
<1>. QED BY <1>1, <1>2, <1>3, <1>4, <1>5, <1>6, <1>8, <1>9, <1>10, <1>11, <1>12 DEF Next

LEMMA Invariance == Spec => []IInv
BY Initially, Inductive, PTL DEF Spec

-----------------------------------------------------------------------------
\* The variables keep their types, no session outlives the idle time, and only
\* keys that a browser was given end.
THEOREM TypeCorrect == Spec => []TypeOK
BY Invariance, PTL DEF IInv

\* Only Authenticate finds a request to belong to a user.
LEMMA ServesBy ==
    ASSUME IInv, [Next]_vars, NEW r \in Requests, Serves(r)
    PROVE  /\ request[r].key \in Keys
           /\ request[r].session \in Session
           /\ CopyOf(request[r].session, request[r].key)
           /\ ~request[r].late
           /\ HashMatches(request[r].session) /\ ~TimedOut(request[r].session)
<1>1. request[r] \in Request /\ RequestHolds(r) /\ request[r].session # NoSession
    BY DEF IInv, TypeOK, Request, Serves, RequestHolds
<1>2. request[r].phase = "loaded" /\ request'[r].phase = "served" /\ request \in [Requests -> Request]
    BY DEF Serves, IInv, TypeOK, Request
<1>3. Authenticate(r)
    <2>1. request' # request
        BY <1>2
    <2>2. ASSUME NEW q \in Requests, NEW k \in Keys \union {NoKey}, Begin(q, k) PROVE FALSE
        BY <1>2, <2>2 DEF Begin
    <2>3. ASSUME NEW q \in Requests, q # r, Authenticate(q) PROVE FALSE
        BY <1>2, <2>3 DEF Authenticate, Flush
    <2>4. ASSUME NEW q \in Requests, Logout(q) PROVE FALSE
        BY <1>2, <2>4 DEF Logout, Flush
    <2>5. ASSUME NEW q \in Requests, Login(q) PROVE FALSE
        BY <1>2, <2>5 DEF Login
    <2>6. ASSUME NEW q \in Requests, Finish(q) PROVE FALSE
        BY <1>2, <2>6 DEF Finish
    <2>7. ASSUME NEW q \in Requests, NEW u \in Users, Verify(q, u) PROVE FALSE
        BY <1>2, <2>7 DEF Verify
    <2>8. ASSUME NEW q \in Requests, NEW u \in Users, ChangePassword(q, u) PROVE FALSE
        BY <1>2, <2>8 DEF ChangePassword
    <2>. QED BY <2>1, <2>2, <2>3, <2>4, <2>5, <2>6, <2>7, <2>8 DEF Next, vars, SetPassword, SetActive, Tick
<1>4. ~Flush(r) /\ HashMatches(request[r].session) /\ ~TimedOut(request[r].session)
    <2>1. ~Flush(r)
        BY <1>2, NothingTyped DEF Flush
    <2>2. request' # [request EXCEPT ![r].phase = "anonymous", ![r].late = FALSE]
        BY <1>2 DEF Request
    <2>. QED BY <1>3, <2>1, <2>2 DEF Authenticate
<1>. QED BY <1>1, <1>4 DEF RequestHolds, Request

\* README.md:197: whatever copies of it are saved in between, a session serves
\* nobody the absolute age after its last login.
THEOREM AbsoluteHoldsAlways == Spec => AbsoluteHolds
<1>1. ASSUME IInv, [Next]_vars, NEW r \in Requests, Serves(r)
      PROVE  login[request[r].key].at # Missing /\ now < login[request[r].key].at + AbsoluteAge
    <2>. DEFINE c == request[r].session
                k == request[r].key
    <2>1. c \in Session /\ k \in Keys /\ CopyOf(c, k) /\ ~TimedOut(c)
        BY <1>1, ServesBy
    <2>2. c.login_at # Missing /\ ~(now - c.login_at >= AbsoluteAge)
        BY <2>1 DEF TimedOut
    <2>3. login[k].at # Missing /\ c.login_at =< login[k].at
        BY <2>1, <2>2 DEF CopyOf
    <2>4. c.login_at \in Int /\ login[k].at \in Int /\ now \in Int
        <3>1. c.login_at \in Times \union {Missing} /\ login[k].at \in Times \union {Missing} /\ now \in Times
            BY <1>1, <2>1 DEF IInv, TypeOK, Session
        <3>. QED BY <2>2, <2>3, <3>1, BoundsAssumption DEF Times
    <2>. HIDE DEF c, k
    <2>5. now < login[k].at + AbsoluteAge
        BY <2>2, <2>3, <2>4, AgesAssumption
    <2>. QED BY <2>3, <2>5 DEF k
<1>2. IInv /\ [Next]_vars =>
        [\A r \in Requests : Serves(r) =>
           /\ login[request[r].key].at # Missing
           /\ now < login[request[r].key].at + AbsoluteAge]_vars
    BY <1>1
<1>. QED BY <1>2, Invariance, PTL DEF Spec, AbsoluteHolds

\* README.md:198: a session that nothing else ends lasts the full age after a
\* login that no other request of it overlapped.
THEOREM RestartHonouredAlways == Spec => RestartHonoured
<1>1. ASSUME IInv, [Next]_vars, NEW r \in Requests,
             request[r].phase = "loaded", request'[r] = Anonymous,
             HashMatches(request[r].session), restart[request[r].key] # Missing
      PROVE  now >= restart[request[r].key] + AbsoluteAge
    <2>. DEFINE c == request[r].session
                k == request[r].key
    <2>1. request[r] \in Request /\ request \in [Requests -> Request] /\ RequestHolds(r)
        BY <1>1 DEF IInv, TypeOK, Request
    <2>2. c \in Session /\ c # NoSession /\ k \in Keys /\ CopyOf(c, k)
        BY <1>1, <2>1 DEF RequestHolds, Request
    <2>3. Authenticate(r)
        <3>1. ASSUME NEW q \in Requests, NEW j \in Keys \union {NoKey}, Begin(q, j) PROVE FALSE
            BY <1>1, <2>1, <3>1, NothingTyped DEF Begin
        <3>2. ASSUME NEW q \in Requests, q # r, Authenticate(q) PROVE FALSE
            BY <1>1, <2>1, <3>2, NothingTyped DEF Authenticate, Flush
        <3>3. ASSUME NEW q \in Requests, Logout(q) PROVE FALSE
            BY <1>1, <2>1, <3>3, NothingTyped DEF Logout, Flush
        <3>4. ASSUME NEW q \in Requests, Login(q) PROVE FALSE
            BY <1>1, <2>1, <3>4, NothingTyped DEF Login
        <3>5. ASSUME NEW q \in Requests, Finish(q) PROVE FALSE
            BY <1>1, <2>1, <3>5, NothingTyped DEF Finish
        <3>6. ASSUME NEW q \in Requests, NEW u \in Users, Verify(q, u) PROVE FALSE
            BY <1>1, <2>1, <3>6, NothingTyped DEF Verify
        <3>7. request' # request
            BY <1>1, NothingTyped
        <3>8. ASSUME NEW q \in Requests, NEW u \in Users, ChangePassword(q, u) PROVE FALSE
            BY <1>1, <2>1, <3>8, NothingTyped DEF ChangePassword
        <3>. QED BY <1>1, <3>1, <3>2, <3>3, <3>4, <3>5, <3>6, <3>7, <3>8
                 DEF Next, vars, SetPassword, SetActive, Tick
    <2>4. request'[r].session = NoSession /\ request'[r].phase = "anonymous"
        BY <1>1, NothingTyped
    <2>5. TimedOut(c)
        <3>1. CASE Flush(r) /\ (~HashMatches(c) \/ TimedOut(c))
            BY <1>1, <3>1
        <3>2. ASSUME NEW phase \in {"anonymous", "served"},
                     request' = [request EXCEPT ![r].phase = phase, ![r].late = FALSE]
              PROVE  FALSE
            <4>1. request'[r] = [request[r] EXCEPT !.phase = phase, !.late = FALSE]
                BY <2>1, <3>2
            <4>2. request'[r].session = c
                BY <2>1, <4>1 DEF Request
            <4>. QED BY <2>2, <2>4, <4>2
        <3>. QED BY <2>3, <3>1, <3>2 DEF Authenticate
    <2>6. c.login_at # Missing /\ restart[k] =< c.login_at
        BY <1>1, <2>2 DEF CopyOf
    <2>7. now - c.login_at >= AbsoluteAge
        BY <2>5, <2>6 DEF TimedOut
    <2>8. c.login_at \in Int /\ restart[k] \in Int /\ now \in Int
        <3>1. c.login_at \in Times \union {Missing} /\ restart[k] \in Times \union {Missing} /\ now \in Times
            BY <1>1, <2>2 DEF IInv, TypeOK, Session
        <3>. QED BY <1>1, <2>6, <3>1, BoundsAssumption DEF Times
    <2>. HIDE DEF c, k
    <2>9. now >= restart[k] + AbsoluteAge
        BY <2>6, <2>7, <2>8, AgesAssumption
    <2>. QED BY <2>9 DEF k
<1>2. IInv /\ [Next]_vars =>
        [\A r \in Requests :
           /\ request[r].phase = "loaded" /\ request'[r] = Anonymous
           /\ HashMatches(request[r].session)
           /\ restart[request[r].key] # Missing
           => now >= restart[request[r].key] + AbsoluteAge]_vars
    BY <1>1
<1>. QED BY <1>2, Invariance, PTL DEF Spec, RestartHonoured

\* A session that was logged out or flushed serves no request that begins later.
THEOREM EndedStaysEndedAlways == Spec => EndedStaysEnded
<1>1. IInv /\ [Next]_vars => [\A r \in Requests : Serves(r) => ~request[r].late]_vars
    BY ServesBy
<1>. QED BY <1>1, Invariance, PTL DEF Spec, EndedStaysEnded

\* README.md:188: a session opened with an old password serves no request that
\* checks it after the change.
THEOREM OldPasswordOutAlways == Spec => OldPasswordOut
<1>1. IInv /\ [Next]_vars =>
        [\A r \in Requests : Serves(r) =>
           login[request[r].key].version = account[request[r].session.user].version]_vars
    BY ServesBy DEF HashMatches, CopyOf
<1>. QED BY <1>1, Invariance, PTL DEF Spec, OldPasswordOut
=============================================================================
