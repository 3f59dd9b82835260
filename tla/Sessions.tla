------------------------------ MODULE Sessions ------------------------------
(***************************************************************************)
(* Login sessions: SessionTimeoutMiddleware (users/middleware.py) and the  *)
(* login signal (users/signals.py) over Django's database sessions.  A     *)
(* request loads a copy of its session, authenticates it against the       *)
(* account, may log in or out, and saves its copy at the end, while other  *)
(* requests of the same session do the same.                               *)
(***************************************************************************)
EXTENDS Integers

CONSTANTS Users, Keys, Requests,
          Legacy,           \* keys that may be of sessions from before login_at was kept
          IdleAge,          \* SESSION_COOKIE_AGE
          AbsoluteAge,      \* SESSION_ABSOLUTE_AGE
          MaxTime,          \* bound of the clock
          MaxVersion,       \* bound of the passwords an account has had
          NoSession, NoKey, NoUser, Missing

\* Env.check_session_absolute_covers_idle.
ASSUME AgesAssumption ==
    /\ IdleAge \in Nat \ {0} /\ AbsoluteAge \in Nat \ {0}
    /\ AbsoluteAge >= IdleAge
ASSUME BoundsAssumption == MaxTime \in Nat /\ MaxVersion \in Nat \ {0} /\ Legacy \subseteq Keys

Times == 0 .. MaxTime
Versions == 1 .. MaxVersion

\* What a session stores of its login; hash stands for the password it hashes.
Session == [user : Users, hash : Versions, login_at : Times \union {Missing}]
Row == [session : Session, expires : 0 .. MaxTime + IdleAge]
ASSUME NothingAssumption ==
    /\ NoKey \notin Keys /\ NoUser \notin Users /\ Missing \notin Int
    /\ NoSession \notin Session /\ NoSession \notin Row

VARIABLES now,
          account,  \* the users' rows: password version and is_active
          row,      \* the session table
          issued,   \* keys that a browser has been given
          request,  \* what each request in flight is doing
          login,    \* of each key: time and password version of its last login
          restart,  \* of each key: its last login that no other request overlapped
          ended     \* keys logged out or flushed
vars == <<now, account, row, issued, request, login, restart, ended>>

Phases == {"none", "loaded", "anonymous", "served", "verified", "logged_in"}
\* "logged_in": a login, or a password change, has given the request a session
\* under a new key.  late: the key was ended before the request began; user and
\* version: whose password, and which, a login has verified; since: when the
\* new session logged in.
NoRequest == [phase |-> "none", key |-> NoKey, session |-> NoSession,
              late |-> FALSE, user |-> NoUser, version |-> 1, since |-> Missing]
Anonymous == [NoRequest EXCEPT !.phase = "anonymous"]

Init ==
    /\ now = 0
    /\ account = [u \in Users |-> [version |-> 1, active |-> TRUE]]
    /\ issued \in SUBSET Legacy
    /\ \E user \in Users :
         row = [k \in Keys |->
                  IF k \in issued
                  THEN [session |-> [user |-> user, hash |-> 1, login_at |-> Missing],
                        expires |-> IdleAge]
                  ELSE NoSession]
    /\ request = [r \in Requests |-> NoRequest]
    /\ login = [k \in Keys |-> [at |-> Missing, version |-> 1]]
    /\ restart = [k \in Keys |-> Missing]
    /\ ended = {}

-----------------------------------------------------------------------------
\* A browser sends a key, any it was ever given, or none; a row past its
\* expiry counts as none.
Begin(r, k) ==
    /\ request[r].phase = "none"
    /\ request' = [request EXCEPT ![r] =
         IF k \in issued /\ row[k] # NoSession /\ row[k].expires > now
         THEN [NoRequest EXCEPT !.phase = "loaded", !.key = k, !.session = row[k].session,
                                !.late = k \in ended]
         ELSE Anonymous]
    /\ UNCHANGED <<now, account, row, issued, login, restart, ended>>

\* logout() and a failed check of the hash: the row goes, and the request's
\* copy too.
Flush(r) ==
    /\ row' = [row EXCEPT ![request[r].key] = NoSession]
    /\ ended' = ended \union {request[r].key}
    /\ request' = [request EXCEPT ![r] = Anonymous]

HashMatches(session) == session.hash = account[session.user].version

\* Mutant of TimedOut: a session without a login time has just logged in.
TimedOutOpen(session) ==
    IF session.login_at = Missing THEN FALSE ELSE now - session.login_at >= AbsoluteAge

\* Fail closed: a session without a login time counts as expired.
TimedOut(session) ==
    IF session.login_at = Missing THEN TRUE ELSE now - session.login_at >= AbsoluteAge

\* AuthenticationMiddleware reads the account, SessionTimeoutMiddleware the
\* age.  An inactive account is nobody, and its session stays.
Authenticate(r) ==
    /\ request[r].phase = "loaded"
    /\ IF ~account[request[r].session.user].active
       THEN request' = [request EXCEPT ![r].phase = "anonymous", ![r].late = FALSE]
            /\ UNCHANGED <<row, ended>>
       ELSE IF ~HashMatches(request[r].session) \/ TimedOut(request[r].session)
       THEN Flush(r)
       ELSE request' = [request EXCEPT ![r].phase = "served", ![r].late = FALSE]
            /\ UNCHANGED <<row, ended>>
    /\ UNCHANGED <<now, account, issued, login, restart>>

Logout(r) ==
    /\ request[r].phase = "served"
    /\ Flush(r)
    /\ UNCHANGED <<now, account, issued, login, restart>>

\* The right password of an active account, also of one already logged in (the
\* admin's login page); the account is loaded here, and the slow hash follows.
Verify(r, u) ==
    /\ request[r].phase \in {"anonymous", "served"}
    /\ account[u].active
    /\ request' = [request EXCEPT ![r].phase = "verified", ![r].user = u,
                                  ![r].version = account[u].version]
    /\ UNCHANGED <<now, account, row, issued, login, restart, ended>>

\* Django keeps session and key when the same account logs in again.
SameLogin(r) ==
    /\ request[r].session # NoSession
    /\ request[r].session.user = request[r].user
    /\ request[r].session.hash = request[r].version

\* Mutant of LoggedIn: the signal keeps a login time that is there.
LoggedInOnce(r) ==
    [user |-> request[r].user, hash |-> request[r].version,
     login_at |-> IF SameLogin(r) /\ request[r].session.login_at # Missing
                  THEN request[r].session.login_at ELSE now]
\* Mutant of LoggedIn: the hash is of the account as it is by now.
LoggedInAsOfNow(r) ==
    [user |-> request[r].user, hash |-> account[request[r].user].version, login_at |-> now]

\* The session after login(): the hash of the account as it was loaded, and
\* record_login_time on every login.
LoggedIn(r) == [user |-> request[r].user, hash |-> request[r].version, login_at |-> now]

FreshKeys == Keys \ (issued \union {request[r].key : r \in Requests})

\* login(): any other session is flushed, and a new key issued.
Login(r) ==
    /\ request[r].phase = "verified"
    /\ \E k \in IF SameLogin(r) THEN {request[r].key} ELSE FreshKeys :
         /\ request' = [request EXCEPT ![r] =
              [NoRequest EXCEPT !.phase = "logged_in", !.key = k, !.session = LoggedIn(r),
                                !.since = now]]
         /\ login' = [login EXCEPT ![k] = [at |-> now, version |-> request[r].version]]
         /\ IF SameLogin(r) \/ request[r].session = NoSession
            THEN UNCHANGED <<row, ended>>
            ELSE /\ row' = [row EXCEPT ![request[r].key] = NoSession]
                 /\ ended' = ended \union {request[r].key}
    /\ UNCHANGED <<now, account, issued, restart>>

\* Mutant of Expiry: the time of the save is rounded up.
ExpiryRoundedUp == now + 1 + IdleAge

\* SESSION_SAVE_EVERY_REQUEST: each save restarts the idle time.
Expiry == now + IdleAge

\* Mutant of CanSave: a save of a row that is gone inserts it again.
CanAlwaysSave(r) == request[r].session # NoSession

\* A new session is created, any other saved over its row only (force_update):
\* when that is gone the request fails and nothing is stored.
CanSave(r) ==
    /\ request[r].session # NoSession
    /\ row[request[r].key] # NoSession \/ request[r].key \notin issued

\* Another request carries a copy from before this login.
Overlapped(r) ==
    \E q \in Requests \ {r} : request[q].session # NoSession /\ request[q].key = request[r].key

\* Of a session whose request crashed (5xx) nothing is saved either.
Finish(r) ==
    /\ request[r].phase \in {"anonymous", "served", "logged_in"}
    /\ \/ /\ CanSave(r)
          /\ row' = [row EXCEPT ![request[r].key] =
                       [session |-> request[r].session, expires |-> Expiry]]
          /\ issued' = issued \union {request[r].key}
          /\ restart' = IF request[r].phase = "logged_in" /\ ~Overlapped(r)
                        THEN [restart EXCEPT ![request[r].key] = request[r].since]
                        ELSE restart
       \/ UNCHANGED <<row, issued, restart>>
    /\ request' = [request EXCEPT ![r] = NoRequest]
    /\ UNCHANGED <<now, account, login, ended>>

\* The admin's password pages, for oneself or for another: they sign their own
\* session with the new hash if the password is its user's, and in either case
\* move it to a new key (update_session_auth_hash).
ChangePassword(r, u) ==
    LET old == request[r].key
        session == [request[r].session EXCEPT !.hash =
                      IF request[r].session.user = u THEN account[u].version + 1 ELSE @]
    IN  /\ request[r].phase = "served"
        /\ account[u].version < MaxVersion
        /\ account' = [account EXCEPT ![u].version = @ + 1]
        /\ \E k \in FreshKeys :
             /\ request' = [request EXCEPT ![r] =
                  [NoRequest EXCEPT !.phase = "logged_in", !.key = k, !.session = session,
                                    !.since = session.login_at]]
             /\ login' = [login EXCEPT ![k] = [at |-> login[old].at, version |-> session.hash]]
        /\ row' = [row EXCEPT ![old] = NoSession]
        /\ ended' = ended \union {old}
        /\ UNCHANGED <<now, issued, restart>>

\* A reset or an invite sets a new password, or staff without a session here.
SetPassword(u) ==
    /\ account[u].version < MaxVersion
    /\ account' = [account EXCEPT ![u].version = @ + 1]
    /\ UNCHANGED <<now, row, issued, request, login, restart, ended>>

\* Staff deactivate an account, or bring it back.
SetActive(u) ==
    /\ account' = [account EXCEPT ![u].active = ~@]
    /\ UNCHANGED <<now, row, issued, request, login, restart, ended>>

Tick ==
    /\ now < MaxTime
    /\ now' = now + 1
    /\ UNCHANGED <<account, row, issued, request, login, restart, ended>>

Next ==
    \/ \E r \in Requests :
        \/ \E k \in Keys \union {NoKey} : Begin(r, k)
        \/ Authenticate(r) \/ Logout(r) \/ Login(r) \/ Finish(r)
        \/ \E u \in Users : Verify(r, u) \/ ChangePassword(r, u)
    \/ \E u \in Users : SetPassword(u) \/ SetActive(u)
    \/ Tick

Spec == Init /\ [][Next]_vars

-----------------------------------------------------------------------------
\* The variables hold what the code can put in them, and no session outlives
\* the idle time by more than a request that is still running.
TypeOK ==
    /\ now \in Times
    /\ account \in [Users -> [version : Versions, active : BOOLEAN]]
    /\ row \in [Keys -> {NoSession} \union Row]
    /\ \A k \in Keys : row[k] # NoSession => k \in issued /\ row[k].expires =< now + IdleAge
    /\ issued \subseteq Keys
    /\ request \in [Requests ->
         [phase : Phases, key : Keys \union {NoKey}, session : {NoSession} \union Session,
          late : BOOLEAN, user : Users \union {NoUser}, version : Versions,
          since : Times \union {Missing}]]
    /\ login \in [Keys -> [at : Times \union {Missing}, version : Versions]]
    /\ restart \in [Keys -> Times \union {Missing}]
    /\ ended \subseteq issued

\* The step in which a request is found to belong to a user.
Serves(r) == request[r].phase = "loaded" /\ request'[r].phase = "served"

\* "A session ends ... DJANGO_SESSION_ABSOLUTE_HOURS after login even if
\* active" (README.md:197): whatever copies parallel requests save over it, a
\* session serves nobody that long after its last login, or without one.
AbsoluteHolds ==
    [][\A r \in Requests : Serves(r) =>
         /\ login[request[r].key].at # Missing
         /\ now < login[request[r].key].at + AbsoluteAge]_vars

\* "Logging in again restarts it" (README.md:198): a session that is otherwise
\* good is flushed no sooner than the full age after its last login, if no
\* request that had the session before that login was still to save its copy.
RestartHonoured ==
    [][\A r \in Requests :
         /\ request[r].phase = "loaded" /\ request'[r] = Anonymous
         /\ HashMatches(request[r].session)
         /\ restart[request[r].key] # Missing
         => now >= restart[request[r].key] + AbsoluteAge]_vars

\* A session that was logged out or flushed serves no request that begins
\* later, although requests already running still save their copies.
EndedStaysEnded == [][\A r \in Requests : Serves(r) => ~request[r].late]_vars

\* "Setting a new password logs out the account's other sessions"
\* (README.md:188): a session opened with an old password serves no request
\* that checks it later, even if the login was under way at the change.
OldPasswordOut ==
    [][\A r \in Requests : Serves(r) =>
         login[request[r].key].version = account[request[r].session.user].version]_vars
=============================================================================
