--------------------------- MODULE ThrottleEvents ---------------------------
(***************************************************************************)
(* The throttle_events table and what every user of it shares              *)
(* (users/models.py ThrottleEvent, users/limits.py,                        *)
(* RequestLimitService.record).  RequestLimits and LoginThrottle extend it *)
(* with the handlers of their scopes.                                      *)
(*                                                                         *)
(* A request builds its row first (created_at is read from the clock in    *)
(* the process), the INSERT commits some time later, and the counting      *)
(* query runs after that: three steps that other requests interleave with. *)
(* Every statement autocommits under READ COMMITTED, so each query sees    *)
(* all rows committed before it and nothing locks.                         *)
(***************************************************************************)
EXTENDS Naturals, FiniteSets

CONSTANTS
    Requests,   \* one per call of record: the primary key of its row
    Emails,     \* digests of normalized emails
    IPs,        \* masked client addresses
    NoEmail,    \* the empty digest of an IP-only scope
    NoIP,       \* NULL: no client address, or an email-only scope
    Limits,     \* settings.THROTTLE_LIMITS
    Stall,      \* longest time from created_at to a request's last count
    MaxTime     \* bound on the clock

PositiveInt == Nat \ {0}

LoginLimits ==
    {l \in [email_ip_max_events : PositiveInt, email_ip_window_seconds : PositiveInt,
            ip_max_events : PositiveInt, ip_window_seconds : PositiveInt,
            email_max_events : PositiveInt, email_window_seconds : PositiveInt,
            email_backoff_seconds : PositiveInt] :
        l.email_backoff_seconds < l.email_window_seconds}

PasswordResetLimits ==
    {l \in [email_max_events : PositiveInt, email_window_seconds : PositiveInt,
            email_cooldown_seconds : PositiveInt,
            ip_max_events : PositiveInt, ip_window_seconds : PositiveInt] :
        l.email_cooldown_seconds < l.email_window_seconds}

SignupLimits == [ip_max_events : PositiveInt, ip_window_seconds : PositiveInt]

VerificationEmailLimits ==
    {l \in [email_max_events : PositiveInt, email_window_seconds : PositiveInt,
            email_cooldown_seconds : PositiveInt] :
        l.email_cooldown_seconds < l.email_window_seconds}

ThrottleLimits ==
    [login : LoginLimits, password_reset : PasswordResetLimits,
     signup : SignupLimits, verification_email : VerificationEmailLimits]

ASSUME LimitsAssumption == Limits \in ThrottleLimits
ASSUME RequestsAssumption == IsFiniteSet(Requests)
ASSUME SentinelAssumption == NoEmail \notin Emails /\ NoIP \notin IPs
ASSUME ClockAssumption == Stall \in Nat /\ MaxTime \in Nat
\* A request is counted long before its own window has passed.
ASSUME StallAssumption ==
    /\ Stall + Limits.login.email_backoff_seconds =< Limits.login.email_window_seconds
    /\ Stall =< Limits.login.email_ip_window_seconds
    /\ Stall =< Limits.login.ip_window_seconds
    /\ Stall + Limits.password_reset.email_cooldown_seconds
        =< Limits.password_reset.email_window_seconds
    /\ Stall =< Limits.password_reset.ip_window_seconds
    /\ Stall =< Limits.signup.ip_window_seconds
    /\ Stall + Limits.verification_email.email_cooldown_seconds
        =< Limits.verification_email.email_window_seconds

Scopes == {"login_failure", "password_reset", "signup", "verification_email"}

-----------------------------------------------------------------------------
VARIABLES
    now,        \* timezone.now(), the same clock for every replica
    event,      \* event[r]: the row request r built
    stored,     \* the requests whose row is in the table
    phase       \* phase[r]: how far request r got

Event ==
    [scope : Scopes \union {"none"}, email : Emails \union {NoEmail},
     ip : IPs \union {NoIP}, created_at : Nat]

NoEvent == [scope |-> "none", email |-> NoEmail, ip |-> NoIP, created_at |-> 0]

At(r) == event[r].created_at

SameScope(q, r) == event[q].scope = event[r].scope
SameEmail(q, r) == SameScope(q, r) /\ event[q].email = event[r].email
\* NULL equals nothing: rows without an address are never counted by IP.
SameIP(q, r) == SameScope(q, r) /\ event[r].ip # NoIP /\ event[q].ip = event[r].ip
SamePair(q, r) == SameEmail(q, r) /\ SameIP(q, r)

\* created_at >= r's created_at - window.  There is no upper bound: a row
\* with a later time, whose INSERT overtook r's, is counted too.
Within(q, r, window) == At(q) + window >= At(r)

\* Mutant of EmailRecent: the query excludes the request's own row.
EmailRecentOthersOnly(r, window) ==
    {q \in stored \ {r} : SameEmail(q, r) /\ Within(q, r, window)}
\* Mutant of EmailRecent: the window also ends at the request's own time.
EmailRecentUpToNow(r, window) ==
    {q \in stored : SameEmail(q, r) /\ Within(q, r, window) /\ At(q) =< At(r)}
\* Mutant of PairRecent: the window is forgotten.
PairEver(r, window) == {q \in stored : SamePair(q, r)}
\* Mutant of PairRecent: the query excludes the attempt's own row.
PairRecentOthersOnly(r, window) ==
    {q \in stored \ {r} : SamePair(q, r) /\ Within(q, r, window)}

EmailRecent(r, window) == {q \in stored : SameEmail(q, r) /\ Within(q, r, window)}
IPRecent(r, window) == {q \in stored : SameIP(q, r) /\ Within(q, r, window)}
PairRecent(r, window) == {q \in stored : SamePair(q, r) /\ Within(q, r, window)}

\* Mutant of RecentWithin: the own row counts as the last one.
RecentWithinOwn(rows, r, gap) == \E q \in rows : At(r) < At(q) + gap
\* Mutant of RecentWithin: the gap to the first of the others, not the last.
FirstWithin(rows, r, gap) ==
    rows \ {r} # {} /\ \A q \in rows \ {r} : At(r) < At(q) + gap

\* now - max(created_at of the other rows) < gap, for a window's rows.
RecentWithin(rows, r, gap) == \E q \in rows \ {r} : At(r) < At(q) + gap

\* Mutant of BuildRow: created_at is rounded up.
BuildRowRoundedUp(r, scope, email, ip) ==
    /\ phase[r] = "idle"
    /\ event' = [event EXCEPT ![r] =
                    [scope |-> scope, email |-> email, ip |-> ip, created_at |-> now + 1]]
    /\ phase' = [phase EXCEPT ![r] = "creating"]
    /\ UNCHANGED <<now, stored>>

\* The default=timezone.now of created_at: the row exists in the process only.
BuildRow(r, scope, email, ip) ==
    /\ phase[r] = "idle"
    /\ event' = [event EXCEPT ![r] =
                    [scope |-> scope, email |-> email, ip |-> ip, created_at |-> now]]
    /\ phase' = [phase EXCEPT ![r] = "creating"]
    /\ UNCHANGED <<now, stored>>

\* The INSERT commits and the row becomes visible to every other query.
InsertRow(r, next) ==
    /\ phase[r] = "creating"
    /\ stored' = stored \union {r}
    /\ phase' = [phase EXCEPT ![r] = next]
    /\ UNCHANGED <<now, event>>

\* event.delete() of a refused request, a statement of its own.
DeleteRefused(r) ==
    /\ phase[r] = "refusing"
    /\ stored' = stored \ {r}
    /\ phase' = [phase EXCEPT ![r] = "refused"]
    /\ UNCHANGED <<now, event>>

\* A request that has not been counted yet stalls for at most Stall.
Tick(undecided) ==
    /\ now < MaxTime
    /\ \A r \in Requests : phase[r] \in undecided => now < At(r) + Stall
    /\ now' = now + 1
    /\ UNCHANGED <<event, stored, phase>>

\* Those of S under r's key in the window that opens at r's time.
EmailWindow(S, r, window) ==
    {q \in S : SameEmail(q, r) /\ At(r) =< At(q) /\ At(q) =< At(r) + window}
IPWindow(S, r, window) ==
    {q \in S : SameIP(q, r) /\ At(r) =< At(q) /\ At(q) =< At(r) + window}
PairWindow(S, r, window) ==
    {q \in S : SamePair(q, r) /\ At(r) =< At(q) /\ At(q) =< At(r) + window}

\* The part of a window the cleanup cannot reach while a request is in flight:
\* it deletes by its own clock reading, up to Stall later than the request's.
Sure(window) == window - Stall

MaxOf(a, b) == IF a >= b THEN a ELSE b
=============================================================================
