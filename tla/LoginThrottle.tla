---------------------------- MODULE LoginThrottle ----------------------------
(***************************************************************************)
(* Throttled logins: ThrottledModelBackend.authenticate (users/backends.py)*)
(* over LoginFailureService (users/services/login_failure_service.py).  An *)
(* attempt stores its row, counts with it included, and only then pays for *)
(* the password hash.  A wrong password leaves the row as the failure, a   *)
(* right one deletes the rows of its email from its IP.                    *)
(***************************************************************************)
EXTENDS ThrottleEvents

CONSTANT Logins     \* the [email, ip] pairs that log in

ASSUME LoginsAssumption == Logins \subseteq [email : Emails, ip : IPs \union {NoIP}]

VARIABLE cleared    \* attempts a success has forgiven; the code keeps no such record
vars == <<now, event, stored, phase, cleared>>

Phases == {"idle", "creating", "counting", "refusing", "refused",
           "checking", "failed", "succeeded", "abandoned"}
Undecided == {"creating", "counting"}

\* Mutant of IsThrottled: the rule of the IP is left out.
IsThrottledByEmail(r) ==
    LET limits == Limits.login
        recent == EmailRecent(r, limits.email_window_seconds)
    IN  \/ Cardinality(PairRecent(r, limits.email_ip_window_seconds)) > limits.email_ip_max_events
        \/ /\ Cardinality(recent) > limits.email_max_events
           /\ RecentWithin(recent, r, limits.email_backoff_seconds)

IsThrottled(r) ==
    LET limits == Limits.login
        recent == EmailRecent(r, limits.email_window_seconds)
    IN  \/ Cardinality(PairRecent(r, limits.email_ip_window_seconds)) > limits.email_ip_max_events
        \/ Cardinality(IPRecent(r, limits.ip_window_seconds)) > limits.ip_max_events
        \* Past the email's limit: one attempt per backoff.
        \/ /\ Cardinality(recent) > limits.email_max_events
           /\ RecentWithin(recent, r, limits.email_backoff_seconds)

Init ==
    /\ now = 0
    /\ event = [r \in Requests |-> NoEvent]
    /\ stored = {}
    /\ phase = [r \in Requests |-> "idle"]
    /\ cleared = {}

\* Every caller counts: both login pages, and authenticate() without a request
\* (no address).
Create(r) ==
    /\ \E login \in Logins : BuildRow(r, "login_failure", login.email, login.ip)
    /\ UNCHANGED cleared

Insert(r) == InsertRow(r, "counting") /\ UNCHANGED cleared

\* One aggregate query counts all three rules on one snapshot.
Count(r) ==
    /\ phase[r] = "counting"
    /\ phase' = [phase EXCEPT ![r] = IF IsThrottled(r) THEN "refusing" ELSE "checking"]
    /\ UNCHANGED <<now, event, stored, cleared>>

Refuse(r) == DeleteRefused(r) /\ UNCHANGED cleared

\* The hash does not match: the row stays as the failure.
WrongPassword(r) ==
    /\ phase[r] = "checking"
    /\ phase' = [phase EXCEPT ![r] = "failed"]
    /\ UNCHANGED <<now, event, stored, cleared>>

Inserted == {r \in Requests : phase[r] \notin {"idle", "creating"}}

\* Mutant of ClearedBy: a success clears its email everywhere.
ClearedByEmail(r) == {q \in Inserted : SameEmail(q, r)}
\* Mutant of ClearedBy: a success clears its IP.
ClearedByIP(r) == {q \in Inserted : q = r \/ SameIP(q, r)}

\* Without an address only the attempt's own row goes, else every row of the pair.
ClearedBy(r) == {q \in Inserted : IF event[r].ip = NoIP THEN q = r ELSE SamePair(q, r)}

\* The hash matches, and clear_attempt deletes.
RightPassword(r) ==
    /\ phase[r] = "checking"
    /\ stored' = stored \ ClearedBy(r)
    /\ cleared' = cleared \union ClearedBy(r)
    /\ phase' = [phase EXCEPT ![r] = "succeeded"]
    /\ UNCHANGED <<now, event>>

\* A completed password reset or accepted invite (LoginFailureService.clear):
\* nothing without an address.
ClearPair(email, ip) ==
    LET attempts == {q \in Inserted : event[q].email = email /\ event[q].ip = ip}
    IN  /\ attempts \intersect stored # {}
        /\ stored' = stored \ attempts
        /\ cleared' = cleared \union attempts
        /\ UNCHANGED <<now, event, phase>>

\* The process dies before its count, and the row stays.  Dying at any later
\* point is taking no further step, which Spec allows.
Crash(r) ==
    /\ phase[r] = "counting"
    /\ phase' = [phase EXCEPT ![r] = "abandoned"]
    /\ UNCHANGED <<now, event, stored, cleared>>

LongestWindow ==
    MaxOf(MaxOf(Limits.login.email_ip_window_seconds, Limits.login.ip_window_seconds),
          Limits.login.email_window_seconds)

Expired(r) == At(r) + LongestWindow < now

DeleteExpired ==
    /\ stored' = {r \in stored : ~Expired(r)}
    /\ stored' # stored
    /\ UNCHANGED <<now, event, phase, cleared>>

PassTime == Tick(Undecided) /\ UNCHANGED cleared

Next ==
    \/ \E r \in Requests :
        \/ Create(r) \/ Insert(r) \/ Count(r) \/ Refuse(r) \/ Crash(r)
        \/ WrongPassword(r) \/ RightPassword(r)
    \/ \E email \in Emails, ip \in IPs : ClearPair(email, ip)
    \/ DeleteExpired
    \/ PassTime

Spec == Init /\ [][Next]_vars

-----------------------------------------------------------------------------
\* The variables hold what the code can put in them; no row is from the future.
TypeOK ==
    /\ now \in 0 .. MaxTime
    /\ event \in [Requests -> Event]
    /\ stored \subseteq Requests
    /\ phase \in [Requests -> Phases]
    /\ cleared \subseteq Requests
    /\ \A r \in Requests : At(r) =< now

\* The attempts that reached the password hash.
Checked == {r \in Requests : phase[r] \in {"checking", "failed", "succeeded"}}
\* Those still held against their email and IP.
Held == Checked \ cleared

\* "A burst of parallel guesses can't all pass during the slow hash" (README.md
\* "Login"): in any window the cleanup leaves alone, at most
\* email_ip_max_events attempts on an email from an IP reach the hash, unless a
\* success for that pair cleared them.
PairCap ==
    \A r \in Held : event[r].ip # NoIP =>
        Cardinality(PairWindow(Held, r, Sure(Limits.login.email_ip_window_seconds)))
            =< Limits.login.email_ip_max_events

\* The same for everything one IP tries, whatever the email.
IPCap ==
    \A r \in Held : event[r].ip # NoIP =>
        Cardinality(IPWindow(Held, r, Sure(Limits.login.ip_window_seconds)))
            =< Limits.login.ip_max_events

InOneEmailWindow(S, window) ==
    \A p, q \in S : SameEmail(p, q) /\ At(q) =< At(p) + window

\* "One attempt per backoff": of any email_max_events + 1 attempts on an email
\* that fall into one window, one came a full backoff after all the others,
\* from however many IPs they came (_is_email_backing_off).
BackoffSpacing ==
    \A S \in SUBSET Held :
        /\ InOneEmailWindow(S, Sure(Limits.login.email_window_seconds))
        /\ Cardinality(S) > Limits.login.email_max_events
        => \E q \in S : \A o \in S \ {q} :
                At(o) + Limits.login.email_backoff_seconds =< At(q)

\* "Not a permanent lock": an attempt is refused only when, at most a window
\* earlier, as many others as a limit allows were stored, and for the email's
\* limit one of them less than a backoff ago.
Others(r, same(_, _), window) == {q \in Inserted \ {r} : same(q, r) /\ Within(q, r, window)}
RefusalJustified ==
    \A r \in Requests : phase[r] \in {"refusing", "refused"} =>
        LET limits == Limits.login
            others == Others(r, SameEmail, limits.email_window_seconds)
        IN  \/ Cardinality(Others(r, SamePair, limits.email_ip_window_seconds))
                    >= limits.email_ip_max_events
            \/ Cardinality(Others(r, SameIP, limits.ip_window_seconds)) >= limits.ip_max_events
            \/ /\ Cardinality(others) >= limits.email_max_events
               /\ RecentWithin(others, r, limits.email_backoff_seconds)

\* "One known password mustn't reset IP or email history" (clear_attempt): a
\* checked attempt's row disappears only past every window, with a success of
\* its own email from its own address, or with a completed reset or accepted
\* invite for that very email and address, which takes no other pair along.
OnlyOwnPairCleared ==
    [][\A q \in (stored \ stored') \intersect Checked :
        \/ At(q) + LongestWindow < now
        \/ \E r \in Requests : RightPassword(r) /\ (r = q \/ SamePair(q, r))
        \/ /\ event[q].ip # NoIP /\ ClearPair(event[q].email, event[q].ip)
           /\ \A o \in stored \ stored' : SamePair(o, q)]_vars

\* users/backends.py:44, "The attempt stays as the failure"; README.md "Login",
\* "it stays as the failure unless the login succeeds".
FailureStays ==
    [][\A r \in Requests : WrongPassword(r) => r \in stored']_vars

-----------------------------------------------------------------------------
\* The rule for one email from one IP implements the abstract limit that a
\* success of the pair resets.
PairGrants ==
    {[id |-> r, key |-> <<event[r].email, event[r].ip>>, at |-> At(r)] :
        r \in {q \in Held : event[q].ip # NoIP}}

GuessesByPair == INSTANCE SlidingWindow WITH
    Ids <- Requests, Keys <- Emails \X IPs, Times <- 0 .. MaxTime,
    MaxEvents <- Limits.login.email_ip_max_events,
    Window <- Sure(Limits.login.email_ip_window_seconds),
    Cooldown <- 0,
    granted <- PairGrants

\* Guesses keep the promise of SlidingWindow per email and IP.
PairLimitHolds == GuessesByPair!ResettableSpec
=============================================================================
