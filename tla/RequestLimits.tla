---------------------------- MODULE RequestLimits ----------------------------
(***************************************************************************)
(* The pages that send mail (users/services/request_limit_service.py and   *)
(* its callers): password reset, signup and verification email.  A request *)
(* stores its row, counts the rows of its email and then those of its IP   *)
(* in two queries, and deletes its own row when a limit refuses it.        *)
(***************************************************************************)
EXTENDS ThrottleEvents

CONSTANT Arrivals   \* the [scope, email, ip, limited] calls the clients make

\* What the callers can pass: a reset has an email and maybe an address, a
\* signup only an address, a verification email only an email.  A link of a
\* signup or an email change is recorded without asking the limit.
Calls ==
    [scope : {"password_reset"}, email : Emails, ip : IPs \union {NoIP}, limited : {TRUE}]
    \union [scope : {"signup"}, email : {NoEmail}, ip : IPs, limited : {TRUE}]
    \union [scope : {"verification_email"}, email : Emails, ip : {NoIP}, limited : BOOLEAN]

ASSUME ArrivalsAssumption == Arrivals \subseteq Calls

VARIABLE limited    \* the requests that ask their limit
vars == <<now, event, stored, phase, limited>>

Phases == {"idle", "creating", "counting", "countingIP", "refusing",
           "allowed", "refused", "recorded", "abandoned"}
Undecided == {"creating", "counting", "countingIP"}

\* The limits of a scope with an email rule.
EmailLimits(scope) == IF scope = "password_reset" THEN Limits.password_reset
                                                  ELSE Limits.verification_email
\* The limits of a scope with an IP rule.
IPLimits(scope) == IF scope = "password_reset" THEN Limits.password_reset
                                               ELSE Limits.signup
HasEmailRule(r) == event[r].scope \in {"password_reset", "verification_email"}
HasIPRule(r) == event[r].scope \in {"password_reset", "signup"} /\ event[r].ip # NoIP

IsEmailLimited(r) ==
    LET limits == EmailLimits(event[r].scope)
        recent == EmailRecent(r, limits.email_window_seconds)
    IN  \/ Cardinality(recent) > limits.email_max_events
        \/ RecentWithin(recent, r, limits.email_cooldown_seconds)

\* Mutant of IsIPLimited: a request too late.
IsIPLimitedLate(r) ==
    LET limits == IPLimits(event[r].scope)
    IN  Cardinality(IPRecent(r, limits.ip_window_seconds)) > limits.ip_max_events + 1

IsIPLimited(r) ==
    LET limits == IPLimits(event[r].scope)
    IN  Cardinality(IPRecent(r, limits.ip_window_seconds)) > limits.ip_max_events

-----------------------------------------------------------------------------
Init ==
    /\ now = 0
    /\ event = [r \in Requests |-> NoEvent]
    /\ stored = {}
    /\ phase = [r \in Requests |-> "idle"]
    /\ limited = {}

Create(r) ==
    \E call \in Arrivals :
        /\ BuildRow(r, call.scope, call.email, call.ip)
        /\ limited' = IF call.limited THEN limited \union {r} ELSE limited

\* A limited request goes on to its first count; an unconditional record is
\* done, and its mail is queued on commit.
Insert(r) ==
    /\ InsertRow(r, IF r \notin limited THEN "recorded"
                    ELSE IF HasEmailRule(r) THEN "counting" ELSE "countingIP")
    /\ UNCHANGED limited

\* Mutant of CountEmail: a pass of the email rule is taken for a pass of both.
CountEmailOnly(r) ==
    /\ phase[r] = "counting"
    /\ phase' = [phase EXCEPT ![r] = IF IsEmailLimited(r) THEN "refusing" ELSE "allowed"]
    /\ UNCHANGED <<now, event, stored, limited>>

\* The email rule comes first; only a pass goes on to the IP rule.
CountEmail(r) ==
    /\ phase[r] = "counting"
    /\ phase' = [phase EXCEPT ![r] = IF IsEmailLimited(r) THEN "refusing"
                                     ELSE IF HasIPRule(r) THEN "countingIP" ELSE "allowed"]
    /\ UNCHANGED <<now, event, stored, limited>>

CountIP(r) ==
    /\ phase[r] = "countingIP"
    /\ phase' = [phase EXCEPT ![r] = IF IsIPLimited(r) THEN "refusing" ELSE "allowed"]
    /\ UNCHANGED <<now, event, stored, limited>>

Refuse(r) == DeleteRefused(r) /\ UNCHANGED limited

\* The process (or its database connection) dies before a count, and the row
\* stays.  Dying before the INSERT leaves no trace, and dying later is taking
\* no further step, which Spec allows.
Crash(r) ==
    /\ phase[r] \in {"counting", "countingIP"}
    /\ phase' = [phase EXCEPT ![r] = "abandoned"]
    /\ UNCHANGED <<now, event, stored, limited>>

LongestWindow(scope) ==
    CASE scope = "password_reset" -> MaxOf(Limits.password_reset.email_window_seconds,
                                           Limits.password_reset.ip_window_seconds)
      [] scope = "signup" -> Limits.signup.ip_window_seconds
      [] scope = "verification_email" -> Limits.verification_email.email_window_seconds

\* Mutant of Expired: not strictly.
ExpiredAtEdge(r) == At(r) + LongestWindow(event[r].scope) =< now
\* Mutant of Expired: resets are deleted past the window of the IP rule only.
ExpiredByIPWindow(r) ==
    At(r) + (IF event[r].scope = "password_reset" THEN Limits.password_reset.ip_window_seconds
             ELSE LongestWindow(event[r].scope)) < now

\* created_at < now - window, strictly.
Expired(r) == At(r) + LongestWindow(event[r].scope) < now

DeleteExpired ==
    /\ stored' = {r \in stored : ~Expired(r)}
    /\ stored' # stored
    /\ UNCHANGED <<now, event, phase, limited>>

PassTime == Tick(Undecided) /\ UNCHANGED limited

Next ==
    \/ \E r \in Requests :
        Create(r) \/ Insert(r) \/ CountEmail(r) \/ CountIP(r) \/ Refuse(r) \/ Crash(r)
    \/ DeleteExpired
    \/ PassTime

Spec == Init /\ [][Next]_vars

-----------------------------------------------------------------------------
\* The variables hold what the code can put in them, a stored row was inserted,
\* and every started request built its row.
TypeOK ==
    /\ now \in 0 .. MaxTime
    /\ event \in [Requests -> Event]
    /\ stored \subseteq Requests
    /\ phase \in [Requests -> Phases]
    /\ limited \subseteq Requests
    /\ \A r \in Requests : At(r) =< now

Allowed == {r \in Requests : phase[r] = "allowed"}

\* Two of an email's allowed requests are never closer than the cooldown, so
\* an inbox gets its mails 5 minutes apart (README.md, "Pages that send mail"),
\* however the requests overlapped and whatever the cleanup deleted meanwhile.
EmailCooldown ==
    \A q, r \in Allowed : q # r /\ SameEmail(q, r) /\ HasEmailRule(r) =>
        LET gap == EmailLimits(event[r].scope).email_cooldown_seconds
        IN  At(q) + gap =< At(r) \/ At(r) + gap =< At(q)

\* "A burst of parallel requests can't all slip under the limit": any window
\* the cleanup leaves alone holds at most email_max_events allowed requests of
\* an email (record_password_reset, record_verification_email).
EmailCap ==
    \A r \in Allowed : HasEmailRule(r) =>
        LET limits == EmailLimits(event[r].scope)
        IN  Cardinality(EmailWindow(Allowed, r, Sure(limits.email_window_seconds)))
                =< limits.email_max_events

\* The same for the requests of an IP (record_password_reset, record_signup).
IPCap ==
    \A r \in Allowed : HasIPRule(r) =>
        LET limits == IPLimits(event[r].scope)
        IN  Cardinality(IPWindow(Allowed, r, Sure(limits.ip_window_seconds)))
                =< limits.ip_max_events

\* "Waiting works": a request is refused only if, not more than a window
\* earlier, enough other requests of its email or IP put a row in the table,
\* or one did within the cooldown.  An own row taken for somebody else's, or
\* a limit that is reached one request early, would refuse without them.
Inserted == {r \in Requests : phase[r] \notin {"idle", "creating"}}
Others(r, same(_, _), window) == {q \in Inserted \ {r} : same(q, r) /\ Within(q, r, window)}
RefusalJustified ==
    \A r \in Requests : phase[r] \in {"refusing", "refused"} =>
        \/ /\ HasEmailRule(r)
           /\ LET limits == EmailLimits(event[r].scope)
                  others == Others(r, SameEmail, limits.email_window_seconds)
              IN  \/ Cardinality(others) >= limits.email_max_events
                  \/ RecentWithin(others, r, limits.email_cooldown_seconds)
        \/ /\ HasIPRule(r)
           /\ LET limits == IPLimits(event[r].scope)
              IN  Cardinality(Others(r, SameIP, limits.ip_window_seconds))
                      >= limits.ip_max_events

\* Until its window has passed, an allowed request stays counted: the cleanup
\* and the refusals of others never take its row (delete_expired, _refuse).
AllowedStayCounted ==
    \A r \in Allowed : r \in stored \/ At(r) + LongestWindow(event[r].scope) < now

\* users/services/request_limit_service.py:49, "Rows past their scope's longest
\* window only hold personal data": deleting them never lets more than
\* email_max_events requests of an email into one whole window.
EmailCapWholeWindow ==
    \A r \in Allowed : HasEmailRule(r) =>
        LET limits == EmailLimits(event[r].scope)
        IN  Cardinality(EmailWindow(Allowed, r, limits.email_window_seconds))
                =< limits.email_max_events

-----------------------------------------------------------------------------
\* Each rule on its own implements the abstract limit: its grants are the
\* allowed requests of the scope, in the order they were counted.
Granted(scope, column) ==
    {r \in Allowed : event[r].scope = scope /\ event[r][column] \notin {NoEmail, NoIP}}
GrantsOf(scope, column) ==
    {[id |-> r, key |-> event[r][column], at |-> At(r)] : r \in Granted(scope, column)}

ResetsByEmail == INSTANCE SlidingWindow WITH
    Ids <- Requests, Keys <- Emails, Times <- 0 .. MaxTime,
    MaxEvents <- Limits.password_reset.email_max_events,
    Window <- Sure(Limits.password_reset.email_window_seconds),
    Cooldown <- Limits.password_reset.email_cooldown_seconds,
    granted <- GrantsOf("password_reset", "email")

ResetsByIP == INSTANCE SlidingWindow WITH
    Ids <- Requests, Keys <- IPs, Times <- 0 .. MaxTime,
    MaxEvents <- Limits.password_reset.ip_max_events,
    Window <- Sure(Limits.password_reset.ip_window_seconds),
    Cooldown <- 0,
    granted <- GrantsOf("password_reset", "ip")

SignupsByIP == INSTANCE SlidingWindow WITH
    Ids <- Requests, Keys <- IPs, Times <- 0 .. MaxTime,
    MaxEvents <- Limits.signup.ip_max_events,
    Window <- Sure(Limits.signup.ip_window_seconds),
    Cooldown <- 0,
    granted <- GrantsOf("signup", "ip")

LinksByEmail == INSTANCE SlidingWindow WITH
    Ids <- Requests, Keys <- Emails, Times <- 0 .. MaxTime,
    MaxEvents <- Limits.verification_email.email_max_events,
    Window <- Sure(Limits.verification_email.email_window_seconds),
    Cooldown <- Limits.verification_email.email_cooldown_seconds,
    granted <- GrantsOf("verification_email", "email")

\* Password resets keep the promise of SlidingWindow per email and per IP,
\* with one table and one cleanup for both rules.
ResetLimitHolds == ResetsByEmail!StrictSpec /\ ResetsByIP!StrictSpec
\* Signups keep it per IP.
SignupLimitHolds == SignupsByIP!StrictSpec
\* The links that somebody asks for keep it per email, whatever links of a
\* signup or an email change are recorded in between.
LinkLimitHolds == LinksByEmail!StrictSpec
=============================================================================
