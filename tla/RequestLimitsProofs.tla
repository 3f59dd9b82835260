------------------------- MODULE RequestLimitsProofs -------------------------
(***************************************************************************)
(* Proofs about RequestLimits: for every number of requests, emails and    *)
(* addresses, every limits the settings accept and every stall they        *)
(* outlast, the caps and the cooldown hold.  The argument: of the requests *)
(* of a window, the one counted last finds the rows of all others, because *)
(* nothing but the cleanup deletes a passed request's row and the cleanup  *)
(* reaches no window younger than Sure.                                    *)
(***************************************************************************)
EXTENDS RequestLimits, FiniteSetTheorems, TLAPS

\* The requests of an email that passed its rule; for a reset the rule of its
\* IP comes later.
EmailPassed == {r \in Requests : phase[r] \in {"countingIP", "allowed"} /\ HasEmailRule(r)}

\* A started request carries what its caller could pass, and is where its
\* scope's rules can lead it.
CallShape ==
    \A r \in Requests :
        /\ phase[r] # "idle" =>
            \/ event[r].scope = "password_reset" /\ event[r].email \in Emails
            \/ event[r].scope = "signup" /\ event[r].ip \in IPs
            \/ event[r].scope = "verification_email" /\ event[r].email \in Emails
        /\ phase[r] = "counting" => HasEmailRule(r)
        /\ phase[r] = "countingIP" => HasIPRule(r)

\* An inserted row stays until it is refused, given up or expired.
StillCounted ==
    \A r \in Requests : phase[r] \in {"counting", "countingIP", "allowed"} =>
        r \in stored \/ At(r) + LongestWindow(event[r].scope) < now

\* No uncounted request is older than Stall.
UndecidedFresh == \A r \in Requests : phase[r] \in Undecided => now =< At(r) + Stall

EmailPassedCap ==
    \A r \in EmailPassed :
        LET limits == EmailLimits(event[r].scope)
        IN  Cardinality(EmailWindow(EmailPassed, r, Sure(limits.email_window_seconds)))
                =< limits.email_max_events

EmailPassedCooldown ==
    \A q, r \in EmailPassed : q # r /\ SameEmail(q, r) =>
        LET gap == EmailLimits(event[r].scope).email_cooldown_seconds
        IN  At(q) + gap =< At(r) \/ At(r) + gap =< At(q)

IInv ==
    /\ TypeOK
    /\ CallShape
    /\ StillCounted
    /\ UndecidedFresh
    /\ EmailPassedCap
    /\ EmailPassedCooldown
    /\ IPCap

-----------------------------------------------------------------------------
(* What the settings guarantee about the numbers.                          *)

LEMMA LimitsAreNumbers ==
    /\ Limits.password_reset.email_max_events \in Nat
    /\ Limits.password_reset.email_window_seconds \in Nat
    /\ Limits.password_reset.email_cooldown_seconds \in Nat
    /\ Limits.password_reset.ip_max_events \in Nat
    /\ Limits.password_reset.ip_window_seconds \in Nat
    /\ Limits.signup.ip_max_events \in Nat
    /\ Limits.signup.ip_window_seconds \in Nat
    /\ Limits.verification_email.email_max_events \in Nat
    /\ Limits.verification_email.email_window_seconds \in Nat
    /\ Limits.verification_email.email_cooldown_seconds \in Nat
<1>1. Limits \in ThrottleLimits
  BY LimitsAssumption
<1>2. /\ Limits.password_reset \in PasswordResetLimits
      /\ Limits.signup \in SignupLimits
      /\ Limits.verification_email \in VerificationEmailLimits
  BY <1>1 DEF ThrottleLimits
<1> QED
  BY <1>2 DEF PasswordResetLimits, SignupLimits, VerificationEmailLimits, PositiveInt

LEMMA TypeInit == Init => TypeOK
BY ClockAssumption DEF Init, TypeOK, Event, NoEvent, Phases, At

LEMMA TypeStep == TypeOK /\ [Next]_vars => TypeOK'
<1> SUFFICES ASSUME TypeOK, [Next]_vars PROVE TypeOK'
  OBVIOUS
<1> USE ClockAssumption
<1>1. ASSUME NEW r \in Requests, Create(r) PROVE TypeOK'
  <2>1. PICK call \in Arrivals :
            /\ BuildRow(r, call.scope, call.email, call.ip)
            /\ limited' = IF call.limited THEN limited \union {r} ELSE limited
    BY <1>1 DEF Create
  <2>2. /\ call.scope \in Scopes
        /\ call.email \in Emails \union {NoEmail}
        /\ call.ip \in IPs \union {NoIP}
    BY ArrivalsAssumption DEF Calls, Scopes
  <2>3. [scope |-> call.scope, email |-> call.email, ip |-> call.ip, created_at |-> now]
            \in Event
    BY <2>2 DEF Event, TypeOK
  <2>4. event' \in [Requests -> Event] /\ \A x \in Requests : At(x)' =< now
    BY <2>1, <2>3 DEF BuildRow, TypeOK, At
  <2> QED
    BY <2>1, <2>4 DEF BuildRow, TypeOK, Phases
<1>2. ASSUME NEW r \in Requests, Insert(r) PROVE TypeOK'
  BY <1>2 DEF Insert, InsertRow, TypeOK, Phases, At
<1>3. ASSUME NEW r \in Requests, CountEmail(r) PROVE TypeOK'
  BY <1>3 DEF CountEmail, TypeOK, Phases, At
<1>4. ASSUME NEW r \in Requests, CountIP(r) PROVE TypeOK'
  BY <1>4 DEF CountIP, TypeOK, Phases, At
<1>5. ASSUME NEW r \in Requests, Refuse(r) PROVE TypeOK'
  BY <1>5 DEF Refuse, DeleteRefused, TypeOK, Phases, At
<1>6. ASSUME NEW r \in Requests, Crash(r) PROVE TypeOK'
  BY <1>6 DEF Crash, TypeOK, Phases, At
<1>7. CASE DeleteExpired
  BY <1>7 DEF DeleteExpired, TypeOK, At
<1>8. CASE PassTime
  BY <1>8 DEF PassTime, Tick, TypeOK, At, Event
<1>9. CASE UNCHANGED vars
  BY <1>9 DEF vars, TypeOK, At
<1> QED
  BY <1>1, <1>2, <1>3, <1>4, <1>5, <1>6, <1>7, <1>8, <1>9 DEF Next

(***************************************************************************)
(* Every variable keeps to what the code can put in it, and no row is from *)
(* the future (ThrottleEvent.created_at is read before the row exists).    *)
(***************************************************************************)
THEOREM TypeCorrect == Spec => []TypeOK
BY TypeInit, TypeStep, PTL DEF Spec

-----------------------------------------------------------------------------
(* What a count sees.                                                      *)

\* A stalled request that is counted with windows longer than its stall.
LEMMA EmailWindowFacts ==
    ASSUME TypeOK, CallShape, NEW r \in Requests, phase[r] # "idle", HasEmailRule(r)
    PROVE  LET limits == EmailLimits(event[r].scope)
           IN  /\ limits.email_window_seconds \in Nat
               /\ limits.email_cooldown_seconds \in Nat
               /\ limits.email_max_events \in Nat
               /\ LongestWindow(event[r].scope) \in Nat
               /\ LongestWindow(event[r].scope) >= limits.email_window_seconds
               /\ limits.email_window_seconds >= Stall + limits.email_cooldown_seconds
               /\ At(r) \in Nat /\ Stall \in Nat /\ now \in Nat
<1>1. At(r) \in Nat /\ Stall \in Nat /\ now \in Nat
  BY ClockAssumption DEF TypeOK, At, Event
<1>2. CASE event[r].scope = "password_reset"
  BY <1>1, <1>2, LimitsAreNumbers, StallAssumption DEF EmailLimits, LongestWindow, MaxOf
<1>3. CASE event[r].scope = "verification_email"
  BY <1>1, <1>3, LimitsAreNumbers, StallAssumption DEF EmailLimits, LongestWindow
<1> QED
  BY <1>2, <1>3 DEF HasEmailRule

LEMMA IPWindowFacts ==
    ASSUME TypeOK, CallShape, NEW r \in Requests, phase[r] # "idle", HasIPRule(r)
    PROVE  LET limits == IPLimits(event[r].scope)
           IN  /\ limits.ip_window_seconds \in Nat
               /\ limits.ip_max_events \in Nat
               /\ LongestWindow(event[r].scope) \in Nat
               /\ LongestWindow(event[r].scope) >= limits.ip_window_seconds
               /\ limits.ip_window_seconds >= Stall
               /\ At(r) \in Nat /\ Stall \in Nat /\ now \in Nat
<1>1. At(r) \in Nat /\ Stall \in Nat /\ now \in Nat
  BY ClockAssumption DEF TypeOK, At, Event
<1>2. CASE event[r].scope = "password_reset"
  BY <1>1, <1>2, LimitsAreNumbers, StallAssumption DEF IPLimits, LongestWindow, MaxOf
<1>3. CASE event[r].scope = "signup"
  BY <1>1, <1>3, LimitsAreNumbers, StallAssumption DEF IPLimits, LongestWindow
<1> QED
  BY <1>2, <1>3 DEF HasIPRule

\* CountEmail(r) finds the row of every passed request of its email that is
\* younger than Sure before r, and r's own.
LEMMA EmailCountSees ==
    ASSUME TypeOK, CallShape, StillCounted, UndecidedFresh,
           NEW r \in Requests, phase[r] = "counting",
           NEW q \in Requests, q = r \/ q \in EmailPassed, SameEmail(q, r),
           At(q) + Sure(EmailLimits(event[r].scope).email_window_seconds) >= At(r)
    PROVE  q \in EmailRecent(r, EmailLimits(event[r].scope).email_window_seconds)
<1> DEFINE W == EmailLimits(event[r].scope).email_window_seconds
           L == LongestWindow(event[r].scope)
<1>1. HasEmailRule(r)
  BY DEF CallShape
<1>2. W \in Nat /\ L \in Nat /\ L >= W /\ W >= Stall
      /\ At(r) \in Nat /\ Stall \in Nat /\ now \in Nat
  BY <1>1, EmailWindowFacts
<1>3. At(q) \in Nat
  BY DEF TypeOK, At, Event
<1>4. now =< At(r) + Stall
  BY DEF UndecidedFresh, Undecided
<1>5. q \in stored \/ At(q) + L < now
  BY DEF StillCounted, EmailPassed, SameEmail, SameScope
<1>6. At(q) + (W - Stall) >= At(r)
  BY DEF Sure
<1> HIDE DEF W, L
<1>7. At(q) + W >= At(r) /\ ~(At(q) + L < now)
  BY <1>2, <1>3, <1>4, <1>6
<1> QED
  BY <1>5, <1>7 DEF EmailRecent, Within, W

LEMMA IPCountSees ==
    ASSUME TypeOK, CallShape, StillCounted, UndecidedFresh,
           NEW r \in Requests, phase[r] = "countingIP",
           NEW q \in Requests, q = r \/ q \in Allowed, SameIP(q, r),
           At(q) + Sure(IPLimits(event[r].scope).ip_window_seconds) >= At(r)
    PROVE  q \in IPRecent(r, IPLimits(event[r].scope).ip_window_seconds)
<1> DEFINE W == IPLimits(event[r].scope).ip_window_seconds
           L == LongestWindow(event[r].scope)
<1>1. HasIPRule(r)
  BY DEF CallShape
<1>2. W \in Nat /\ L \in Nat /\ L >= W /\ W >= Stall
      /\ At(r) \in Nat /\ Stall \in Nat /\ now \in Nat
  BY <1>1, IPWindowFacts
<1>3. At(q) \in Nat
  BY DEF TypeOK, At, Event
<1>4. now =< At(r) + Stall
  BY DEF UndecidedFresh, Undecided
<1>5. q \in stored \/ At(q) + L < now
  BY DEF StillCounted, Allowed, SameIP, SameScope
<1>6. At(q) + (W - Stall) >= At(r)
  BY DEF Sure
<1> HIDE DEF W, L
<1>7. At(q) + W >= At(r) /\ ~(At(q) + L < now)
  BY <1>2, <1>3, <1>4, <1>6
<1> QED
  BY <1>5, <1>7 DEF IPRecent, Within, W

\* A part of a finite set of requests is no larger.
LEMMA PartIsSmaller ==
    ASSUME NEW S \in SUBSET Requests, NEW T \in SUBSET S
    PROVE  Cardinality(T) =< Cardinality(S) /\ Cardinality(S) \in Nat /\ Cardinality(T) \in Nat
BY RequestsAssumption, FS_Subset, FS_CardinalityType

-----------------------------------------------------------------------------
(* The invariant is inductive, one lemma per conjunct.                     *)

\* What a Create leaves alone: the rows of the requests that have started.
LEMMA StartedKeepRows ==
    ASSUME TypeOK, [Next]_vars, NEW q \in Requests, phase[q] # "idle"
    PROVE  event'[q] = event[q]
BY DEF Next, vars, Create, BuildRow, Insert, InsertRow, CountEmail, CountIP, Refuse,
       DeleteRefused, Crash, DeleteExpired, PassTime, Tick, TypeOK

LEMMA ShapeStep == TypeOK /\ CallShape /\ [Next]_vars => CallShape'
<1> SUFFICES ASSUME TypeOK, CallShape, [Next]_vars PROVE CallShape'
  OBVIOUS
<1> USE DEF CallShape, HasEmailRule, HasIPRule
<1>1. ASSUME NEW r \in Requests, Create(r) PROVE CallShape'
  <2>1. PICK call \in Arrivals : BuildRow(r, call.scope, call.email, call.ip)
    BY <1>1 DEF Create
  <2>2. \/ call.scope = "password_reset" /\ call.email \in Emails
        \/ call.scope = "signup" /\ call.ip \in IPs
        \/ call.scope = "verification_email" /\ call.email \in Emails
    BY ArrivalsAssumption DEF Calls
  <2> QED
    BY <2>1, <2>2 DEF BuildRow, TypeOK
<1>2. ASSUME NEW r \in Requests, Insert(r) PROVE CallShape'
  BY <1>2, SentinelAssumption DEF Insert, InsertRow, TypeOK
<1>3. ASSUME NEW r \in Requests, CountEmail(r) PROVE CallShape'
  BY <1>3 DEF CountEmail, TypeOK
<1>4. ASSUME NEW r \in Requests, CountIP(r) PROVE CallShape'
  BY <1>4 DEF CountIP, TypeOK
<1>5. ASSUME NEW r \in Requests, Refuse(r) PROVE CallShape'
  BY <1>5 DEF Refuse, DeleteRefused, TypeOK
<1>6. ASSUME NEW r \in Requests, Crash(r) PROVE CallShape'
  BY <1>6 DEF Crash, TypeOK
<1>7. CASE DeleteExpired \/ PassTime \/ UNCHANGED vars
  BY <1>7 DEF DeleteExpired, PassTime, Tick, vars
<1> QED
  BY <1>1, <1>2, <1>3, <1>4, <1>5, <1>6, <1>7 DEF Next

LEMMA FreshStep == TypeOK /\ UndecidedFresh /\ [Next]_vars => UndecidedFresh'
<1> SUFFICES ASSUME TypeOK, UndecidedFresh, [Next]_vars PROVE UndecidedFresh'
  OBVIOUS
<1> USE ClockAssumption DEF UndecidedFresh, Undecided, At, TypeOK
<1>1. ASSUME NEW r \in Requests, Create(r) PROVE UndecidedFresh'
  BY <1>1 DEF Create, BuildRow
<1>2. ASSUME NEW r \in Requests, Insert(r) \/ CountEmail(r) \/ CountIP(r) PROVE UndecidedFresh'
  BY <1>2 DEF Insert, InsertRow, CountEmail, CountIP
<1>3. ASSUME NEW r \in Requests, Refuse(r) \/ Crash(r) PROVE UndecidedFresh'
  BY <1>3 DEF Refuse, DeleteRefused, Crash
<1>4. CASE PassTime
  <2>1. \A r \in Requests : At(r) \in Nat
    BY DEF Event
  <2> QED
    BY <1>4, <2>1 DEF PassTime, Tick
<1>5. CASE DeleteExpired \/ UNCHANGED vars
  BY <1>5 DEF DeleteExpired, vars
<1> QED
  BY <1>1, <1>2, <1>3, <1>4, <1>5 DEF Next

LEMMA StillStep == TypeOK /\ CallShape /\ StillCounted /\ [Next]_vars => StillCounted'
<1> SUFFICES ASSUME TypeOK, CallShape, StillCounted, [Next]_vars PROVE StillCounted'
  OBVIOUS
<1> USE DEF StillCounted, At, TypeOK
<1>1. ASSUME NEW r \in Requests, Create(r) PROVE StillCounted'
  BY <1>1 DEF Create, BuildRow
<1>2. ASSUME NEW r \in Requests, Insert(r) \/ CountEmail(r) \/ CountIP(r) PROVE StillCounted'
  BY <1>2 DEF Insert, InsertRow, CountEmail, CountIP
<1>3. ASSUME NEW r \in Requests, Refuse(r) \/ Crash(r) PROVE StillCounted'
  BY <1>3 DEF Refuse, DeleteRefused, Crash
<1>4. CASE DeleteExpired
  BY <1>4 DEF DeleteExpired, Expired
<1>5. CASE PassTime
  <2> SUFFICES ASSUME NEW r \in Requests, phase[r] \in {"counting", "countingIP", "allowed"},
                      r \notin stored
               PROVE  At(r) + LongestWindow(event[r].scope) < now + 1
    BY <1>5 DEF PassTime, Tick
  <2>1. LongestWindow(event[r].scope) \in Nat
    BY LimitsAreNumbers DEF LongestWindow, MaxOf, CallShape
  <2>2. At(r) \in Nat /\ now \in Nat
    BY ClockAssumption DEF Event
  <2>3. At(r) + LongestWindow(event[r].scope) < now
    OBVIOUS
  <2> HIDE DEF At
  <2> QED
    BY <2>1, <2>2, <2>3
<1>6. CASE UNCHANGED vars
  BY <1>6 DEF vars
<1> QED
  BY <1>1, <1>2, <1>3, <1>4, <1>5, <1>6 DEF Next

\* A request that has passed a rule did not start in this very step.
LEMMA PassedWereStarted ==
    ASSUME TypeOK, [Next]_vars, NEW r \in Requests,
           phase'[r] \in {"countingIP", "allowed"}
    PROVE  phase[r] # "idle"
BY DEF Next, vars, Create, BuildRow, Insert, InsertRow, CountEmail, CountIP, Refuse,
       DeleteRefused, Crash, DeleteExpired, PassTime, Tick, TypeOK

\* Only CountEmail lets a request pass the email rule.
LEMMA EmailPassedStep ==
    ASSUME TypeOK, CallShape, [Next]_vars, NEW r \in EmailPassed', r \notin EmailPassed
    PROVE  CountEmail(r) /\ ~IsEmailLimited(r)
BY DEF Next, vars, Create, BuildRow, Insert, InsertRow, CountEmail, CountIP, Refuse,
       DeleteRefused, Crash, DeleteExpired, PassTime, Tick, TypeOK, EmailPassed, CallShape,
       HasEmailRule, HasIPRule

\* Only CountIP lets a request with an address through.
LEMMA AllowedStep ==
    ASSUME TypeOK, CallShape, [Next]_vars, NEW r \in Allowed', HasIPRule(r)', r \notin Allowed
    PROVE  CountIP(r) /\ ~IsIPLimited(r)
BY DEF Next, vars, Create, BuildRow, Insert, InsertRow, CountEmail, CountIP, Refuse,
       DeleteRefused, Crash, DeleteExpired, PassTime, Tick, TypeOK, Allowed, CallShape,
       HasEmailRule, HasIPRule

-----------------------------------------------------------------------------
(* The caps and the cooldown.                                              *)

\* A row of the invariants looks the same after a step.
LEMMA PassedLookAlike ==
    ASSUME TypeOK, [Next]_vars, NEW q \in Requests, NEW r \in Requests,
           phase[q] # "idle", phase[r] # "idle"
    PROVE  /\ At(q)' = At(q)
           /\ event'[r].scope = event[r].scope
           /\ SameEmail(q, r)' = SameEmail(q, r)
           /\ SameIP(q, r)' = SameIP(q, r)
           /\ HasEmailRule(r)' = HasEmailRule(r)
           /\ HasIPRule(r)' = HasIPRule(r)
<1>1. event'[q] = event[q] /\ event'[r] = event[r]
  BY StartedKeepRows
<1> QED
  BY <1>1 DEF At, SameEmail, SameIP, SameScope, HasEmailRule, HasIPRule

LEMMA EmailCapStep == IInv /\ [Next]_vars => EmailPassedCap'
<1> SUFFICES ASSUME IInv, [Next]_vars, NEW x \in EmailPassed'
             PROVE  (Cardinality(EmailWindow(EmailPassed, x,
                         Sure(EmailLimits(event[x].scope).email_window_seconds)))
                            =< EmailLimits(event[x].scope).email_max_events)'
  BY DEF EmailPassedCap
<1> DEFINE limits == EmailLimits(event[x].scope)
           W == limits.email_window_seconds
           new == EmailWindow(EmailPassed, x, Sure(W))'
<1>1. /\ EmailPassed' \subseteq Requests /\ EmailPassed \subseteq Requests
      /\ \A q \in EmailPassed \union EmailPassed' : phase[q] # "idle"
  BY PassedWereStarted DEF IInv, EmailPassed
<1>2. event'[x].scope = event[x].scope
  BY <1>1, PassedLookAlike DEF IInv
<1>3. \A q \in EmailPassed' :
        /\ At(q)' = At(q) /\ At(x)' = At(x)
        /\ SameEmail(q, x)' = SameEmail(q, x)
  BY <1>1, PassedLookAlike DEF IInv
<1>4. new = {q \in EmailPassed' : SameEmail(q, x) /\ At(x) =< At(q) /\ At(q) =< At(x) + Sure(W)'}
  BY <1>3 DEF EmailWindow
<1>5. Sure(W)' = Sure(W)
  BY <1>2 DEF Sure, EmailLimits
<1>6. EmailLimits(event[x].scope)' = limits
  BY <1>2 DEF EmailLimits
<1>7. CASE \E r \in new : r \notin EmailPassed
  <2>1. PICK r \in new : r \notin EmailPassed
    BY <1>7
  <2>2. r \in Requests /\ r \in EmailPassed'
    BY <1>1, <1>4, <2>1
  <2>3. CountEmail(r) /\ ~IsEmailLimited(r)
    BY <2>1, <2>2, EmailPassedStep DEF IInv
  <2>4. \A q \in EmailPassed' : q = r \/ q \in EmailPassed
    BY <2>2, <2>3, <1>1 DEF CountEmail, EmailPassed, IInv, TypeOK, HasEmailRule
  <2>5. SameEmail(r, x) /\ event[r].scope = event[x].scope
    BY <1>4, <2>1 DEF SameEmail, SameScope
  <2>6. W \in Nat /\ Stall \in Nat /\ W >= Stall
    <3>1. HasEmailRule(x) /\ x \in Requests /\ phase[x] # "idle"
      BY <1>1, <1>2 DEF EmailPassed, HasEmailRule
    <3> QED
      BY <3>1, EmailWindowFacts DEF IInv
  <2>7. new \subseteq EmailRecent(r, W)
    <3> SUFFICES ASSUME NEW q \in new PROVE q \in EmailRecent(r, W)
      OBVIOUS
    <3>1. /\ q \in EmailPassed' /\ SameEmail(q, x) /\ At(x) =< At(q)
          /\ At(r) =< At(x) + Sure(W)
      BY <1>4, <1>5, <2>1
    <3>2. q \in Requests /\ (q = r \/ q \in EmailPassed) /\ SameEmail(q, r)
      BY <1>1, <2>4, <2>5, <3>1 DEF SameEmail, SameScope
    <3>3. At(q) \in Nat /\ At(r) \in Nat /\ At(x) \in Nat
      BY <1>1, <2>2, <3>2 DEF IInv, TypeOK, At, Event
    <3>4. At(q) + Sure(W) >= At(r)
      BY <2>6, <3>1, <3>3 DEF Sure
    <3> QED
      BY <2>2, <2>3, <2>5, <3>2, <3>4, EmailCountSees DEF IInv, CountEmail
  <2>8. Cardinality(EmailRecent(r, W)) =< limits.email_max_events
    BY <2>3, <2>5, LimitsAreNumbers, RequestsAssumption, FS_Subset, FS_CardinalityType
    DEF IsEmailLimited, EmailRecent, EmailLimits, IInv, TypeOK
  <2>9. Cardinality(new) =< Cardinality(EmailRecent(r, W))
        /\ Cardinality(new) \in Nat /\ Cardinality(EmailRecent(r, W)) \in Nat
    BY <2>7, PartIsSmaller DEF EmailRecent, IInv, TypeOK
  <2>10. limits.email_max_events \in Nat
    BY LimitsAreNumbers DEF EmailLimits
  <2> QED
    BY <1>6, <2>8, <2>9, <2>10
<1>8. CASE \A r \in new : r \in EmailPassed
  <2> DEFINE old == EmailWindow(EmailPassed, x, Sure(W))
  <2>1. x \in new
    <3>1. At(x) \in Nat /\ Sure(W) \in Nat
      <4>1. HasEmailRule(x) /\ x \in Requests /\ phase[x] # "idle"
        BY <1>1, <1>2 DEF EmailPassed, HasEmailRule
      <4>2. W \in Nat /\ Stall \in Nat /\ W >= Stall /\ At(x) \in Nat
        BY <4>1, EmailWindowFacts DEF IInv
      <4> QED
        BY <4>2 DEF Sure
    <3> QED
      BY <1>4, <1>5, <3>1 DEF SameEmail, SameScope
  <2>2. x \in EmailPassed
    BY <1>8, <2>1
  <2>3. Cardinality(old) =< limits.email_max_events
    BY <2>2 DEF IInv, EmailPassedCap
  <2>4. new \subseteq old
    BY <1>4, <1>5, <1>8 DEF EmailWindow
  <2>5. Cardinality(new) =< Cardinality(old) /\ Cardinality(new) \in Nat
        /\ Cardinality(old) \in Nat
    BY <1>1, <2>4, PartIsSmaller DEF EmailWindow
  <2>6. limits.email_max_events \in Nat
    BY LimitsAreNumbers DEF EmailLimits
  <2> QED
    BY <1>6, <2>3, <2>5, <2>6
<1> QED
  BY <1>7, <1>8
LEMMA IPCapStep == IInv /\ [Next]_vars => IPCap'
<1> SUFFICES ASSUME IInv, [Next]_vars, NEW x \in Allowed', HasIPRule(x)'
             PROVE  (Cardinality(IPWindow(Allowed, x,
                         Sure(IPLimits(event[x].scope).ip_window_seconds)))
                            =< IPLimits(event[x].scope).ip_max_events)'
  BY DEF IPCap
<1> DEFINE limits == IPLimits(event[x].scope)
           W == limits.ip_window_seconds
           new == IPWindow(Allowed, x, Sure(W))'
<1>1. /\ Allowed' \subseteq Requests /\ Allowed \subseteq Requests
      /\ \A q \in Allowed \union Allowed' : phase[q] # "idle"
  BY PassedWereStarted DEF IInv, Allowed
<1>2. event'[x].scope = event[x].scope /\ HasIPRule(x)
  BY <1>1, PassedLookAlike DEF IInv
<1>3. \A q \in Allowed' :
        /\ At(q)' = At(q) /\ At(x)' = At(x)
        /\ SameIP(q, x)' = SameIP(q, x)
  BY <1>1, PassedLookAlike DEF IInv
<1>4. new = {q \in Allowed' : SameIP(q, x) /\ At(x) =< At(q) /\ At(q) =< At(x) + Sure(W)'}
  BY <1>3 DEF IPWindow
<1>5. Sure(W)' = Sure(W)
  BY <1>2 DEF Sure, IPLimits
<1>6. IPLimits(event[x].scope)' = limits
  BY <1>2 DEF IPLimits
<1>7. CASE \E r \in new : r \notin Allowed
  <2>1. PICK r \in new : r \notin Allowed
    BY <1>7
  <2>2. r \in Requests /\ r \in Allowed'
    BY <1>1, <1>4, <2>1
  <2>3. CountIP(r) /\ ~IsIPLimited(r)
    <3>1. HasIPRule(r)
      BY <1>2, <1>4, <2>1 DEF SameIP, SameScope, HasIPRule
    <3> QED
      BY <1>1, <2>1, <2>2, <3>1, PassedLookAlike, AllowedStep DEF IInv
  <2>4. \A q \in Allowed' : q = r \/ q \in Allowed
    BY <2>2, <2>3, <1>1 DEF CountIP, Allowed, IInv, TypeOK, HasIPRule
  <2>5. SameIP(r, x) /\ event[r].scope = event[x].scope
    BY <1>4, <2>1 DEF SameIP, SameScope
  <2>6. W \in Nat /\ Stall \in Nat /\ W >= Stall
    BY <1>1, <1>2, IPWindowFacts DEF IInv
  <2>7. new \subseteq IPRecent(r, W)
    <3> SUFFICES ASSUME NEW q \in new PROVE q \in IPRecent(r, W)
      OBVIOUS
    <3>1. /\ q \in Allowed' /\ SameIP(q, x) /\ At(x) =< At(q)
          /\ At(r) =< At(x) + Sure(W)
      BY <1>4, <1>5, <2>1
    <3>2. q \in Requests /\ (q = r \/ q \in Allowed) /\ SameIP(q, r)
      BY <1>1, <2>4, <2>5, <3>1 DEF SameIP, SameScope
    <3>3. At(q) \in Nat /\ At(r) \in Nat /\ At(x) \in Nat
      BY <1>1, <2>2, <3>2 DEF IInv, TypeOK, At, Event
    <3>4. At(q) + Sure(W) >= At(r)
      BY <2>6, <3>1, <3>3 DEF Sure
    <3> QED
      BY <2>2, <2>3, <2>5, <3>2, <3>4, IPCountSees DEF IInv, CountIP
  <2>8. Cardinality(IPRecent(r, W)) =< limits.ip_max_events
    BY <2>3, <2>5, LimitsAreNumbers, RequestsAssumption, FS_Subset, FS_CardinalityType
    DEF IsIPLimited, IPRecent, IPLimits, IInv, TypeOK
  <2>9. Cardinality(new) =< Cardinality(IPRecent(r, W))
        /\ Cardinality(new) \in Nat /\ Cardinality(IPRecent(r, W)) \in Nat
    BY <2>7, PartIsSmaller DEF IPRecent, IInv, TypeOK
  <2>10. limits.ip_max_events \in Nat
    BY LimitsAreNumbers DEF IPLimits
  <2> QED
    BY <1>6, <2>8, <2>9, <2>10
<1>8. CASE \A r \in new : r \in Allowed
  <2> DEFINE old == IPWindow(Allowed, x, Sure(W))
  <2>1. x \in new
    <3>1. At(x) \in Nat /\ Sure(W) \in Nat
      <4>1. W \in Nat /\ Stall \in Nat /\ W >= Stall /\ At(x) \in Nat
        BY <1>1, <1>2, IPWindowFacts DEF IInv
      <4> QED
        BY <4>1 DEF Sure
    <3> QED
      BY <1>2, <1>4, <1>5, <3>1 DEF SameIP, SameScope, HasIPRule
  <2>2. x \in Allowed
    BY <1>8, <2>1
  <2>3. Cardinality(old) =< limits.ip_max_events
    BY <1>2, <2>2 DEF IInv, IPCap
  <2>4. new \subseteq old
    BY <1>4, <1>5, <1>8 DEF IPWindow
  <2>5. Cardinality(new) =< Cardinality(old) /\ Cardinality(new) \in Nat
        /\ Cardinality(old) \in Nat
    BY <1>1, <2>4, PartIsSmaller DEF IPWindow
  <2>6. limits.ip_max_events \in Nat
    BY LimitsAreNumbers DEF IPLimits
  <2> QED
    BY <1>6, <2>3, <2>5, <2>6
<1> QED
  BY <1>7, <1>8
LEMMA EmailCooldownStep == IInv /\ [Next]_vars => EmailPassedCooldown'
<1> SUFFICES ASSUME IInv, [Next]_vars,
                    NEW q \in EmailPassed', NEW r \in EmailPassed', q # r, SameEmail(q, r)'
             PROVE  LET gap == EmailLimits(event'[r].scope).email_cooldown_seconds
                    IN  At(q)' + gap =< At(r)' \/ At(r)' + gap =< At(q)'
  BY DEF EmailPassedCooldown, EmailLimits
<1>1. /\ q \in Requests /\ r \in Requests /\ phase[q] # "idle" /\ phase[r] # "idle"
  BY PassedWereStarted DEF IInv, EmailPassed
<1>2. /\ At(q)' = At(q) /\ At(r)' = At(r) /\ event'[r].scope = event[r].scope
      /\ SameEmail(q, r) /\ SameEmail(r, q) /\ event[q].scope = event[r].scope
  BY <1>1, PassedLookAlike DEF IInv, SameEmail, SameScope
<1>3. HasEmailRule(q) /\ HasEmailRule(r)
  BY <1>1, PassedLookAlike DEF IInv, EmailPassed
<1> DEFINE gap == EmailLimits(event[r].scope).email_cooldown_seconds
<1> SUFFICES At(q) + gap =< At(r) \/ At(r) + gap =< At(q)
  BY <1>2
\* Whichever of the two is counted in this step sees the other.
<1>4. ASSUME NEW x \in {q, r}, NEW y \in {q, r}, x # y, x \notin EmailPassed
      PROVE  At(y) + gap =< At(x) \/ At(x) + gap =< At(y)
  <2> DEFINE W == EmailLimits(event[x].scope).email_window_seconds
  <2>1. CountEmail(x) /\ ~IsEmailLimited(x)
    BY <1>4, EmailPassedStep DEF IInv
  <2>2. y \in EmailPassed /\ SameEmail(y, x) /\ event[x].scope = event[r].scope
        /\ x \in Requests /\ y \in Requests
    BY <1>1, <1>2, <1>3, <1>4, <2>1 DEF CountEmail, EmailPassed, IInv, TypeOK
  <2>3. /\ W \in Nat /\ gap \in Nat /\ Stall \in Nat /\ W >= Stall + gap
        /\ At(x) \in Nat /\ At(y) \in Nat
    BY <1>1, <1>2, <1>3, <2>2, EmailWindowFacts DEF IInv
  <2>4. CASE At(y) + Sure(W) < At(x)
    BY <2>3, <2>4 DEF Sure
  <2>5. CASE At(y) + Sure(W) >= At(x)
    <3>1. y \in EmailRecent(x, W)
      BY <2>1, <2>2, <2>5, EmailCountSees DEF IInv, CountEmail
    <3>2. ~(At(x) < At(y) + gap)
      BY <1>4, <2>1, <2>2, <3>1 DEF IsEmailLimited, RecentWithin
    <3> QED
      BY <2>3, <3>2
  <2>6. Sure(W) \in Nat
    BY <2>3 DEF Sure
  <2> QED
    BY <2>3, <2>4, <2>5, <2>6
<1>5. CASE q \in EmailPassed /\ r \in EmailPassed
  BY <1>2, <1>5 DEF IInv, EmailPassedCooldown
<1>6. CASE q \notin EmailPassed
  BY <1>4, <1>6
<1>7. CASE r \notin EmailPassed
  BY <1>4, <1>7
<1> QED
  BY <1>5, <1>6, <1>7

-----------------------------------------------------------------------------
(* The theorems.                                                           *)

LEMMA IInvInit == Init => IInv
<1> SUFFICES ASSUME Init PROVE IInv
  OBVIOUS
<1>1. TypeOK
  BY TypeInit
<1>2. EmailPassed = {} /\ Allowed = {}
  BY DEF Init, EmailPassed, Allowed
<1> QED
  BY <1>1, <1>2 DEF Init, IInv, CallShape, StillCounted, UndecidedFresh, Undecided,
                    EmailPassedCap, EmailPassedCooldown, IPCap

LEMMA IInvStep == IInv /\ [Next]_vars => IInv'
<1> SUFFICES ASSUME IInv, [Next]_vars PROVE IInv'
  OBVIOUS
<1> QED
  BY TypeStep, ShapeStep, StillStep, FreshStep, EmailCapStep, EmailCooldownStep, IPCapStep
  DEF IInv

LEMMA IInvHolds == Spec => []IInv
BY IInvInit, IInvStep, PTL DEF Spec

\* An allowed request has passed the rule of its email.
LEMMA EmailCapFollows == IInv => EmailCap
<1> SUFFICES ASSUME IInv, NEW r \in Allowed, HasEmailRule(r)
             PROVE  LET limits == EmailLimits(event[r].scope)
                    IN  Cardinality(EmailWindow(Allowed, r, Sure(limits.email_window_seconds)))
                            =< limits.email_max_events
  BY DEF EmailCap
<1> DEFINE limits == EmailLimits(event[r].scope)
           passed == EmailWindow(EmailPassed, r, Sure(limits.email_window_seconds))
           allowed == EmailWindow(Allowed, r, Sure(limits.email_window_seconds))
<1>1. r \in EmailPassed
  BY DEF EmailPassed, Allowed
<1>2. Cardinality(passed) =< limits.email_max_events
  BY <1>1 DEF IInv, EmailPassedCap
<1>3. allowed \subseteq passed /\ passed \subseteq Requests
  BY DEF EmailWindow, EmailPassed, Allowed, SameEmail, SameScope, HasEmailRule
<1>4. Cardinality(allowed) =< Cardinality(passed) /\ Cardinality(allowed) \in Nat
      /\ Cardinality(passed) \in Nat
  BY <1>3, PartIsSmaller
<1>5. limits.email_max_events \in Nat
  BY LimitsAreNumbers DEF EmailLimits
<1> QED
  BY <1>2, <1>4, <1>5

(***************************************************************************)
(* However requests interleave, stall, die or are cleaned up, any window   *)
(* of Sure(email_window_seconds) holds at most email_max_events allowed    *)
(* requests of an email (_is_email_limited).                               *)
(***************************************************************************)
THEOREM EmailCapHolds == Spec => []EmailCap
BY EmailCapFollows, IInvHolds, PTL

LEMMA EmailCooldownFollows == IInv => EmailCooldown
BY DEF IInv, EmailCooldown, EmailPassedCooldown, EmailPassed, Allowed, HasEmailRule,
       SameEmail, SameScope

(***************************************************************************)
(* Two allowed requests of an email are at least the cooldown apart.       *)
(***************************************************************************)
THEOREM EmailCooldownHolds == Spec => []EmailCooldown
BY EmailCooldownFollows, IInvHolds, PTL

(***************************************************************************)
(* The same cap for the requests of one address (_is_ip_limited).          *)
(***************************************************************************)
THEOREM IPCapHolds == Spec => []IPCap
<1>1. IInv => IPCap
  BY DEF IInv
<1> QED
  BY <1>1, IInvHolds, PTL

(***************************************************************************)
(* The row of an allowed request stays in the table until the longest      *)
(* window of its scope has passed (_refuse and delete_expired spare it).   *)
(***************************************************************************)
THEOREM AllowedStayCountedHolds == Spec => []AllowedStayCounted
<1>1. IInv => AllowedStayCounted
  BY DEF IInv, StillCounted, AllowedStayCounted, Allowed
<1> QED
  BY <1>1, IInvHolds, PTL

-----------------------------------------------------------------------------
(* Waiting works.                                                          *)

\* The two reasons of RefusalJustified.
EmailReason(r) ==
    /\ HasEmailRule(r)
    /\ LET limits == EmailLimits(event[r].scope)
           others == Others(r, SameEmail, limits.email_window_seconds)
       IN  \/ Cardinality(others) >= limits.email_max_events
           \/ RecentWithin(others, r, limits.email_cooldown_seconds)
IPReason(r) ==
    /\ HasIPRule(r)
    /\ LET limits == IPLimits(event[r].scope)
       IN  Cardinality(Others(r, SameIP, limits.ip_window_seconds)) >= limits.ip_max_events

\* A row in the table belongs to a request that is past its INSERT.
StoredInserted == stored \subseteq Inserted

LEMMA StoredStep == TypeOK /\ StoredInserted /\ [Next]_vars => StoredInserted'
<1> SUFFICES ASSUME TypeOK, StoredInserted, [Next]_vars PROVE StoredInserted'
  OBVIOUS
<1> USE DEF StoredInserted, Inserted, TypeOK
<1>1. ASSUME NEW r \in Requests, Create(r) PROVE StoredInserted'
  BY <1>1 DEF Create, BuildRow
<1>2. ASSUME NEW r \in Requests, Insert(r) \/ CountEmail(r) \/ CountIP(r) PROVE StoredInserted'
  BY <1>2 DEF Insert, InsertRow, CountEmail, CountIP
<1>3. ASSUME NEW r \in Requests, Refuse(r) \/ Crash(r) PROVE StoredInserted'
  BY <1>3 DEF Refuse, DeleteRefused, Crash
<1>4. CASE DeleteExpired \/ PassTime \/ UNCHANGED vars
  BY <1>4 DEF DeleteExpired, PassTime, Tick, vars
<1> QED
  BY <1>1, <1>2, <1>3, <1>4 DEF Next

\* No request goes back before its INSERT.
LEMMA InsertedStays == TypeOK /\ [Next]_vars => Inserted \subseteq Inserted'
BY DEF Next, vars, Create, BuildRow, Insert, InsertRow, CountEmail, CountIP, Refuse,
       DeleteRefused, Crash, DeleteExpired, PassTime, Tick, TypeOK, Inserted

\* Whatever others a window held, it keeps.
LEMMA OthersStay ==
    ASSUME TypeOK, [Next]_vars, NEW r \in Inserted, NEW w
    PROVE  /\ Others(r, SameEmail, w) \subseteq Others(r, SameEmail, w)'
           /\ Others(r, SameIP, w) \subseteq Others(r, SameIP, w)'
<1>1. \A q \in Inserted : q \in Inserted' /\ event'[q] = event[q]
  BY InsertedStays, StartedKeepRows DEF Inserted
<1> QED
  BY <1>1 DEF Others, SameEmail, SameIP, SameScope, Within, At

LEMMA EmailReasonStays ==
    ASSUME TypeOK, [Next]_vars, NEW r \in Inserted, EmailReason(r) PROVE EmailReason(r)'
<1>1. event'[r] = event[r] /\ r \in Requests
  BY StartedKeepRows DEF Inserted
<1>2. PICK limits : limits = EmailLimits(event[r].scope)
  OBVIOUS
<1>3. EmailLimits(event[r].scope)' = limits
  BY <1>1, <1>2 DEF EmailLimits
<1> DEFINE others == Others(r, SameEmail, limits.email_window_seconds)
<1>4. others \subseteq others' /\ others' \subseteq Requests
  BY OthersStay DEF Others, Inserted
<1>5. Cardinality(others) =< Cardinality(others') /\ Cardinality(others) \in Nat
      /\ Cardinality(others') \in Nat
  BY <1>4, PartIsSmaller
<1>6. limits.email_max_events \in Nat /\ HasEmailRule(r)
  BY <1>2, LimitsAreNumbers DEF EmailLimits, EmailReason
<1>7. HasEmailRule(r)'
  BY <1>1, <1>6 DEF HasEmailRule
<1>8. \/ Cardinality(others) >= limits.email_max_events
      \/ RecentWithin(others, r, limits.email_cooldown_seconds)
  BY <1>2 DEF EmailReason
<1>9. \A q \in others : At(q)' = At(q) /\ At(r)' = At(r)
  BY <1>1, StartedKeepRows DEF Others, Inserted, At
<1>10. RecentWithin(others, r, limits.email_cooldown_seconds)
         => RecentWithin(others, r, limits.email_cooldown_seconds)'
  BY <1>4, <1>9 DEF RecentWithin
<1>11. \/ Cardinality(others') >= limits.email_max_events
       \/ RecentWithin(others, r, limits.email_cooldown_seconds)'
  BY <1>5, <1>6, <1>8, <1>10
<1> QED
  BY <1>3, <1>7, <1>11 DEF EmailReason

LEMMA IPReasonStays ==
    ASSUME TypeOK, [Next]_vars, NEW r \in Inserted, IPReason(r) PROVE IPReason(r)'
<1>1. event'[r] = event[r] /\ r \in Requests
  BY StartedKeepRows DEF Inserted
<1>2. PICK limits : limits = IPLimits(event[r].scope)
  OBVIOUS
<1>3. IPLimits(event[r].scope)' = limits
  BY <1>1, <1>2 DEF IPLimits
<1> DEFINE others == Others(r, SameIP, limits.ip_window_seconds)
<1>4. others \subseteq others' /\ others' \subseteq Requests
  BY OthersStay DEF Others, Inserted
<1>5. Cardinality(others) =< Cardinality(others') /\ Cardinality(others) \in Nat
      /\ Cardinality(others') \in Nat
  BY <1>4, PartIsSmaller
<1>6. limits.ip_max_events \in Nat /\ HasIPRule(r)
  BY <1>2, LimitsAreNumbers DEF IPLimits, IPReason
<1>7. HasIPRule(r)' /\ Cardinality(others) >= limits.ip_max_events
  BY <1>1, <1>2, <1>6 DEF HasIPRule, IPReason
<1>8. Cardinality(others') >= limits.ip_max_events
  BY <1>5, <1>6, <1>7
<1> QED
  BY <1>3, <1>7, <1>8 DEF IPReason

\* A count above a limit is one of as many others: the own row is one of it.
LEMMA OthersOfCount ==
    ASSUME NEW rows \in SUBSET Requests, NEW r \in Requests, NEW max \in Nat,
           NEW others \in SUBSET Requests, rows \ {r} \subseteq others,
           Cardinality(rows) > max
    PROVE  Cardinality(others) >= max
<1>1. IsFiniteSet(rows) /\ Cardinality(rows) \in Nat /\ Cardinality(rows \ {r}) \in Nat
      /\ Cardinality(rows \ {r}) =< Cardinality(others) /\ Cardinality(others) \in Nat
  BY PartIsSmaller, RequestsAssumption, FS_Subset
<1>2. Cardinality(rows \ {r}) = IF r \in rows THEN Cardinality(rows) - 1 ELSE Cardinality(rows)
  BY <1>1, FS_RemoveElement
<1> QED
  BY <1>1, <1>2

\* The email rule refuses with reason.
LEMMA EmailRefusesJustly ==
    ASSUME TypeOK, CallShape, StoredInserted, NEW r \in Requests, phase[r] = "counting",
           IsEmailLimited(r)
    PROVE  EmailReason(r)
<1>1. HasEmailRule(r)
  BY DEF CallShape
<1>2. PICK limits : limits = EmailLimits(event[r].scope)
  OBVIOUS
<1>3. limits.email_max_events \in Nat
  BY <1>2, LimitsAreNumbers DEF EmailLimits
<1> DEFINE recent == EmailRecent(r, limits.email_window_seconds)
           others == Others(r, SameEmail, limits.email_window_seconds)
<1>4. recent \ {r} \subseteq others /\ recent \subseteq Requests /\ others \subseteq Requests
      /\ r \notin others
  BY DEF EmailRecent, Others, StoredInserted, Inserted, TypeOK
<1>5. \/ Cardinality(recent) > limits.email_max_events
      \/ RecentWithin(recent, r, limits.email_cooldown_seconds)
  BY <1>2 DEF IsEmailLimited
<1>6. RecentWithin(recent, r, limits.email_cooldown_seconds)
        => RecentWithin(others, r, limits.email_cooldown_seconds)
  BY <1>4 DEF RecentWithin
<1> HIDE DEF recent, others
<1>7. Cardinality(recent) > limits.email_max_events
        => Cardinality(others) >= limits.email_max_events
  BY <1>3, <1>4, OthersOfCount
<1> QED
  BY <1>1, <1>2, <1>5, <1>6, <1>7 DEF EmailReason, others

\* So does the rule of the IP.
LEMMA IPRefusesJustly ==
    ASSUME TypeOK, CallShape, StoredInserted, NEW r \in Requests, phase[r] = "countingIP",
           IsIPLimited(r)
    PROVE  IPReason(r)
<1>1. HasIPRule(r)
  BY DEF CallShape
<1>2. PICK limits : limits = IPLimits(event[r].scope)
  OBVIOUS
<1>3. limits.ip_max_events \in Nat
  BY <1>2, LimitsAreNumbers DEF IPLimits
<1> DEFINE recent == IPRecent(r, limits.ip_window_seconds)
           others == Others(r, SameIP, limits.ip_window_seconds)
<1>4. recent \ {r} \subseteq others /\ recent \subseteq Requests /\ others \subseteq Requests
  BY DEF IPRecent, Others, StoredInserted, Inserted, TypeOK
<1>5. Cardinality(recent) > limits.ip_max_events
  BY <1>2 DEF IsIPLimited
<1> HIDE DEF recent, others
<1>6. Cardinality(others) >= limits.ip_max_events
  BY <1>3, <1>4, <1>5, OthersOfCount
<1> QED
  BY <1>1, <1>2, <1>6 DEF IPReason, others

LEMMA JustifiedStep ==
    TypeOK /\ CallShape /\ StoredInserted /\ RefusalJustified /\ [Next]_vars => RefusalJustified'
<1> SUFFICES ASSUME TypeOK, CallShape, StoredInserted, RefusalJustified, [Next]_vars,
                    NEW r \in Requests, phase'[r] \in {"refusing", "refused"}
             PROVE  EmailReason(r)' \/ IPReason(r)'
  BY DEF RefusalJustified, EmailReason, IPReason
<1>1. phase[r] \in {"refusing", "refused"} \/ CountEmail(r) \/ CountIP(r)
  BY DEF Next, vars, Create, BuildRow, Insert, InsertRow, CountEmail, CountIP, Refuse,
         DeleteRefused, Crash, DeleteExpired, PassTime, Tick, TypeOK
<1>2. EmailReason(r) \/ IPReason(r)
  <2>1. CASE phase[r] \in {"refusing", "refused"}
    BY <2>1 DEF RefusalJustified, EmailReason, IPReason
  <2>2. CASE CountEmail(r)
    <3>1. phase[r] = "counting" /\ IsEmailLimited(r)
      BY <2>2 DEF CountEmail, TypeOK
    <3> QED
      BY <3>1, EmailRefusesJustly
  <2>3. CASE CountIP(r)
    <3>1. phase[r] = "countingIP" /\ IsIPLimited(r)
      BY <2>3 DEF CountIP, TypeOK
    <3> QED
      BY <3>1, IPRefusesJustly
  <2> QED
    BY <1>1, <2>1, <2>2, <2>3
<1>3. r \in Inserted
  BY <1>1 DEF Inserted, CountEmail, CountIP
<1> QED
  BY <1>2, <1>3, EmailReasonStays, IPReasonStays

(***************************************************************************)
(* "Waiting works" for every limit and any number of requests: none is     *)
(* refused (IsEmailLimited, IsIPLimited) but for others' rows.             *)
(***************************************************************************)
THEOREM RefusalJustifiedHolds == Spec => []RefusalJustified
<1>1. Init => StoredInserted /\ RefusalJustified
  BY DEF Init, StoredInserted, RefusalJustified
<1>2. IInv => TypeOK /\ CallShape
  BY DEF IInv
<1> QED
  BY <1>1, <1>2, StoredStep, JustifiedStep, IInvHolds, PTL DEF Spec

-----------------------------------------------------------------------------
(* Each of the four rules implements SlidingWindow, for any limits and any
   number of requests.  A grant is an allowed request of the rule's scope; the
   last count of one request grants it, every other step stutters. *)

Rule(scope, column, keys, max_events, window, cooldown) ==
    [scope |-> scope, column |-> column, keys |-> keys,
     max_events |-> max_events, window |-> window, cooldown |-> cooldown]

ResetEmailRule ==
    Rule("password_reset", "email", Emails, Limits.password_reset.email_max_events,
         Sure(Limits.password_reset.email_window_seconds),
         Limits.password_reset.email_cooldown_seconds)
ResetIPRule ==
    Rule("password_reset", "ip", IPs, Limits.password_reset.ip_max_events,
         Sure(Limits.password_reset.ip_window_seconds), 0)
SignupRule ==
    Rule("signup", "ip", IPs, Limits.signup.ip_max_events,
         Sure(Limits.signup.ip_window_seconds), 0)
LinkRule ==
    Rule("verification_email", "email", Emails, Limits.verification_email.email_max_events,
         Sure(Limits.verification_email.email_window_seconds),
         Limits.verification_email.email_cooldown_seconds)

Rules == {ResetEmailRule, ResetIPRule, SignupRule, LinkRule}

GrantedBy(rule) == Granted(rule.scope, rule.column)
GrantsBy(rule) == GrantsOf(rule.scope, rule.column)
GrantOf(rule, r) == [id |-> r, key |-> event[r][rule.column], at |-> At(r)]

Limit(rule) == INSTANCE SlidingWindow WITH
    Ids <- Requests, Keys <- rule.keys, Times <- 0 .. MaxTime,
    MaxEvents <- rule.max_events, Window <- rule.window, Cooldown <- rule.cooldown,
    granted <- GrantsBy(rule)

LEMMA SameCount == ASSUME NEW rule, NEW S PROVE Limit(rule)!Cardinality(S) = Cardinality(S)
BY DEF Limit!Cardinality, Cardinality

\* What is allowed stays so, with its row.
LEMMA AllowedStay ==
    ASSUME IInv, [Next]_vars, NEW q \in Allowed
    PROVE  q \in Allowed' /\ event'[q] = event[q]
<1>1. TypeOK /\ q \in Requests /\ phase[q] = "allowed"
  BY DEF IInv, Allowed
<1>2. phase'[q] = "allowed"
  BY <1>1 DEF Next, vars, Create, BuildRow, Insert, InsertRow, CountEmail, CountIP, Refuse,
              DeleteRefused, Crash, DeleteExpired, PassTime, Tick, TypeOK
<1> QED
  BY <1>1, <1>2, StartedKeepRows DEF Allowed

\* A step allows one request at most: the one that counts.
LEMMA OneMoreAllowed ==
    ASSUME IInv, [Next]_vars, NEW r \in Allowed', r \notin Allowed
    PROVE  Allowed' = Allowed \union {r} /\ event' = event
<1>1. TypeOK
  BY DEF IInv
<1>2. CountEmail(r) \/ CountIP(r)
  BY <1>1 DEF Next, vars, Create, BuildRow, Insert, InsertRow, CountEmail, CountIP, Refuse,
              DeleteRefused, Crash, DeleteExpired, PassTime, Tick, TypeOK, Allowed
<1> QED
  BY <1>1, <1>2 DEF CountEmail, CountIP, TypeOK, Allowed

\* What a grant's row and a rule's numbers are.
LEMMA GrantTyped ==
    ASSUME IInv, NEW rule \in Rules, NEW r \in GrantedBy(rule)
    PROVE  /\ r \in Requests /\ r \in Allowed /\ At(r) \in 0 .. MaxTime /\ At(r) \in Nat
           /\ event[r].scope = rule.scope
           /\ GrantOf(rule, r) \in Limit(rule)!Grants
           /\ rule.max_events \in Nat /\ rule.cooldown \in Nat
           /\ \/ /\ rule.column = "email" /\ HasEmailRule(r)
                 /\ EmailLimits(event[r].scope).email_max_events = rule.max_events
                 /\ Sure(EmailLimits(event[r].scope).email_window_seconds) = rule.window
                 /\ EmailLimits(event[r].scope).email_cooldown_seconds = rule.cooldown
              \/ /\ rule.column = "ip" /\ HasIPRule(r) /\ rule.cooldown = 0
                 /\ IPLimits(event[r].scope).ip_max_events = rule.max_events
                 /\ Sure(IPLimits(event[r].scope).ip_window_seconds) = rule.window
<1>1. /\ r \in Requests /\ r \in Allowed /\ event[r] \in Event /\ At(r) \in 0 .. MaxTime
      /\ event[r].scope = rule.scope /\ event[r][rule.column] \notin {NoEmail, NoIP}
  BY ClockAssumption DEF IInv, TypeOK, GrantedBy, Granted, Allowed, At, Event
<1>2. At(r) \in Nat
  BY <1>1, ClockAssumption
<1>3. /\ event[r]["email"] = event[r].email /\ event[r]["ip"] = event[r].ip
      /\ event[r].email \in Emails \union {NoEmail} /\ event[r].ip \in IPs \union {NoIP}
  BY <1>1 DEF Event
<1>4. CASE rule = ResetEmailRule
  BY <1>1, <1>2, <1>3, <1>4, LimitsAreNumbers
  DEF ResetEmailRule, Rule, HasEmailRule, EmailLimits, GrantOf, Limit!Grants
<1>5. CASE rule = ResetIPRule
  BY <1>1, <1>2, <1>3, <1>5, LimitsAreNumbers
  DEF ResetIPRule, Rule, HasIPRule, IPLimits, GrantOf, Limit!Grants
<1>6. CASE rule = SignupRule
  BY <1>1, <1>2, <1>3, <1>6, LimitsAreNumbers
  DEF SignupRule, Rule, HasIPRule, IPLimits, GrantOf, Limit!Grants
<1>7. CASE rule = LinkRule
  BY <1>1, <1>2, <1>3, <1>7, LimitsAreNumbers
  DEF LinkRule, Rule, HasEmailRule, EmailLimits, GrantOf, Limit!Grants
<1> QED
  BY <1>4, <1>5, <1>6, <1>7 DEF Rules

\* Requests under one key are what their rule counts.
LEMMA SameKey ==
    ASSUME IInv, NEW rule \in Rules, NEW q \in GrantedBy(rule), NEW r \in GrantedBy(rule),
           event[q][rule.column] = event[r][rule.column]
    PROVE  IF rule.column = "email" THEN SameEmail(q, r) ELSE SameIP(q, r)
<1>1. rule.column \in {"email", "ip"} /\ event[q].scope = event[r].scope
  BY GrantTyped
<1>2. event[r] \in Event /\ event[q] \in Event /\ event[r][rule.column] \notin {NoEmail, NoIP}
  BY GrantTyped DEF IInv, TypeOK, GrantedBy, Granted
<1> QED
  BY <1>1, <1>2 DEF SameEmail, SameIP, SameScope, Event

\* Every window of grants is one of allowed requests.
LEMMA GrantsCapped ==
    ASSUME IInv, NEW rule \in Rules PROVE Limit(rule)!Capped(GrantsBy(rule))
<1> SUFFICES ASSUME NEW r \in GrantedBy(rule)
             PROVE  Cardinality(Limit(rule)!InWindow(GrantsBy(rule), GrantOf(rule, r)))
                        =< rule.max_events
  BY SameCount DEF Limit!Capped, GrantsBy, GrantsOf, GrantedBy, GrantOf
<1> DEFINE window == Limit(rule)!InWindow(GrantsBy(rule), GrantOf(rule, r))
           requests == IF rule.column = "email" THEN EmailWindow(Allowed, r, rule.window)
                       ELSE IPWindow(Allowed, r, rule.window)
<1>1. Cardinality(requests) =< rule.max_events
  BY GrantTyped, EmailCapFollows DEF EmailCap, IPCap, IInv
<1>2. ASSUME NEW h \in window
      PROVE  \E q \in requests : h = GrantOf(rule, q)
  <2>1. PICK q \in GrantedBy(rule) : h = GrantOf(rule, q)
    BY <1>2 DEF Limit!InWindow, GrantsBy, GrantsOf, GrantedBy, GrantOf
  <2>2. /\ event[q][rule.column] = event[r][rule.column]
        /\ At(r) =< At(q) /\ At(q) =< At(r) + rule.window
    BY <1>2, <2>1 DEF Limit!InWindow, GrantOf
  <2>3. q \in requests
    BY <2>2, SameKey, GrantTyped DEF EmailWindow, IPWindow
  <2> QED
    BY <2>1, <2>3
<1>3. requests \in SUBSET Requests
  BY DEF EmailWindow, IPWindow, Allowed
<1> HIDE DEF window, requests
<1>4. /\ Cardinality(window) =< Cardinality(requests)
      /\ Cardinality(window) \in Nat /\ Cardinality(requests) \in Nat
  <2> DEFINE id == [h \in window |-> h.id]
  <2>1. \A h \in window : h.id \in requests /\ h = GrantOf(rule, h.id)
    BY <1>2 DEF GrantOf
  <2>2. id \in Injection(window, requests)
    BY <2>1 DEF Injection, IsInjective
  <2>3. IsFiniteSet(requests)
    BY <1>3, RequestsAssumption, FS_Subset
  <2> QED
    BY <2>2, <2>3, FS_Injection, FS_CardinalityType
<1> QED
  BY <1>1, <1>4, GrantTyped DEF window

\* Two grants of a key are as far apart as their requests.
LEMMA GrantsSpaced ==
    ASSUME IInv, NEW rule \in Rules PROVE Limit(rule)!Spaced(GrantsBy(rule))
<1> SUFFICES ASSUME NEW q \in GrantedBy(rule), NEW r \in GrantedBy(rule),
                    event[q][rule.column] = event[r][rule.column], q # r
             PROVE  At(q) + rule.cooldown =< At(r) \/ At(r) + rule.cooldown =< At(q)
  BY DEF Limit!Spaced, GrantsBy, GrantsOf, GrantedBy, GrantOf
<1>1. CASE rule.column = "email"
  BY <1>1, SameKey, GrantTyped, EmailCooldownFollows DEF EmailCooldown
<1>2. CASE rule.column # "email"
  BY <1>2, GrantTyped
<1> QED
  BY <1>1, <1>2

\* Both, of all rules, as a state predicate.
LimitsKept ==
    \A rule \in Rules :
        /\ GrantsBy(rule) \subseteq Limit(rule)!Grants
        /\ Limit(rule)!Capped(GrantsBy(rule))
        /\ Limit(rule)!Spaced(GrantsBy(rule))

LEMMA LimitsKeptHolds == IInv => LimitsKept
<1>1. ASSUME IInv, NEW rule \in Rules PROVE GrantsBy(rule) \subseteq Limit(rule)!Grants
  BY <1>1, GrantTyped DEF GrantsBy, GrantsOf, GrantedBy, GrantOf
<1> QED
  BY <1>1, GrantsCapped, GrantsSpaced DEF LimitsKept

\* A step grants the request that it allows, if that is of the rule's scope.
LEMMA GrantStep ==
    ASSUME IInv, LimitsKept', [Next]_vars, NEW rule \in Rules
    PROVE  [\E g \in Limit(rule)!Grants : Limit(rule)!Grant(g)]_(GrantsBy(rule))
<1> DEFINE granted == GrantsBy(rule)
<1>1. /\ granted = {GrantOf(rule, r) : r \in GrantedBy(rule)}
      /\ granted' = {GrantOf(rule, r)' : r \in GrantedBy(rule)'}
  BY DEF GrantsBy, GrantsOf, GrantedBy, GrantOf
<1>2. \A r \in GrantedBy(rule) : r \in GrantedBy(rule)' /\ GrantOf(rule, r)' = GrantOf(rule, r)
  BY AllowedStay DEF GrantedBy, Granted, GrantOf, At
<1>3. CASE GrantedBy(rule)' \subseteq GrantedBy(rule)
  <2>1. granted' = granted
    BY <1>1, <1>2, <1>3
  <2> QED
    BY <2>1
<1>4. ASSUME NEW r \in GrantedBy(rule)', r \notin GrantedBy(rule)
      PROVE  \E g \in Limit(rule)!Grants : Limit(rule)!Grant(g)
  <2>1. r \in Allowed' /\ r \notin Allowed
    BY <1>4, AllowedStay DEF GrantedBy, Granted
  <2>2. Allowed' = Allowed \union {r} /\ event' = event
    BY <2>1, OneMoreAllowed
  <2>3. GrantedBy(rule)' = GrantedBy(rule) \union {r} /\ GrantOf(rule, r)' = GrantOf(rule, r)
    BY <1>4, <2>2 DEF GrantedBy, Granted, GrantOf, At
  <2>4. granted' = granted \union {GrantOf(rule, r)}
    BY <1>1, <1>2, <2>3
  <2>5. GrantOf(rule, r) \in Limit(rule)!Grants
    BY <2>4 DEF LimitsKept, Limit!Grants
  <2>6. \A h \in granted : h.id # GrantOf(rule, r).id
    BY <1>1, <1>4 DEF GrantOf
  <2>7. Limit(rule)!Capped(granted') /\ Limit(rule)!Spaced(granted')
    BY DEF LimitsKept, Limit!Capped, Limit!Spaced, Limit!InWindow
  <2> QED
    BY <2>4, <2>5, <2>6, <2>7 DEF Limit!Grant
<1> QED
  BY <1>3, <1>4

\* README.md "Throttling": every rule of a page that sends mail, of any scope
\* and key, grants requests as the abstract limit does, whatever the requests of
\* the other scopes and the cleanup do in between.
THEOREM RulesImplemented ==
    ASSUME NEW rule \in Rules PROVE Spec => Limit(rule)!StrictSpec
<1>1. Init => Limit(rule)!Init
  BY DEF Init, GrantsBy, GrantsOf, Granted, Allowed, Limit!Init
<1>2. IInv /\ LimitsKept' /\ [Next]_vars
        => [\E g \in Limit(rule)!Grants : Limit(rule)!Grant(g)]_(GrantsBy(rule))
  BY GrantStep
<1> QED
  BY <1>1, <1>2, LimitsKeptHolds, IInvHolds, PTL DEF Spec, Limit!StrictSpec

\* The rules by name.

LEMMA ResetsByEmailImplemented == Spec => ResetsByEmail!StrictSpec
<1>. DEFINE rule == ResetEmailRule
<1>1. /\ rule \in Rules /\ rule.keys = Emails
      /\ rule.max_events = Limits.password_reset.email_max_events
      /\ rule.window = Sure(Limits.password_reset.email_window_seconds)
      /\ rule.cooldown = Limits.password_reset.email_cooldown_seconds
  BY DEF Rules, ResetEmailRule, Rule
<1>2. /\ GrantsBy(rule) = GrantsOf("password_reset", "email")
      /\ GrantsBy(rule)' = GrantsOf("password_reset", "email")'
  BY DEF ResetEmailRule, Rule, GrantsBy
<1>. HIDE DEF rule
<1>3. /\ \A S, g : Limit(rule)!InWindow(S, g) = ResetsByEmail!InWindow(S, g)
      /\ \A S : Limit(rule)!Cardinality(S) = ResetsByEmail!Cardinality(S)
  BY <1>1 DEF Limit!InWindow, Limit!Cardinality, ResetsByEmail!InWindow, ResetsByEmail!Cardinality
<1>4. \A S : /\ Limit(rule)!Capped(S) => ResetsByEmail!Capped(S)
             /\ Limit(rule)!Spaced(S) => ResetsByEmail!Spaced(S)
  BY <1>1, <1>3 DEF Limit!Capped, Limit!Spaced, ResetsByEmail!Capped, ResetsByEmail!Spaced
<1>5. Limit(rule)!Init => ResetsByEmail!Init
  BY <1>2 DEF Limit!Init, ResetsByEmail!Init
<1>6. [\E g \in Limit(rule)!Grants : Limit(rule)!Grant(g)]_(GrantsBy(rule))
        => [\E g \in ResetsByEmail!Grants : ResetsByEmail!Grant(g)]_(GrantsOf("password_reset", "email"))
  BY <1>1, <1>2, <1>4 DEF Limit!Grants, Limit!Grant, ResetsByEmail!Grants, ResetsByEmail!Grant
<1>7. Spec => Limit(rule)!StrictSpec
  BY <1>1, RulesImplemented
<1> QED
  BY <1>5, <1>6, <1>7, PTL DEF Limit!StrictSpec, ResetsByEmail!StrictSpec

LEMMA ResetsByIPImplemented == Spec => ResetsByIP!StrictSpec
<1>. DEFINE rule == ResetIPRule
<1>1. /\ rule \in Rules /\ rule.keys = IPs
      /\ rule.max_events = Limits.password_reset.ip_max_events
      /\ rule.window = Sure(Limits.password_reset.ip_window_seconds)
      /\ rule.cooldown = 0
  BY DEF Rules, ResetIPRule, Rule
<1>2. /\ GrantsBy(rule) = GrantsOf("password_reset", "ip")
      /\ GrantsBy(rule)' = GrantsOf("password_reset", "ip")'
  BY DEF ResetIPRule, Rule, GrantsBy
<1>. HIDE DEF rule
<1>3. /\ \A S, g : Limit(rule)!InWindow(S, g) = ResetsByIP!InWindow(S, g)
      /\ \A S : Limit(rule)!Cardinality(S) = ResetsByIP!Cardinality(S)
  BY <1>1 DEF Limit!InWindow, Limit!Cardinality, ResetsByIP!InWindow, ResetsByIP!Cardinality
<1>4. \A S : /\ Limit(rule)!Capped(S) => ResetsByIP!Capped(S)
             /\ Limit(rule)!Spaced(S) => ResetsByIP!Spaced(S)
  BY <1>1, <1>3 DEF Limit!Capped, Limit!Spaced, ResetsByIP!Capped, ResetsByIP!Spaced
<1>5. Limit(rule)!Init => ResetsByIP!Init
  BY <1>2 DEF Limit!Init, ResetsByIP!Init
<1>6. [\E g \in Limit(rule)!Grants : Limit(rule)!Grant(g)]_(GrantsBy(rule))
        => [\E g \in ResetsByIP!Grants : ResetsByIP!Grant(g)]_(GrantsOf("password_reset", "ip"))
  BY <1>1, <1>2, <1>4 DEF Limit!Grants, Limit!Grant, ResetsByIP!Grants, ResetsByIP!Grant
<1>7. Spec => Limit(rule)!StrictSpec
  BY <1>1, RulesImplemented
<1> QED
  BY <1>5, <1>6, <1>7, PTL DEF Limit!StrictSpec, ResetsByIP!StrictSpec

\* The limits of reset mails per email and per IP (record_password_reset,
\* _is_email_limited, _is_ip_limited), which one cleanup serves.
THEOREM ResetLimitImplemented == Spec => ResetLimitHolds
BY ResetsByEmailImplemented, ResetsByIPImplemented DEF ResetLimitHolds

LEMMA SignupsByIPImplemented == Spec => SignupsByIP!StrictSpec
<1>. DEFINE rule == SignupRule
<1>1. /\ rule \in Rules /\ rule.keys = IPs
      /\ rule.max_events = Limits.signup.ip_max_events
      /\ rule.window = Sure(Limits.signup.ip_window_seconds)
      /\ rule.cooldown = 0
  BY DEF Rules, SignupRule, Rule
<1>2. /\ GrantsBy(rule) = GrantsOf("signup", "ip")
      /\ GrantsBy(rule)' = GrantsOf("signup", "ip")'
  BY DEF SignupRule, Rule, GrantsBy
<1>. HIDE DEF rule
<1>3. /\ \A S, g : Limit(rule)!InWindow(S, g) = SignupsByIP!InWindow(S, g)
      /\ \A S : Limit(rule)!Cardinality(S) = SignupsByIP!Cardinality(S)
  BY <1>1 DEF Limit!InWindow, Limit!Cardinality, SignupsByIP!InWindow, SignupsByIP!Cardinality
<1>4. \A S : /\ Limit(rule)!Capped(S) => SignupsByIP!Capped(S)
             /\ Limit(rule)!Spaced(S) => SignupsByIP!Spaced(S)
  BY <1>1, <1>3 DEF Limit!Capped, Limit!Spaced, SignupsByIP!Capped, SignupsByIP!Spaced
<1>5. Limit(rule)!Init => SignupsByIP!Init
  BY <1>2 DEF Limit!Init, SignupsByIP!Init
<1>6. [\E g \in Limit(rule)!Grants : Limit(rule)!Grant(g)]_(GrantsBy(rule))
        => [\E g \in SignupsByIP!Grants : SignupsByIP!Grant(g)]_(GrantsOf("signup", "ip"))
  BY <1>1, <1>2, <1>4 DEF Limit!Grants, Limit!Grant, SignupsByIP!Grants, SignupsByIP!Grant
<1>7. Spec => Limit(rule)!StrictSpec
  BY <1>1, RulesImplemented
<1> QED
  BY <1>5, <1>6, <1>7, PTL DEF Limit!StrictSpec, SignupsByIP!StrictSpec

\* The limit of signups per IP (record_signup).
THEOREM SignupLimitImplemented == Spec => SignupLimitHolds
BY SignupsByIPImplemented DEF SignupLimitHolds

LEMMA LinksByEmailImplemented == Spec => LinksByEmail!StrictSpec
<1>. DEFINE rule == LinkRule
<1>1. /\ rule \in Rules /\ rule.keys = Emails
      /\ rule.max_events = Limits.verification_email.email_max_events
      /\ rule.window = Sure(Limits.verification_email.email_window_seconds)
      /\ rule.cooldown = Limits.verification_email.email_cooldown_seconds
  BY DEF Rules, LinkRule, Rule
<1>2. /\ GrantsBy(rule) = GrantsOf("verification_email", "email")
      /\ GrantsBy(rule)' = GrantsOf("verification_email", "email")'
  BY DEF LinkRule, Rule, GrantsBy
<1>. HIDE DEF rule
<1>3. /\ \A S, g : Limit(rule)!InWindow(S, g) = LinksByEmail!InWindow(S, g)
      /\ \A S : Limit(rule)!Cardinality(S) = LinksByEmail!Cardinality(S)
  BY <1>1 DEF Limit!InWindow, Limit!Cardinality, LinksByEmail!InWindow, LinksByEmail!Cardinality
<1>4. \A S : /\ Limit(rule)!Capped(S) => LinksByEmail!Capped(S)
             /\ Limit(rule)!Spaced(S) => LinksByEmail!Spaced(S)
  BY <1>1, <1>3 DEF Limit!Capped, Limit!Spaced, LinksByEmail!Capped, LinksByEmail!Spaced
<1>5. Limit(rule)!Init => LinksByEmail!Init
  BY <1>2 DEF Limit!Init, LinksByEmail!Init
<1>6. [\E g \in Limit(rule)!Grants : Limit(rule)!Grant(g)]_(GrantsBy(rule))
        => [\E g \in LinksByEmail!Grants : LinksByEmail!Grant(g)]_(GrantsOf("verification_email", "email"))
  BY <1>1, <1>2, <1>4 DEF Limit!Grants, Limit!Grant, LinksByEmail!Grants, LinksByEmail!Grant
<1>7. Spec => Limit(rule)!StrictSpec
  BY <1>1, RulesImplemented
<1> QED
  BY <1>5, <1>6, <1>7, PTL DEF Limit!StrictSpec, LinksByEmail!StrictSpec

\* The limit and the cooldown of the links an address asks for
\* (record_verification_email).
THEOREM LinkLimitImplemented == Spec => LinkLimitHolds
BY LinksByEmailImplemented DEF LinkLimitHolds
=============================================================================
