------------------------- MODULE LoginThrottleProofs -------------------------
(***************************************************************************)
(* Proofs about LoginThrottle, for every number of attempts and every      *)
(* limits the settings accept.  As in RequestLimitsProofs, the attempt of  *)
(* a window that is counted last finds the rows of all the others; here a  *)
(* success may have deleted rows too, and those attempts are forgiven.     *)
(***************************************************************************)
EXTENDS LoginThrottle, FiniteSetTheorems, TLAPS

AttemptShape ==
    \A r \in Requests : phase[r] # "idle" =>
        event[r].scope = "login_failure" /\ event[r].email \in Emails

\* An inserted row stays until it is refused, given up, forgiven or expired.
StillCounted ==
    \A r \in Requests :
        /\ phase[r] \in {"counting", "checking", "failed"} =>
                r \in stored \/ r \in cleared \/ At(r) + LongestWindow < now
        /\ phase[r] = "succeeded" => r \in cleared

\* No uncounted attempt is older than Stall.
UndecidedFresh == \A r \in Requests : phase[r] \in Undecided => now =< At(r) + Stall

IInv ==
    /\ TypeOK
    /\ AttemptShape
    /\ StillCounted
    /\ UndecidedFresh
    /\ PairCap
    /\ IPCap
    /\ BackoffSpacing

-----------------------------------------------------------------------------
LEMMA LimitsAreNumbers ==
    /\ Limits.login.email_ip_max_events \in Nat
    /\ Limits.login.email_ip_window_seconds \in Nat
    /\ Limits.login.ip_max_events \in Nat
    /\ Limits.login.ip_window_seconds \in Nat
    /\ Limits.login.email_max_events \in Nat
    /\ Limits.login.email_window_seconds \in Nat
    /\ Limits.login.email_backoff_seconds \in Nat
<1>1. Limits \in ThrottleLimits
  BY LimitsAssumption
<1>2. Limits.login \in LoginLimits
  BY <1>1 DEF ThrottleLimits
<1> QED
  BY <1>2 DEF LoginLimits, PositiveInt

\* The cleanup waits for the longest of the three windows, each of which
\* outlasts a stall.
LEMMA LongestIsLongest ==
    /\ LongestWindow \in Nat /\ Stall \in Nat
    /\ \A w \in {Limits.login.email_ip_window_seconds, Limits.login.ip_window_seconds,
                 Limits.login.email_window_seconds} :
            w \in Nat /\ w =< LongestWindow /\ Stall =< w
BY LimitsAreNumbers, StallAssumption, ClockAssumption DEF LongestWindow, MaxOf

LEMMA TypeInit == Init => TypeOK
BY ClockAssumption DEF Init, TypeOK, Event, NoEvent, Phases, At

LEMMA TypeStep == TypeOK /\ [Next]_vars => TypeOK'
<1> SUFFICES ASSUME TypeOK, [Next]_vars PROVE TypeOK'
  OBVIOUS
<1> USE ClockAssumption
<1>1. ASSUME NEW r \in Requests, Create(r) PROVE TypeOK'
  <2>1. PICK login \in Logins : BuildRow(r, "login_failure", login.email, login.ip)
    BY <1>1 DEF Create
  <2>2. login.email \in Emails /\ login.ip \in IPs \union {NoIP}
    BY LoginsAssumption
  <2>3. [scope |-> "login_failure", email |-> login.email, ip |-> login.ip, created_at |-> now]
            \in Event
    BY <2>2 DEF Event, TypeOK, Scopes
  <2>4. event' \in [Requests -> Event] /\ \A x \in Requests : At(x)' =< now
    BY <2>1, <2>3 DEF BuildRow, TypeOK, At
  <2> QED
    BY <1>1, <2>1, <2>4 DEF Create, BuildRow, TypeOK, Phases
<1>2. ASSUME NEW r \in Requests, Insert(r) \/ Count(r) PROVE TypeOK'
  BY <1>2 DEF Insert, InsertRow, Count, TypeOK, Phases, At
<1>3. ASSUME NEW r \in Requests, Refuse(r) \/ Crash(r) \/ WrongPassword(r) PROVE TypeOK'
  BY <1>3 DEF Refuse, DeleteRefused, Crash, WrongPassword, TypeOK, Phases, At
<1>4. ASSUME NEW r \in Requests, RightPassword(r) PROVE TypeOK'
  BY <1>4 DEF RightPassword, ClearedBy, Inserted, TypeOK, Phases, At
<1>5. ASSUME NEW email \in Emails, NEW ip \in IPs, ClearPair(email, ip) PROVE TypeOK'
  BY <1>5 DEF ClearPair, Inserted, TypeOK, At
<1>6. CASE DeleteExpired
  BY <1>6 DEF DeleteExpired, TypeOK, At
<1>7. CASE PassTime
  BY <1>7 DEF PassTime, Tick, TypeOK, At, Event
<1>8. CASE UNCHANGED vars
  BY <1>8 DEF vars, TypeOK, At
<1> QED
  BY <1>1, <1>2, <1>3, <1>4, <1>5, <1>6, <1>7, <1>8 DEF Next

(***************************************************************************)
(* The variables of LoginThrottle keep their types, and no row is from the *)
(* future (ThrottleEvent.created_at is read before the row exists).        *)
(***************************************************************************)
THEOREM TypeCorrect == Spec => []TypeOK
BY TypeInit, TypeStep, PTL DEF Spec

-----------------------------------------------------------------------------
(* How a step treats the attempts that have started.                       *)

LEMMA StartedKeepRows ==
    ASSUME TypeOK, [Next]_vars, NEW q \in Requests, phase[q] # "idle"
    PROVE  event'[q] = event[q]
BY DEF Next, vars, Create, BuildRow, Insert, InsertRow, Count, WrongPassword, RightPassword,
       ClearPair, Refuse, DeleteRefused, Crash, DeleteExpired, PassTime, Tick, TypeOK

LEMMA LookAlike ==
    ASSUME TypeOK, [Next]_vars, NEW q \in Requests, NEW r \in Requests,
           phase[q] # "idle", phase[r] # "idle"
    PROVE  /\ At(q)' = At(q)
           /\ event'[r].ip = event[r].ip
           /\ SameEmail(q, r)' = SameEmail(q, r)
           /\ SameIP(q, r)' = SameIP(q, r)
           /\ SamePair(q, r)' = SamePair(q, r)
<1>1. event'[q] = event[q] /\ event'[r] = event[r]
  BY StartedKeepRows
<1> QED
  BY <1>1 DEF At, SamePair, SameEmail, SameIP, SameScope

\* Only a count that finds no limit exceeded holds a new attempt.
LEMMA HeldStep ==
    ASSUME TypeOK, StillCounted, [Next]_vars, NEW r \in Held', r \notin Held
    PROVE  r \in Requests /\ Count(r) /\ ~IsThrottled(r) /\ r \notin cleared
<1> USE DEF TypeOK, Held, Checked
<1>1. CASE \E q \in Requests : Count(q)
  BY <1>1 DEF Count
<1>2. CASE \E q \in Requests : RightPassword(q)
  BY <1>2 DEF RightPassword, ClearedBy, SamePair, SameEmail, SameIP, SameScope, Inserted
<1>3. CASE \E q \in Requests : Create(q) \/ Insert(q) \/ Refuse(q) \/ Crash(q) \/ WrongPassword(q)
  BY <1>3 DEF Create, BuildRow, Insert, InsertRow, Refuse, DeleteRefused, Crash, WrongPassword
<1>4. CASE \E email \in Emails, ip \in IPs : ClearPair(email, ip)
  BY <1>4 DEF ClearPair
<1>5. CASE DeleteExpired \/ PassTime \/ UNCHANGED vars
  BY <1>5 DEF DeleteExpired, PassTime, Tick, vars
<1> QED
  BY <1>1, <1>2, <1>3, <1>4, <1>5 DEF Next

LEMMA HeldStarted ==
    ASSUME TypeOK, StillCounted, [Next]_vars, NEW r \in Held \union Held'
    PROVE  r \in Requests /\ phase[r] # "idle"
BY HeldStep DEF Held, Checked, Count

LEMMA ShapeStep == TypeOK /\ AttemptShape /\ [Next]_vars => AttemptShape'
<1> SUFFICES ASSUME TypeOK, AttemptShape, [Next]_vars PROVE AttemptShape'
  OBVIOUS
<1> USE DEF AttemptShape
<1>1. ASSUME NEW r \in Requests, Create(r) PROVE AttemptShape'
  BY <1>1, LoginsAssumption DEF Create, BuildRow, TypeOK
<1>2. ASSUME NEW r \in Requests, Insert(r) \/ Count(r) \/ Refuse(r) \/ Crash(r) PROVE AttemptShape'
  BY <1>2 DEF Insert, InsertRow, Count, Refuse, DeleteRefused, Crash, TypeOK
<1>3. ASSUME NEW r \in Requests, WrongPassword(r) \/ RightPassword(r) PROVE AttemptShape'
  BY <1>3 DEF WrongPassword, RightPassword, TypeOK
<1>4. CASE \/ \E email \in Emails, ip \in IPs : ClearPair(email, ip)
           \/ DeleteExpired \/ PassTime \/ UNCHANGED vars
  BY <1>4 DEF ClearPair, DeleteExpired, PassTime, Tick, vars
<1> QED
  BY <1>1, <1>2, <1>3, <1>4 DEF Next

LEMMA FreshStep == TypeOK /\ UndecidedFresh /\ [Next]_vars => UndecidedFresh'
<1> SUFFICES ASSUME TypeOK, UndecidedFresh, [Next]_vars PROVE UndecidedFresh'
  OBVIOUS
<1> USE ClockAssumption DEF UndecidedFresh, Undecided, At, TypeOK
<1>1. ASSUME NEW r \in Requests, Create(r) PROVE UndecidedFresh'
  BY <1>1 DEF Create, BuildRow
<1>2. ASSUME NEW r \in Requests, Insert(r) \/ Count(r) \/ Refuse(r) \/ Crash(r)
      PROVE UndecidedFresh'
  BY <1>2 DEF Insert, InsertRow, Count, Refuse, DeleteRefused, Crash
<1>3. ASSUME NEW r \in Requests, WrongPassword(r) \/ RightPassword(r) PROVE UndecidedFresh'
  BY <1>3 DEF WrongPassword, RightPassword
<1>4. CASE PassTime
  <2>1. \A r \in Requests : At(r) \in Nat
    BY DEF Event
  <2> QED
    BY <1>4, <2>1 DEF PassTime, Tick
<1>5. CASE \/ \E email \in Emails, ip \in IPs : ClearPair(email, ip)
           \/ DeleteExpired \/ UNCHANGED vars
  BY <1>5 DEF ClearPair, DeleteExpired, vars
<1> QED
  BY <1>1, <1>2, <1>3, <1>4, <1>5 DEF Next

LEMMA StillStep == TypeOK /\ AttemptShape /\ StillCounted /\ [Next]_vars => StillCounted'
<1> SUFFICES ASSUME TypeOK, AttemptShape, StillCounted, [Next]_vars PROVE StillCounted'
  OBVIOUS
<1> USE DEF StillCounted, At, TypeOK
<1>1. ASSUME NEW r \in Requests, Create(r) PROVE StillCounted'
  BY <1>1 DEF Create, BuildRow
<1>2. ASSUME NEW r \in Requests, Insert(r) \/ Count(r) PROVE StillCounted'
  BY <1>2 DEF Insert, InsertRow, Count
<1>3. ASSUME NEW r \in Requests, Refuse(r) \/ Crash(r) \/ WrongPassword(r) PROVE StillCounted'
  BY <1>3 DEF Refuse, DeleteRefused, Crash, WrongPassword
<1>4. ASSUME NEW r \in Requests, RightPassword(r) PROVE StillCounted'
  \* The attempt's own pair is the pair it clears.
  <2>1. r \in ClearedBy(r)
    BY <1>4 DEF RightPassword, ClearedBy, Inserted, SamePair, SameEmail, SameIP, SameScope
  <2> QED
    BY <1>4, <2>1 DEF RightPassword
<1>5. ASSUME NEW email \in Emails, NEW ip \in IPs, ClearPair(email, ip) PROVE StillCounted'
  BY <1>5 DEF ClearPair
<1>6. CASE DeleteExpired
  BY <1>6 DEF DeleteExpired, Expired
<1>7. CASE PassTime
  <2>1. \A r \in Requests : At(r) \in Nat
    BY DEF Event
  <2>2. now \in Nat /\ LongestWindow \in Nat
    BY ClockAssumption, LongestIsLongest
  <2>3. \A r \in Requests : At(r) + LongestWindow < now => At(r) + LongestWindow < now + 1
    <3> HIDE DEF At
    <3> QED
      BY <2>1, <2>2
  <2> QED
    BY <1>7, <2>3 DEF PassTime, Tick, LongestWindow
<1>8. CASE UNCHANGED vars
  BY <1>8 DEF vars
<1> QED
  BY <1>1, <1>2, <1>3, <1>4, <1>5, <1>6, <1>7, <1>8 DEF Next

-----------------------------------------------------------------------------
(* The caps and the backoff.                                               *)

\* A count of r finds every held attempt that is younger than Sure before r,
\* and r itself, unless a success has forgiven r.
LEMMA CountSees ==
    ASSUME TypeOK, StillCounted, UndecidedFresh,
           NEW r \in Requests, phase[r] = "counting", r \notin cleared,
           NEW q \in Requests, q = r \/ q \in Held,
           NEW w \in {Limits.login.email_ip_window_seconds, Limits.login.ip_window_seconds,
                      Limits.login.email_window_seconds},
           At(q) + Sure(w) >= At(r)
    PROVE  q \in stored /\ Within(q, r, w)
<1>1. /\ w \in Nat /\ LongestWindow \in Nat /\ w =< LongestWindow
      /\ Stall \in Nat /\ Stall =< w
  BY LongestIsLongest
<1>2. At(q) \in Nat /\ At(r) \in Nat /\ now \in Nat
  BY ClockAssumption DEF TypeOK, At, Event
<1>3. now =< At(r) + Stall
  BY DEF UndecidedFresh, Undecided
<1>4. q \in stored \/ At(q) + LongestWindow < now
  BY DEF StillCounted, Held, Checked
<1>5. At(q) + (w - Stall) >= At(r)
  BY DEF Sure
<1>6. At(q) + w >= At(r) /\ ~(At(q) + LongestWindow < now)
  BY <1>1, <1>2, <1>3, <1>5
<1> QED
  BY <1>4, <1>6 DEF Within

\* A part of a finite set of requests is no larger.
LEMMA PartIsSmaller ==
    ASSUME NEW S \in SUBSET Requests, NEW T \in SUBSET S
    PROVE  Cardinality(T) =< Cardinality(S) /\ Cardinality(S) \in Nat /\ Cardinality(T) \in Nat
BY RequestsAssumption, FS_Subset, FS_CardinalityType

LEMMA PairCapStep == IInv /\ [Next]_vars => PairCap'
<1> DEFINE W == Limits.login.email_ip_window_seconds
           new(x) == {q \in Held' : SamePair(q, x) /\ At(x) =< At(q) /\ At(q) =< At(x) + Sure(W)}
<1> SUFFICES ASSUME IInv, [Next]_vars, NEW x \in Held', event[x].ip # NoIP
             PROVE  Cardinality(new(x)) =< Limits.login.email_ip_max_events
  <2>1. ASSUME IInv, [Next]_vars, NEW x \in Held'
        PROVE  event'[x].ip = event[x].ip /\ PairWindow(Held, x, Sure(W))' = new(x)
    <3>1. \A q \in Held' : /\ At(q)' = At(q) /\ SamePair(q, x)' = SamePair(q, x)
                           /\ event'[q].ip = event[q].ip
      BY <2>1, HeldStarted, LookAlike DEF IInv
    <3> QED
      BY <3>1 DEF PairWindow, Sure
  <2> QED
    BY <2>1 DEF PairCap
<1>1. /\ Held' \subseteq Requests /\ Held \subseteq Requests
      /\ x \in Requests /\ new(x) \subseteq Requests
  BY HeldStarted DEF IInv
<1>2. /\ W \in Nat /\ Stall \in Nat /\ W >= Stall /\ Sure(W) \in Nat
      /\ Limits.login.email_ip_max_events \in Nat
      /\ \A q \in Requests : At(q) \in Nat
  BY LongestIsLongest, LimitsAreNumbers DEF Sure, IInv, TypeOK, At, Event
<1>3. x \in new(x)
  BY <1>1, <1>2 DEF SamePair, SameEmail, SameIP, SameScope
<1>4. CASE \E r \in new(x) : r \notin Held
  <2>1. PICK r \in new(x) : r \notin Held
    BY <1>4
  <2>2. r \in Requests /\ Count(r) /\ ~IsThrottled(r) /\ r \notin cleared
    BY <2>1, HeldStep DEF IInv
  <2>3. \A q \in Held' : q = r \/ q \in Held
    BY <1>1, <2>2 DEF Count, Held, Checked, IInv, TypeOK
  <2>4. new(x) \subseteq PairRecent(r, W)
    <3> SUFFICES ASSUME NEW q \in new(x) PROVE q \in PairRecent(r, W)
      OBVIOUS
    <3>1. SamePair(q, r) /\ At(q) + Sure(W) >= At(r)
      BY <1>1, <1>2, <2>1 DEF SamePair, SameEmail, SameIP, SameScope
    <3>2. q \in stored /\ Within(q, r, W)
      BY <1>1, <2>2, <2>3, <3>1, CountSees DEF IInv, Count
    <3> QED
      BY <3>1, <3>2 DEF PairRecent
  <2>5. Cardinality(new(x)) =< Cardinality(PairRecent(r, W))
        /\ Cardinality(new(x)) \in Nat /\ Cardinality(PairRecent(r, W)) \in Nat
    <3>1. PairRecent(r, W) \in SUBSET Requests
      BY DEF PairRecent, IInv, TypeOK
    <3> HIDE DEF new
    <3> QED
      BY <2>4, <3>1, PartIsSmaller
  <2>6. ~(Cardinality(PairRecent(r, W)) > Limits.login.email_ip_max_events)
    BY <2>2 DEF IsThrottled
  <2> HIDE DEF new
  <2> QED
    BY <1>2, <2>5, <2>6
<1>5. CASE \A r \in new(x) : r \in Held
  <2> DEFINE old == PairWindow(Held, x, Sure(W))
  <2>1. Cardinality(old) =< Limits.login.email_ip_max_events
    BY <1>3, <1>5 DEF IInv, PairCap
  <2>2. new(x) \subseteq old
    BY <1>5 DEF PairWindow
  <2>3. old \in SUBSET Requests
    BY <1>1 DEF PairWindow
  <2> HIDE DEF new, old
  <2>4. Cardinality(new(x)) =< Cardinality(old) /\ Cardinality(new(x)) \in Nat
        /\ Cardinality(old) \in Nat
    BY <2>2, <2>3, PartIsSmaller
  <2> QED
    BY <1>2, <2>1, <2>4
<1> QED
  BY <1>4, <1>5

LEMMA IPCapStep == IInv /\ [Next]_vars => IPCap'
<1> DEFINE W == Limits.login.ip_window_seconds
           new(x) == {q \in Held' : SameIP(q, x) /\ At(x) =< At(q) /\ At(q) =< At(x) + Sure(W)}
<1> SUFFICES ASSUME IInv, [Next]_vars, NEW x \in Held', event[x].ip # NoIP
             PROVE  Cardinality(new(x)) =< Limits.login.ip_max_events
  <2>1. ASSUME IInv, [Next]_vars, NEW x \in Held'
        PROVE  event'[x].ip = event[x].ip /\ IPWindow(Held, x, Sure(W))' = new(x)
    <3>1. \A q \in Held' : /\ At(q)' = At(q) /\ SameIP(q, x)' = SameIP(q, x)
                           /\ event'[q].ip = event[q].ip
      BY <2>1, HeldStarted, LookAlike DEF IInv
    <3> QED
      BY <3>1 DEF IPWindow, Sure
  <2> QED
    BY <2>1 DEF IPCap
<1>1. /\ Held' \subseteq Requests /\ Held \subseteq Requests
      /\ x \in Requests /\ new(x) \subseteq Requests
  BY HeldStarted DEF IInv
<1>2. /\ W \in Nat /\ Stall \in Nat /\ W >= Stall /\ Sure(W) \in Nat
      /\ Limits.login.ip_max_events \in Nat
      /\ \A q \in Requests : At(q) \in Nat
  BY LongestIsLongest, LimitsAreNumbers DEF Sure, IInv, TypeOK, At, Event
<1>3. x \in new(x)
  BY <1>1, <1>2 DEF SamePair, SameEmail, SameIP, SameScope
<1>4. CASE \E r \in new(x) : r \notin Held
  <2>1. PICK r \in new(x) : r \notin Held
    BY <1>4
  <2>2. r \in Requests /\ Count(r) /\ ~IsThrottled(r) /\ r \notin cleared
    BY <2>1, HeldStep DEF IInv
  <2>3. \A q \in Held' : q = r \/ q \in Held
    BY <1>1, <2>2 DEF Count, Held, Checked, IInv, TypeOK
  <2>4. new(x) \subseteq IPRecent(r, W)
    <3> SUFFICES ASSUME NEW q \in new(x) PROVE q \in IPRecent(r, W)
      OBVIOUS
    <3>1. SameIP(q, r) /\ At(q) + Sure(W) >= At(r)
      BY <1>1, <1>2, <2>1 DEF SamePair, SameEmail, SameIP, SameScope
    <3>2. q \in stored /\ Within(q, r, W)
      BY <1>1, <2>2, <2>3, <3>1, CountSees DEF IInv, Count
    <3> QED
      BY <3>1, <3>2 DEF IPRecent
  <2>5. Cardinality(new(x)) =< Cardinality(IPRecent(r, W))
        /\ Cardinality(new(x)) \in Nat /\ Cardinality(IPRecent(r, W)) \in Nat
    <3>1. IPRecent(r, W) \in SUBSET Requests
      BY DEF IPRecent, IInv, TypeOK
    <3> HIDE DEF new
    <3> QED
      BY <2>4, <3>1, PartIsSmaller
  <2>6. ~(Cardinality(IPRecent(r, W)) > Limits.login.ip_max_events)
    BY <2>2 DEF IsThrottled
  <2> HIDE DEF new
  <2> QED
    BY <1>2, <2>5, <2>6
<1>5. CASE \A r \in new(x) : r \in Held
  <2> DEFINE old == IPWindow(Held, x, Sure(W))
  <2>1. Cardinality(old) =< Limits.login.ip_max_events
    BY <1>3, <1>5 DEF IInv, IPCap
  <2>2. new(x) \subseteq old
    BY <1>5 DEF IPWindow
  <2>3. old \in SUBSET Requests
    BY <1>1 DEF IPWindow
  <2> HIDE DEF new, old
  <2>4. Cardinality(new(x)) =< Cardinality(old) /\ Cardinality(new(x)) \in Nat
        /\ Cardinality(old) \in Nat
    BY <2>2, <2>3, PartIsSmaller
  <2> QED
    BY <1>2, <2>1, <2>4
<1> QED
  BY <1>4, <1>5

LEMMA BackoffStep == IInv /\ [Next]_vars => BackoffSpacing'
<1> DEFINE W == Limits.login.email_window_seconds
           B == Limits.login.email_backoff_seconds
           M == Limits.login.email_max_events
<1> SUFFICES ASSUME IInv, [Next]_vars, NEW S \in SUBSET Held',
                    InOneEmailWindow(S, Sure(W)), Cardinality(S) > M
             PROVE  \E q \in S : \A o \in S \ {q} : At(o) + B =< At(q)
  <2>1. ASSUME IInv, [Next]_vars, NEW S \in SUBSET Held'
        PROVE  /\ InOneEmailWindow(S, Sure(W))' => InOneEmailWindow(S, Sure(W))
               /\ \A q \in S : At(q)' = At(q)
    <3>1. \A p, q \in S : At(q)' = At(q) /\ SameEmail(p, q)' = SameEmail(p, q)
      BY <2>1, HeldStarted, LookAlike DEF IInv
    <3> QED
      BY <3>1 DEF InOneEmailWindow, Sure
  <2> QED
    BY <2>1 DEF BackoffSpacing
<1>1. Held' \subseteq Requests /\ Held \subseteq Requests /\ S \subseteq Requests
  BY HeldStarted DEF IInv
<1>2. /\ W \in Nat /\ B \in Nat /\ M \in Nat
      /\ Stall \in Nat /\ W >= Stall /\ Sure(W) \in Nat
      /\ \A q \in Requests : At(q) \in Nat
  BY LongestIsLongest, LimitsAreNumbers DEF Sure, IInv, TypeOK, At, Event
<1>3. CASE S \subseteq Held
  BY <1>3 DEF IInv, BackoffSpacing
<1>4. CASE \E r \in S : r \notin Held
  <2>1. PICK r \in S : r \notin Held
    BY <1>4
  <2>2. r \in Requests /\ Count(r) /\ ~IsThrottled(r) /\ r \notin cleared
    BY <2>1, HeldStep DEF IInv
  <2>3. \A q \in Held' : q = r \/ q \in Held
    BY <1>1, <2>2 DEF Count, Held, Checked, IInv, TypeOK
  <2>4. S \subseteq EmailRecent(r, W)
    <3> SUFFICES ASSUME NEW q \in S PROVE q \in EmailRecent(r, W)
      OBVIOUS
    <3>1. SameEmail(q, r) /\ At(q) + Sure(W) >= At(r)
      BY <1>1, <1>2, <2>1 DEF InOneEmailWindow
    <3>2. q \in stored /\ Within(q, r, W)
      BY <1>1, <2>2, <2>3, <3>1, CountSees DEF IInv, Count
    <3> QED
      BY <3>1, <3>2 DEF EmailRecent
  <2>5. Cardinality(S) =< Cardinality(EmailRecent(r, W))
        /\ Cardinality(S) \in Nat /\ Cardinality(EmailRecent(r, W)) \in Nat
    <3>1. EmailRecent(r, W) \in SUBSET Requests
      BY DEF EmailRecent, IInv, TypeOK
    <3> QED
      BY <2>4, <3>1, PartIsSmaller
  <2>6. Cardinality(EmailRecent(r, W)) > M
    BY <1>2, <2>5
  <2>7. ~RecentWithin(EmailRecent(r, W), r, B)
    BY <2>2, <2>6 DEF IsThrottled
  <2>8. \A o \in S \ {r} : ~(At(r) < At(o) + B)
    BY <2>4, <2>7 DEF RecentWithin
  <2>9. \A o \in S \ {r} : At(o) + B =< At(r)
    BY <1>1, <1>2, <2>8
  <2> QED
    BY <2>1, <2>9
<1> QED
  BY <1>3, <1>4

-----------------------------------------------------------------------------
(* The theorems.                                                           *)

LEMMA IInvInit == Init => IInv
<1> SUFFICES ASSUME Init PROVE IInv
  OBVIOUS
<1>1. TypeOK
  BY TypeInit
<1>2. Held = {}
  BY DEF Init, Held, Checked
<1>3. PairCap /\ IPCap
  BY <1>2 DEF PairCap, IPCap
<1>4. BackoffSpacing
  <2> SUFFICES ASSUME NEW S \in SUBSET Held PROVE ~(Cardinality(S) > Limits.login.email_max_events)
    BY DEF BackoffSpacing
  <2> QED
    BY <1>2, LimitsAreNumbers, FS_EmptySet
<1> QED
  BY <1>1, <1>3, <1>4 DEF Init, IInv, AttemptShape, StillCounted, UndecidedFresh, Undecided

LEMMA IInvStep == IInv /\ [Next]_vars => IInv'
<1> SUFFICES ASSUME IInv, [Next]_vars PROVE IInv'
  OBVIOUS
<1> QED
  BY TypeStep, ShapeStep, StillStep, FreshStep, PairCapStep, IPCapStep, BackoffStep DEF IInv

LEMMA IInvHolds == Spec => []IInv
BY IInvInit, IInvStep, PTL DEF Spec

(***************************************************************************)
(* However guesses interleave with each other, with successes and with the *)
(* cleanup, at most email_ip_max_events held attempts on an email from an  *)
(* address fall into one window (record_attempt, clear_attempt).           *)
(***************************************************************************)
THEOREM PairCapHolds == Spec => []PairCap
<1>1. IInv => PairCap
  BY DEF IInv
<1> QED
  BY <1>1, IInvHolds, PTL

(***************************************************************************)
(* The same for all held attempts from one address.                        *)
(***************************************************************************)
THEOREM IPCapHolds == Spec => []IPCap
<1>1. IInv => IPCap
  BY DEF IInv
<1> QED
  BY <1>1, IInvHolds, PTL

(***************************************************************************)
(* Of any email_max_events + 1 held attempts on an email in one window,    *)
(* one came a backoff after all the others (_is_email_backing_off).        *)
(***************************************************************************)
THEOREM BackoffSpacingHolds == Spec => []BackoffSpacing
<1>1. IInv => BackoffSpacing
  BY DEF IInv
<1> QED
  BY <1>1, IInvHolds, PTL

-----------------------------------------------------------------------------
(* Not a permanent lock.                                                   *)

\* The three reasons of RefusalJustified.
PairReason(r) ==
    Cardinality(Others(r, SamePair, Limits.login.email_ip_window_seconds))
        >= Limits.login.email_ip_max_events
IPReason(r) ==
    Cardinality(Others(r, SameIP, Limits.login.ip_window_seconds)) >= Limits.login.ip_max_events
EmailReason(r) ==
    LET others == Others(r, SameEmail, Limits.login.email_window_seconds)
    IN  /\ Cardinality(others) >= Limits.login.email_max_events
        /\ RecentWithin(others, r, Limits.login.email_backoff_seconds)

\* A row in the table belongs to an attempt that is past its INSERT.
StoredInserted == stored \subseteq Inserted

LEMMA StoredStep == TypeOK /\ StoredInserted /\ [Next]_vars => StoredInserted'
<1> SUFFICES ASSUME TypeOK, StoredInserted, [Next]_vars PROVE StoredInserted'
  OBVIOUS
<1> USE DEF StoredInserted, Inserted, TypeOK
<1>1. ASSUME NEW r \in Requests, Create(r) \/ Insert(r) \/ Count(r) PROVE StoredInserted'
  BY <1>1 DEF Create, BuildRow, Insert, InsertRow, Count
<1>2. ASSUME NEW r \in Requests, Refuse(r) \/ Crash(r) PROVE StoredInserted'
  BY <1>2 DEF Refuse, DeleteRefused, Crash
<1>3. ASSUME NEW r \in Requests, WrongPassword(r) \/ RightPassword(r) PROVE StoredInserted'
  BY <1>3 DEF WrongPassword, RightPassword
<1>4. CASE \/ \E email \in Emails, ip \in IPs : ClearPair(email, ip)
           \/ DeleteExpired \/ PassTime \/ UNCHANGED vars
  BY <1>4 DEF ClearPair, DeleteExpired, PassTime, Tick, vars
<1> QED
  BY <1>1, <1>2, <1>3, <1>4 DEF Next

\* No attempt goes back before its INSERT.
LEMMA InsertedStays == TypeOK /\ [Next]_vars => Inserted \subseteq Inserted'
BY DEF Next, vars, Create, BuildRow, Insert, InsertRow, Count, WrongPassword, RightPassword,
       ClearPair, Refuse, DeleteRefused, Crash, DeleteExpired, PassTime, Tick, TypeOK, Inserted

\* Whatever others a window held, it keeps.
LEMMA OthersStay ==
    ASSUME TypeOK, [Next]_vars, NEW r \in Inserted, NEW w
    PROVE  /\ Others(r, SamePair, w) \subseteq Others(r, SamePair, w)'
           /\ Others(r, SameIP, w) \subseteq Others(r, SameIP, w)'
           /\ Others(r, SameEmail, w) \subseteq Others(r, SameEmail, w)'
<1>1. \A q \in Inserted : q \in Inserted' /\ event'[q] = event[q]
  BY InsertedStays, StartedKeepRows DEF Inserted
<1> QED
  BY <1>1 DEF Others, SamePair, SameEmail, SameIP, SameScope, Within, At

LEMMA ReasonsStay ==
    ASSUME TypeOK, [Next]_vars, NEW r \in Inserted,
           PairReason(r) \/ IPReason(r) \/ EmailReason(r)
    PROVE  (PairReason(r) \/ IPReason(r) \/ EmailReason(r))'
<1> DEFINE pairs == Others(r, SamePair, Limits.login.email_ip_window_seconds)
           neighbours == Others(r, SameIP, Limits.login.ip_window_seconds)
           others == Others(r, SameEmail, Limits.login.email_window_seconds)
<1>1. pairs \subseteq pairs' /\ neighbours \subseteq neighbours' /\ others \subseteq others'
  BY OthersStay
<1>2. pairs' \subseteq Requests /\ neighbours' \subseteq Requests /\ others' \subseteq Requests
  BY DEF Others, Inserted
<1>3. /\ Cardinality(pairs) =< Cardinality(pairs')
      /\ Cardinality(pairs) \in Nat /\ Cardinality(pairs') \in Nat
  BY <1>1, <1>2, PartIsSmaller
<1>4. /\ Cardinality(neighbours) =< Cardinality(neighbours')
      /\ Cardinality(neighbours) \in Nat /\ Cardinality(neighbours') \in Nat
  BY <1>1, <1>2, PartIsSmaller
<1>5. /\ Cardinality(others) =< Cardinality(others')
      /\ Cardinality(others) \in Nat /\ Cardinality(others') \in Nat
  BY <1>1, <1>2, PartIsSmaller
<1>6. RecentWithin(others, r, Limits.login.email_backoff_seconds)
        => RecentWithin(others, r, Limits.login.email_backoff_seconds)'
  <2>1. \A q \in others : At(q)' = At(q) /\ At(r)' = At(r)
    BY StartedKeepRows DEF Others, Inserted, At
  <2> QED
    BY <1>1, <2>1 DEF RecentWithin
<1>7. PairReason(r) => PairReason(r)'
  BY <1>3, LimitsAreNumbers DEF PairReason
<1>8. IPReason(r) => IPReason(r)'
  BY <1>4, LimitsAreNumbers DEF IPReason
<1>9. EmailReason(r) => EmailReason(r)'
  BY <1>5, <1>6, LimitsAreNumbers DEF EmailReason
<1> QED
  BY <1>7, <1>8, <1>9

\* A count above a limit is one of as many others: the own row is one of it.
LEMMA OthersOfCount ==
    ASSUME NEW rows \in SUBSET Requests, NEW r \in Requests, NEW max \in Nat,
           NEW others \in SUBSET Requests, rows \ {r} \subseteq others,
           Cardinality(rows) > max
    PROVE  Cardinality(others) >= max
<1>1. IsFiniteSet(rows) /\ Cardinality(rows) \in Nat /\ Cardinality(rows \ {r}) \in Nat
      /\ Cardinality(rows \ {r}) =< Cardinality(others) /\ Cardinality(others) \in Nat
  BY PartIsSmaller, RequestsAssumption, FS_Subset
<1>2. Cardinality(rows \ {r}) = IF r \in rows THEN Cardinality(rows) - 1 ELSE Cardinality(rows)
  BY <1>1, FS_RemoveElement
<1> QED
  BY <1>1, <1>2

LEMMA RefusesJustly ==
    ASSUME TypeOK, StoredInserted, NEW r \in Requests, IsThrottled(r)
    PROVE  PairReason(r) \/ IPReason(r) \/ EmailReason(r)
<1> DEFINE pairRows == PairRecent(r, Limits.login.email_ip_window_seconds)
           pairs == Others(r, SamePair, Limits.login.email_ip_window_seconds)
           ipRows == IPRecent(r, Limits.login.ip_window_seconds)
           neighbours == Others(r, SameIP, Limits.login.ip_window_seconds)
           rows == EmailRecent(r, Limits.login.email_window_seconds)
           others == Others(r, SameEmail, Limits.login.email_window_seconds)
<1>1. /\ pairRows \ {r} \subseteq pairs /\ pairRows \subseteq Requests /\ pairs \subseteq Requests
      /\ ipRows \ {r} \subseteq neighbours /\ ipRows \subseteq Requests
      /\ neighbours \subseteq Requests
      /\ rows \ {r} \subseteq others /\ rows \subseteq Requests /\ others \subseteq Requests
      /\ r \notin others
  BY DEF PairRecent, IPRecent, EmailRecent, Others, StoredInserted, Inserted, TypeOK
<1>2. RecentWithin(rows, r, Limits.login.email_backoff_seconds)
        => RecentWithin(others, r, Limits.login.email_backoff_seconds)
  BY <1>1 DEF RecentWithin
<1>3. \/ Cardinality(pairRows) > Limits.login.email_ip_max_events
      \/ Cardinality(ipRows) > Limits.login.ip_max_events
      \/ /\ Cardinality(rows) > Limits.login.email_max_events
         /\ RecentWithin(rows, r, Limits.login.email_backoff_seconds)
  BY DEF IsThrottled
<1> HIDE DEF pairRows, pairs, ipRows, neighbours, rows, others
<1>4. Cardinality(pairRows) > Limits.login.email_ip_max_events
        => Cardinality(pairs) >= Limits.login.email_ip_max_events
  BY <1>1, LimitsAreNumbers, OthersOfCount
<1>5. Cardinality(ipRows) > Limits.login.ip_max_events
        => Cardinality(neighbours) >= Limits.login.ip_max_events
  BY <1>1, LimitsAreNumbers, OthersOfCount
<1>6. Cardinality(rows) > Limits.login.email_max_events
        => Cardinality(others) >= Limits.login.email_max_events
  BY <1>1, LimitsAreNumbers, OthersOfCount
<1> QED
  BY <1>2, <1>3, <1>4, <1>5, <1>6 DEF PairReason, IPReason, EmailReason, pairs, neighbours, others

LEMMA JustifiedStep ==
    TypeOK /\ StoredInserted /\ RefusalJustified /\ [Next]_vars => RefusalJustified'
<1> SUFFICES ASSUME TypeOK, StoredInserted, RefusalJustified, [Next]_vars,
                    NEW r \in Requests, phase'[r] \in {"refusing", "refused"}
             PROVE  (PairReason(r) \/ IPReason(r) \/ EmailReason(r))'
  BY DEF RefusalJustified, PairReason, IPReason, EmailReason
<1>1. phase[r] \in {"refusing", "refused"} \/ Count(r)
  BY DEF Next, vars, Create, BuildRow, Insert, InsertRow, Count, WrongPassword, RightPassword,
         ClearPair, Refuse, DeleteRefused, Crash, DeleteExpired, PassTime, Tick, TypeOK
<1>2. PairReason(r) \/ IPReason(r) \/ EmailReason(r)
  <2>1. CASE phase[r] \in {"refusing", "refused"}
    BY <2>1 DEF RefusalJustified, PairReason, IPReason, EmailReason
  <2>2. CASE Count(r)
    BY <2>2, RefusesJustly DEF Count, TypeOK
  <2> QED
    BY <1>1, <2>1, <2>2
<1>3. r \in Inserted
  BY <1>1 DEF Inserted, Count
<1> QED
  BY <1>2, <1>3, ReasonsStay

(***************************************************************************)
(* "Not a permanent lock" for every limit and any number of attempts:      *)
(* record_attempt refuses none but for as many others as a limit allows.   *)
(***************************************************************************)
THEOREM RefusalJustifiedHolds == Spec => []RefusalJustified
<1>1. Init => StoredInserted /\ RefusalJustified
  BY DEF Init, StoredInserted, RefusalJustified
<1>2. IInv => TypeOK
  BY DEF IInv
<1> QED
  BY <1>1, <1>2, StoredStep, JustifiedStep, IInvHolds, PTL DEF Spec

(***************************************************************************)
(* A success or a completed reset takes no checked attempt of another pair *)
(* out of the table (clear_attempt, clear, delete_expired).                *)
(***************************************************************************)
THEOREM OnlyOwnPairClearedHolds == Spec => OnlyOwnPairCleared
<1> DEFINE Keeps(q) ==
             \/ At(q) + LongestWindow < now
             \/ \E r \in Requests : RightPassword(r) /\ (r = q \/ SamePair(q, r))
             \/ /\ event[q].ip # NoIP /\ ClearPair(event[q].email, event[q].ip)
                /\ \A o \in stored \ stored' : SamePair(o, q)
<1>1. ASSUME IInv, [Next]_vars, NEW q \in (stored \ stored') \intersect Checked PROVE Keeps(q)
  <2>1. ASSUME NEW r \in Requests, Create(r) \/ Insert(r) \/ Count(r) \/ Crash(r) \/ WrongPassword(r)
        PROVE  Keeps(q)
    BY <1>1, <2>1 DEF Create, BuildRow, Insert, InsertRow, Count, Crash, WrongPassword
  <2>2. ASSUME NEW r \in Requests, Refuse(r) PROVE Keeps(q)
    BY <1>1, <2>2 DEF Refuse, DeleteRefused, Checked
  <2>3. ASSUME NEW r \in Requests, RightPassword(r) PROVE Keeps(q)
    <3>1. q = r \/ SamePair(q, r)
      BY <1>1, <2>3 DEF RightPassword, ClearedBy
    <3> QED
      BY <2>3, <3>1
  <2>4. ASSUME NEW email \in Emails, NEW ip \in IPs, ClearPair(email, ip) PROVE Keeps(q)
    <3>1. \A o \in stored \ stored' : event[o].email = email /\ event[o].ip = ip
      BY <2>4 DEF ClearPair
    <3>2. event[q].email = email /\ event[q].ip = ip /\ ip # NoIP
      BY <1>1, <3>1, SentinelAssumption
    <3>3. \A o \in stored \ stored' : event[o].scope = "login_failure"
      <4>1. \A o \in stored \ stored' : o \in Requests /\ phase[o] # "idle"
        BY <2>4 DEF ClearPair, Inserted
      <4> QED
        BY <1>1, <4>1 DEF IInv, AttemptShape
    <3>4. event[q].scope = "login_failure"
      BY <1>1, <3>3
    <3> QED
      BY <2>4, <3>1, <3>2, <3>3, <3>4 DEF SamePair, SameScope, SameEmail, SameIP
  <2>5. CASE DeleteExpired
    BY <1>1, <2>5 DEF DeleteExpired, Expired
  <2>6. CASE PassTime \/ UNCHANGED vars
    BY <1>1, <2>6 DEF PassTime, Tick, vars
  <2> QED
    BY <1>1, <2>1, <2>2, <2>3, <2>4, <2>5, <2>6 DEF Next
<1>2. IInv /\ [Next]_vars =>
        [\A q \in (stored \ stored') \intersect Checked :
            \/ At(q) + LongestWindow < now
            \/ \E r \in Requests : RightPassword(r) /\ (r = q \/ SamePair(q, r))
            \/ /\ event[q].ip # NoIP /\ ClearPair(event[q].email, event[q].ip)
               /\ \A o \in stored \ stored' : SamePair(o, q)]_vars
  BY <1>1
<1> QED
  BY <1>2, IInvHolds, PTL DEF Spec, OnlyOwnPairCleared

-----------------------------------------------------------------------------
(* LoginThrottle implements SlidingWindow per email and IP, for any limits and
   any number of attempts.  A grant is an attempt that reached the password
   hash and is still held against its pair; a success with an address, a
   completed reset or an accepted invite resets the pair. *)

Guesses == {r \in Held : event[r].ip # NoIP}
Pair(r) == <<event[r].email, event[r].ip>>
Guess(r) == [id |-> r, key |-> Pair(r), at |-> At(r)]

LEMMA SameCount == \A S : GuessesByPair!Cardinality(S) = Cardinality(S)
BY DEF GuessesByPair!Cardinality, Cardinality

LEMMA GuessGrants == PairGrants = {Guess(r) : r \in Guesses}
BY DEF PairGrants, Guesses, Guess, Pair

LEMMA GuessTyped ==
    ASSUME IInv, NEW r \in Guesses
    PROVE  /\ Guess(r) \in GuessesByPair!Grants
           /\ r \in Requests /\ r \in Held /\ event[r].ip # NoIP
           /\ event[r].scope = "login_failure"
<1>1. r \in Requests /\ phase[r] # "idle"
  BY DEF Guesses, Held, Checked
<1>2. /\ event[r].scope = "login_failure" /\ event[r].email \in Emails
      /\ event[r].ip \in IPs /\ At(r) \in 0 .. MaxTime
  BY <1>1, ClockAssumption DEF IInv, AttemptShape, TypeOK, Event, Guesses, At
<1> QED
  BY <1>1, <1>2 DEF Guess, Pair, GuessesByPair!Grants, Guesses

-----------------------------------------------------------------------------
(* The limit holds for the grants.                                         *)

LEMMA GuessesCapped == ASSUME IInv PROVE GuessesByPair!Capped(PairGrants)
<1> SUFFICES ASSUME NEW r \in Guesses
             PROVE  Cardinality(GuessesByPair!InWindow(PairGrants, Guess(r)))
                        =< Limits.login.email_ip_max_events
  BY GuessGrants, SameCount DEF GuessesByPair!Capped
<1> DEFINE W == Sure(Limits.login.email_ip_window_seconds)
           window == GuessesByPair!InWindow(PairGrants, Guess(r))
           attempts == PairWindow(Held, r, W)
<1>1. r \in Requests /\ r \in Held /\ event[r].ip # NoIP /\ event[r].scope = "login_failure"
  BY GuessTyped
<1>2. Cardinality(attempts) =< Limits.login.email_ip_max_events
  BY <1>1 DEF IInv, PairCap
<1>3. ASSUME NEW h \in window
      PROVE  \E q \in attempts : h = Guess(q)
  <2>1. PICK q \in Guesses : h = Guess(q)
    BY <1>3, GuessGrants DEF GuessesByPair!InWindow
  <2>2. Pair(q) = Pair(r) /\ At(r) =< At(q) /\ At(q) =< At(r) + W
    BY <1>3, <2>1 DEF GuessesByPair!InWindow, Guess
  <2>3. q \in attempts
    BY <1>1, <2>2, GuessTyped DEF PairWindow, SamePair, SameEmail, SameIP, SameScope, Pair
  <2> QED
    BY <2>1, <2>3
<1>4. attempts \in SUBSET Requests
  BY DEF PairWindow, Held, Checked
<1> HIDE DEF window, attempts
<1>5. \A h \in window : h.id \in attempts /\ h = Guess(h.id)
  BY <1>3 DEF Guess
<1>6. /\ Cardinality(window) =< Cardinality(attempts)
      /\ Cardinality(window) \in Nat /\ Cardinality(attempts) \in Nat
  <2> DEFINE id == [h \in window |-> h.id]
  <2>1. id \in Injection(window, attempts)
    BY <1>5 DEF Injection, IsInjective
  <2>2. IsFiniteSet(attempts)
    BY <1>4, RequestsAssumption, FS_Subset
  <2> QED
    BY <2>1, <2>2, FS_Injection, FS_CardinalityType
<1> QED
  BY <1>2, <1>6, LimitsAreNumbers DEF window

\* With no cooldown any two grants are far enough apart.
LEMMA GuessesSpaced == ASSUME IInv PROVE GuessesByPair!Spaced(PairGrants)
<1>1. \A r \in Guesses : Guess(r).at \in Nat
  BY GuessTyped, ClockAssumption DEF Guess, GuessesByPair!Grants
<1> QED
  BY <1>1, GuessGrants DEF GuessesByPair!Spaced

\* Both, as a state predicate.
GuessesKept == GuessesByPair!Capped(PairGrants) /\ GuessesByPair!Spaced(PairGrants)

-----------------------------------------------------------------------------
(* Every step grants, resets or stutters.                                  *)

\* An attempt that stays held stays the same grant.
LEMMA GuessStays ==
    ASSUME IInv, [Next]_vars, NEW r \in Held
    PROVE  Guess(r)' = Guess(r) /\ event'[r] = event[r]
<1>1. r \in Requests /\ phase[r] # "idle"
  BY DEF Held, Checked
<1> QED
  BY <1>1, StartedKeepRows DEF Guess, Pair, At, IInv

\* The grants of the next state, when only held attempts remain so.
LEMMA GrantsOfFewer ==
    ASSUME IInv, [Next]_vars, Held' \subseteq Held
    PROVE  PairGrants' = {Guess(r) : r \in {q \in Held' : event[q].ip # NoIP}}
<1>1. PairGrants' = {Guess(r)' : r \in {q \in Held' : event'[q].ip # NoIP}}
  BY GuessGrants DEF PairGrants, Guesses, Guess, Pair
<1> QED
  BY <1>1, GuessStays

\* A count that lets an attempt through grants it.
LEMMA CountGrants ==
    ASSUME IInv, GuessesKept', NEW r \in Requests, Count(r)
    PROVE  (\E g \in GuessesByPair!Grants : GuessesByPair!Grant(g)) \/ PairGrants' = PairGrants
<1>1. r \notin Held /\ event' = event /\ phase[r] = "counting"
  BY DEF Count, Held, Checked
<1>2. \A q \in Requests : Guess(q)' = Guess(q)
  BY <1>1 DEF Guess, Pair, At
<1>3. PairGrants' = {Guess(q)' : q \in {p \in Held' : event'[p].ip # NoIP}}
  BY GuessGrants DEF PairGrants, Guesses, Guess, Pair
<1>4. Held' = Held \/ Held' = Held \union {r}
  BY DEF Count, Held, Checked, IInv, TypeOK
<1>5. Held \subseteq Requests /\ PairGrants = {Guess(q) : q \in {p \in Held : event[p].ip # NoIP}}
  BY GuessGrants DEF Guesses, Held, Checked
<1>6. CASE Held' = Held \/ event[r].ip = NoIP
  <2>1. {p \in Held' : event'[p].ip # NoIP} = {p \in Held : event[p].ip # NoIP}
    BY <1>1, <1>4, <1>6
  <2> QED
    BY <1>2, <1>3, <1>5, <2>1
<1>7. CASE Held' = Held \union {r} /\ event[r].ip # NoIP
  <2>1. {p \in Held' : event'[p].ip # NoIP} = {p \in Held : event[p].ip # NoIP} \union {r}
    BY <1>1, <1>7
  <2>2. PairGrants' = PairGrants \union {Guess(r)}
    BY <1>2, <1>3, <1>5, <2>1
  <2>3. Guess(r) \in GuessesByPair!Grants
    <3>1. /\ event[r].email \in Emails /\ event[r].ip \in IPs /\ At(r) \in 0 .. MaxTime
      BY <1>1, <1>7, ClockAssumption DEF IInv, AttemptShape, TypeOK, Event, At
    <3> QED
      BY <3>1 DEF Guess, Pair, GuessesByPair!Grants
  <2>4. \A h \in PairGrants : h.id # Guess(r).id
    BY <1>1, <1>5 DEF Guess
  <2>5. GuessesByPair!Capped(PairGrants') /\ GuessesByPair!Spaced(PairGrants')
    BY DEF GuessesKept, GuessesByPair!Capped, GuessesByPair!Spaced, GuessesByPair!InWindow
  <2> QED
    BY <2>2, <2>3, <2>4, <2>5 DEF GuessesByPair!Grant
<1> QED
  BY <1>4, <1>6, <1>7

\* Forgiving the held attempts of one pair is its reset.
LEMMA ForgivenPair ==
    ASSUME IInv, [Next]_vars, NEW email \in Emails, NEW ip \in IPs,
           Held' = {q \in Held : Pair(q) # <<email, ip>>}
    PROVE  \E k \in Emails \X IPs : GuessesByPair!Reset(k)
<1>1. PairGrants' = {Guess(r) : r \in {q \in Held' : event[q].ip # NoIP}}
  BY GrantsOfFewer
<1>2. \A q : Guess(q).key = Pair(q)
  BY DEF Guess
<1>3. {q \in Held' : event[q].ip # NoIP} = {q \in Guesses : Pair(q) # <<email, ip>>}
  BY DEF Guesses
<1>4. PairGrants' = {g \in PairGrants : g.key # <<email, ip>>}
  <2> HIDE DEF Guess, Pair
  <2> QED
    BY <1>1, <1>2, <1>3, GuessGrants
<1> QED
  BY <1>4 DEF GuessesByPair!Reset

\* A success forgives the pair of its attempt, or without an address nothing
\* that was granted.
LEMMA SuccessResets ==
    ASSUME IInv, [Next]_vars, NEW r \in Requests, RightPassword(r)
    PROVE  (\E k \in Emails \X IPs : GuessesByPair!Reset(k)) \/ PairGrants' = PairGrants
<1>1. /\ event[r].scope = "login_failure" /\ event[r].email \in Emails
      /\ event[r].ip \in IPs \union {NoIP}
  BY DEF RightPassword, IInv, AttemptShape, TypeOK, Event
<1>2. Held' = Held \ ClearedBy(r)
  BY DEF RightPassword, Held, Checked, IInv, TypeOK
<1>3. \A q \in Held : /\ q \in Inserted /\ event[q].scope = "login_failure"
  BY DEF Held, Checked, Inserted, IInv, AttemptShape
<1>4. CASE event[r].ip = NoIP
  <2>1. {q \in Held' : event[q].ip # NoIP} = {q \in Held : event[q].ip # NoIP}
    BY <1>2, <1>4 DEF ClearedBy
  <2>2. PairGrants' = {Guess(q) : q \in {p \in Held' : event[p].ip # NoIP}}
    BY <1>2, GrantsOfFewer
  <2> QED
    BY <2>1, <2>2, GuessGrants DEF Guesses
<1>5. CASE event[r].ip \in IPs
  <2>1. event[r].ip # NoIP
    BY <1>5, SentinelAssumption
  <2>2. \A q \in Held : q \in ClearedBy(r) <=> Pair(q) = Pair(r)
    BY <1>1, <1>3, <2>1 DEF ClearedBy, SamePair, SameEmail, SameIP, SameScope, Pair
  <2>3. Held' = {q \in Held : Pair(q) # <<event[r].email, event[r].ip>>}
    BY <1>2, <2>2 DEF Pair
  <2> QED
    BY <1>1, <1>5, <2>3, ForgivenPair
<1> QED
  BY <1>1, <1>4, <1>5

LEMMA ClearResets ==
    ASSUME IInv, [Next]_vars, NEW email \in Emails, NEW ip \in IPs, ClearPair(email, ip)
    PROVE  \E k \in Emails \X IPs : GuessesByPair!Reset(k)
<1>1. Held \subseteq Inserted
  BY DEF Held, Checked, Inserted
<1>2. Held' = {q \in Held : Pair(q) # <<email, ip>>}
  BY <1>1 DEF ClearPair, Held, Checked, Pair
<1> QED
  BY <1>2, ForgivenPair

LEMMA PairStep ==
    ASSUME IInv, GuessesKept', [Next]_vars
    PROVE  [\/ \E g \in GuessesByPair!Grants : GuessesByPair!Grant(g)
            \/ \E k \in Emails \X IPs : GuessesByPair!Reset(k)]_PairGrants
<1>1. ASSUME Held' = Held PROVE PairGrants' = PairGrants
  BY <1>1, GrantsOfFewer, GuessGrants DEF Guesses
<1>2. ASSUME NEW r \in Requests,
             Create(r) \/ Insert(r) \/ Refuse(r) \/ Crash(r) \/ WrongPassword(r)
      PROVE  PairGrants' = PairGrants
  <2>1. Held' = Held
    BY <1>2 DEF Create, BuildRow, Insert, InsertRow, Refuse, DeleteRefused, Crash,
                WrongPassword, Held, Checked, IInv, TypeOK
  <2> QED
    BY <1>1, <2>1
<1>3. CASE DeleteExpired \/ PassTime \/ UNCHANGED vars
  <2>1. Held' = Held
    BY <1>3 DEF DeleteExpired, PassTime, Tick, vars, Held, Checked
  <2> QED
    BY <1>1, <2>1
<1> QED
  BY <1>2, <1>3, CountGrants, SuccessResets, ClearResets DEF Next

(***************************************************************************)
(* README.md "Login", the limit for one email from one IP: LoginThrottle   *)
(* grants guesses as the abstract limit does, and only a success of the    *)
(* pair, a completed reset or an accepted invite lifts it (record_attempt, *)
(* clear_attempt, LoginFailureService.clear).                              *)
(***************************************************************************)
THEOREM PairLimitImplemented == Spec => PairLimitHolds
<1>1. Init => GuessesByPair!Init
  BY DEF Init, PairGrants, Held, Checked, GuessesByPair!Init
<1>2. IInv => GuessesKept
  BY GuessesCapped, GuessesSpaced DEF GuessesKept
<1>3. IInv /\ GuessesKept' /\ [Next]_vars
        => [\/ \E g \in GuessesByPair!Grants : GuessesByPair!Grant(g)
            \/ \E k \in Emails \X IPs : GuessesByPair!Reset(k)]_PairGrants
  BY PairStep
<1> QED
  BY <1>1, <1>2, <1>3, IInvHolds, PTL DEF Spec, PairLimitHolds, GuessesByPair!ResettableSpec
=============================================================================
