-------------------------- MODULE MailTasksProofs --------------------------
(***************************************************************************)
(* Proofs about MailTasks: its safety, whatever fails how often.           *)
(***************************************************************************)
EXTENDS MailTasks, TLAPS

Attempt == [phase : Phases, message : Message, stale : BOOLEAN]

\* What is being mailed is a link of the present, or known to be of the past.
SendsWhatQualifies ==
    \A w \in Workers :
        attempt[w].phase = "sending" /\ ~attempt[w].stale => attempt[w].message.mailing \in qualifies

\* Only a task with a retry left is being retried.
RetriesLeft ==
    \A w \in Workers : attempt[w].phase = "retrying" => attempt[w].message.retries < MaxRetries

IInv == TypeOK /\ SendsWhatQualifies /\ RetriesLeft

-----------------------------------------------------------------------------
(* What the steps share. *)

LEMMA MessageTyped ==
    /\ \A m \in Mailings : FirstTry(m) \in Message /\ FirstTry(m).mailing = m
    /\ \A message \in Message : message.retries < MaxRetries =>
         NextTry(message) \in Message /\ NextTry(message).mailing = message.mailing
<1>1. \A m \in Mailings : FirstTry(m) \in Message /\ FirstTry(m).mailing = m
    BY BoundsAssumption DEF Message, FirstTry
<1>2. ASSUME NEW message \in Message, message.retries < MaxRetries
      PROVE  NextTry(message) \in Message /\ NextTry(message).mailing = message.mailing
    <2>1. message.retries + 1 \in 0 .. MaxRetries /\ 0 \in 0 .. DeliveryLimit - 1
        BY <1>2, BoundsAssumption DEF Message
    <2>. QED BY <2>1 DEF Message, NextTry
<1>. QED BY <1>1, <1>2

LEMMA StoredTyped == ASSUME NEW m \in Mailings PROVE Stored(m) \subseteq 0 .. 2
BY DEF Stored

\* A worker with something to do has a message.
LEMMA BusyHasMessage ==
    ASSUME TypeOK, NEW w \in Workers, Busy(w) PROVE attempt[w] \in Attempt
BY DEF TypeOK, Busy, Idle, Attempt

LEMMA HeldIsBusy ==
    ASSUME TypeOK, NEW w \in held PROVE w \in Workers /\ Busy(w) /\ attempt[w] \in Attempt
BY BusyHasMessage DEF TypeOK

\* The queue takes a message back unless it was delivered often enough.
LEMMA RequeuedKeeps ==
    ASSUME TypeOK, NEW message \in Message, queue' = Requeued(message)
    PROVE  /\ queue' \in [Message -> Nat]
           /\ \A other \in Message : queue'[other] >= queue[other]
           /\ \/ message.deliveries + 1 = DeliveryLimit
              \/ \E back \in Message : back.mailing = message.mailing /\ queue'[back] > 0
<1>1. message.deliveries \in 0 .. DeliveryLimit - 1 /\ DeliveryLimit \in Nat \ {0}
    BY BoundsAssumption DEF Message
<1>2. CASE message.deliveries + 1 < DeliveryLimit
    <2>. DEFINE back == [message EXCEPT !.deliveries = @ + 1]
    <2>1. back \in Message /\ back.mailing = message.mailing
        BY <1>1, <1>2 DEF Message
    <2>2. queue' = [queue EXCEPT ![back] = @ + 1]
        BY <1>2 DEF Requeued
    <2>. HIDE DEF back
    <2>. QED BY <2>1, <2>2 DEF TypeOK
<1>3. CASE ~(message.deliveries + 1 < DeliveryLimit)
    BY <1>1, <1>3 DEF Requeued, TypeOK
<1>. QED BY <1>2, <1>3

\* A mailing keeps its copies if none leaves the queue, and none a worker that
\* is not among Freed.
LEMMA CopiesKept ==
    ASSUME TypeOK, queue' \in [Message -> Nat], NEW Freed,
           \A message \in Message : queue'[message] >= queue[message],
           \A w \in held \ Freed : w \in held' /\ attempt'[w].message = attempt[w].message,
           NEW m \in Mailings, HasCopy(m), ~HasCopy(m)'
    PROVE  \E w \in held \intersect Freed : attempt[w].message.mailing = m
<1>1. Ready(m) = {}
    <2>1. \A message \in Message : queue[message] > 0 => queue'[message] > 0
        BY DEF TypeOK
    <2>. QED BY <2>1 DEF HasCopy, Ready
<1>2. PICK w \in held : attempt[w].message.mailing = m
    BY <1>1 DEF HasCopy
<1>3. CASE w \notin Freed
    BY <1>2, <1>3 DEF HasCopy
<1>. QED BY <1>2, <1>3

-----------------------------------------------------------------------------
(* The steps keep the invariant. *)

LEMMA Initially == ASSUME Init PROVE IInv
<1>1. qualifies \subseteq Mailings
    BY DEF Init, Mailings
<1>2. TypeOK
    BY <1>1 DEF Init, TypeOK, Message
<1>. QED BY <1>2 DEF Init, IInv, SendsWhatQualifies, RetriesLeft, Idle

LEMMA PublishType ==
    ASSUME TypeOK, NEW m \in Mailings, Publish(m)
    PROVE  queue' \in [Message -> Nat] /\ \A message \in Message : queue'[message] >= queue[message]
<1>1. PICK copies \in Stored(m) : queue' = [queue EXCEPT ![FirstTry(m)] = @ + copies]
    BY DEF Publish
<1>2. copies \in Nat /\ FirstTry(m) \in Message
    BY StoredTyped, MessageTyped
<1>. QED BY <1>1, <1>2 DEF TypeOK

LEMMA PagesType ==
    ASSUME IInv, NEW m \in Mailings, Enroll(m) \/ Withdraw(m) \/ Ask(m) \/ Expire(m)
    PROVE  IInv'
<1>1. CASE Enroll(m)
    <2>1. queue' \in [Message -> Nat]
        BY <1>1, PublishType DEF Enroll, IInv, TypeOK
    <2>2. limited' \subseteq Throttled
        BY <1>1 DEF Enroll, IInv, TypeOK, Throttled
    <2>. QED BY <1>1, <2>1, <2>2 DEF Enroll, IInv, TypeOK, SendsWhatQualifies, RetriesLeft, Busy
<1>2. CASE Withdraw(m)
    <2>1. \A w \in Workers :
            attempt'[w] = IF attempt[w].phase = "sending" /\ attempt[w].message.mailing = m
                          THEN [attempt[w] EXCEPT !.stale = TRUE] ELSE attempt[w]
        BY <1>2 DEF Withdraw
    <2>2. \A w \in Workers :
            /\ attempt'[w] \in {Idle} \union Attempt
            /\ attempt'[w].phase = attempt[w].phase
            /\ attempt'[w].message = attempt[w].message
            /\ attempt'[w].phase = "sending" /\ attempt'[w].message.mailing = m => attempt'[w].stale
            /\ attempt'[w].phase = "sending" /\ ~attempt'[w].stale => ~attempt[w].stale
        <3>1. SUFFICES ASSUME NEW w \in Workers
                       PROVE /\ attempt'[w] \in {Idle} \union Attempt
                             /\ attempt'[w].phase = attempt[w].phase
                             /\ attempt'[w].message = attempt[w].message
                             /\ attempt'[w].phase = "sending" /\ attempt'[w].message.mailing = m => attempt'[w].stale
                             /\ attempt'[w].phase = "sending" /\ ~attempt'[w].stale => ~attempt[w].stale
            OBVIOUS
        <3>2. CASE attempt[w].phase = "sending" /\ attempt[w].message.mailing = m
            <4>1. attempt[w] \in Attempt
                BY <3>2, BusyHasMessage DEF Busy, IInv
            <4>. QED BY <2>1, <3>2, <4>1 DEF Attempt
        <3>3. CASE ~(attempt[w].phase = "sending" /\ attempt[w].message.mailing = m)
            BY <2>1, <3>3 DEF IInv, TypeOK, Attempt
        <3>. QED BY <3>2, <3>3
    <2>3. attempt' \in [Workers -> {Idle} \union Attempt]
        BY <1>2, <2>2 DEF Withdraw
    <2>4. TypeOK'
        BY <1>2, <2>2, <2>3 DEF Withdraw, IInv, TypeOK, Busy, Attempt
    <2>5. SendsWhatQualifies'
        BY <1>2, <2>2 DEF Withdraw, IInv, SendsWhatQualifies
    <2>6. RetriesLeft'
        BY <2>2 DEF IInv, RetriesLeft
    <2>. QED BY <2>4, <2>5, <2>6 DEF IInv
<1>3. CASE Ask(m)
    <2>1. queue' \in [Message -> Nat]
        BY <1>3, PublishType DEF Ask, IInv
    <2>. QED BY <1>3, <2>1 DEF Ask, IInv, TypeOK, SendsWhatQualifies, RetriesLeft, Busy
<1>4. CASE Expire(m)
    BY <1>4 DEF Expire, IInv, TypeOK, SendsWhatQualifies, RetriesLeft, Busy
<1>. QED BY <1>1, <1>2, <1>3, <1>4

\* A worker moves on: its attempt is idle or well typed, it sends only what
\* qualifies, and what it holds is no more than it held.
LEMMA WorkerMoves ==
    ASSUME IInv, NEW w \in Workers, NEW a \in {Idle} \union Attempt,
           attempt' = [attempt EXCEPT ![w] = a],
           a.phase = "sending" /\ ~a.stale => a.message.mailing \in qualifies,
           a.phase = "retrying" => a.message.retries < MaxRetries,
           queue' \in [Message -> Nat],
           held' \subseteq held \union {w},
           w \in held' => a.phase # "idle",
           received' \subseteq qualifies,
           UNCHANGED <<qualifies, limited, calm>>
    PROVE  IInv'
<1>1. \A v \in Workers : attempt'[v] = IF v = w THEN a ELSE attempt[v]
    BY DEF IInv, TypeOK
<1>2. attempt' \in [Workers -> {Idle} \union Attempt]
    BY DEF IInv, TypeOK, Attempt
<1>3. held' \subseteq {v \in Workers : Busy(v)}'
    BY <1>1 DEF IInv, TypeOK, Busy
<1>4. TypeOK'
    BY <1>2, <1>3 DEF IInv, TypeOK, Attempt
<1>5. SendsWhatQualifies'
    BY <1>1 DEF IInv, SendsWhatQualifies
<1>6. RetriesLeft'
    BY <1>1 DEF IInv, RetriesLeft
<1>. QED BY <1>4, <1>5, <1>6 DEF IInv

LEMMA EndedMoves ==
    ASSUME IInv, NEW w \in Workers, Busy(w), attempt' = Ended(w), queue' \in [Message -> Nat],
           UNCHANGED held, received' \subseteq qualifies, UNCHANGED <<qualifies, limited, calm>>
    PROVE  IInv'
<1>. DEFINE a == [attempt[w] EXCEPT !.phase = "ended", !.stale = FALSE]
<1>1. attempt[w] \in Attempt
    BY BusyHasMessage DEF IInv
<1>2. a \in Attempt /\ a.phase = "ended"
    BY <1>1 DEF Attempt, Phases
<1>3. attempt' = [attempt EXCEPT ![w] = a]
    BY DEF Ended, IInv, TypeOK
<1>. HIDE DEF a
<1>. QED BY <1>2, <1>3, WorkerMoves

LEMMA IdleMoves ==
    ASSUME IInv, NEW w \in Workers, attempt' = [attempt EXCEPT ![w] = Idle],
           queue' \in [Message -> Nat], held' \subseteq held \ {w},
           UNCHANGED <<qualifies, limited, received, calm>>
    PROVE  IInv'
<1>1. Idle.phase = "idle"
    BY DEF Idle
<1>2. received' \subseteq qualifies /\ held' \subseteq held \union {w} /\ w \notin held'
    BY DEF IInv, TypeOK
<1>. QED BY <1>1, <1>2, WorkerMoves

LEMMA RetryPublished ==
    ASSUME IInv, NEW w \in Workers, PublishRetry(w)
    PROVE  queue' \in [Message -> Nat] /\ \A message \in Message : queue'[message] >= queue[message]
<1>1. attempt[w] \in Attempt
    BY BusyHasMessage DEF IInv, PublishRetry, Busy
<1>2. PICK copies \in Stored(attempt[w].message.mailing) :
        queue' = [queue EXCEPT ![NextTry(attempt[w].message)] = @ + copies]
    BY DEF PublishRetry
<1>3. attempt[w].message \in Message /\ attempt[w].message.mailing \in Mailings
    BY <1>1 DEF Attempt, Message
<1>4. attempt[w].message.retries < MaxRetries
    BY DEF PublishRetry, IInv, RetriesLeft
<1>5. copies \in Nat /\ NextTry(attempt[w].message) \in Message
    BY <1>3, <1>4, StoredTyped, MessageTyped
<1>. QED BY <1>2, <1>5 DEF IInv, TypeOK

LEMMA DeliverMoves ==
    ASSUME IInv, NEW w \in Workers, NEW message \in Message, Deliver(w, message)
    PROVE  IInv'
<1>. DEFINE a == [phase |-> "running", message |-> message, stale |-> FALSE]
<1>1. a \in Attempt /\ a.phase = "running"
    BY DEF Attempt, Phases
<1>2. queue' \in [Message -> Nat]
    BY DEF Deliver, IInv, TypeOK
<1>3. attempt' = [attempt EXCEPT ![w] = a] /\ held' = held \union {w} /\ received' \subseteq qualifies
      /\ UNCHANGED <<qualifies, limited, calm>>
    BY DEF Deliver, IInv, TypeOK
<1>. HIDE DEF a
<1>. QED BY <1>1, <1>2, <1>3, WorkerMoves

LEMMA ReadAccountMoves == ASSUME IInv, NEW w \in Workers, ReadAccount(w) PROVE IInv'
<1>. DEFINE phase == IF attempt[w].message.mailing \in qualifies THEN "sending" ELSE "ended"
            a == [attempt[w] EXCEPT !.phase = phase]
<1>1. attempt[w] \in Attempt
    BY BusyHasMessage DEF IInv, ReadAccount, Busy
<1>2. phase \in {"sending", "ended"} /\ (phase = "sending" => attempt[w].message.mailing \in qualifies)
    OBVIOUS
<1>3. attempt' = [attempt EXCEPT ![w] = a]
    BY DEF ReadAccount, Moved, IInv, TypeOK
<1>. HIDE DEF phase
<1>4. a \in Attempt /\ a.phase = phase /\ a.message = attempt[w].message
    BY <1>1, <1>2 DEF Attempt, Phases
<1>. HIDE DEF a
<1>5. queue' \in [Message -> Nat] /\ held' = held /\ received' \subseteq qualifies
      /\ UNCHANGED <<qualifies, limited, calm>>
    BY DEF ReadAccount, IInv, TypeOK
<1>. QED BY <1>2, <1>3, <1>4, <1>5, WorkerMoves

LEMMA FailTemporarilyMoves == ASSUME IInv, NEW w \in Workers, FailTemporarily(w) PROVE IInv'
<1>1. queue' \in [Message -> Nat] /\ held' = held /\ received' \subseteq qualifies
      /\ UNCHANGED <<qualifies, limited, calm>> /\ Busy(w)
    BY DEF FailTemporarily, IInv, TypeOK, Busy
<1>2. CASE attempt[w].message.retries < MaxRetries
    <2>. DEFINE a == [attempt[w] EXCEPT !.phase = "retrying", !.stale = FALSE]
    <2>1. attempt[w] \in Attempt
        BY <1>1, BusyHasMessage DEF IInv
    <2>2. a \in Attempt /\ a.phase = "retrying" /\ a.message = attempt[w].message
        BY <2>1 DEF Attempt, Phases
    <2>3. attempt' = [attempt EXCEPT ![w] = a]
        BY <1>2 DEF FailTemporarily, IInv, TypeOK
    <2>. HIDE DEF a
    <2>. QED BY <1>1, <1>2, <2>2, <2>3, WorkerMoves
<1>3. CASE ~(attempt[w].message.retries < MaxRetries)
    BY <1>1, <1>3, EndedMoves DEF FailTemporarily
<1>. QED BY <1>2, <1>3

LEMMA SendMoves == ASSUME IInv, NEW w \in Workers, Send(w) PROVE IInv'
<1>1. received' \subseteq qualifies
    BY DEF Send, IInv, TypeOK, SendsWhatQualifies
<1>2. queue' \in [Message -> Nat] /\ Busy(w)
    BY DEF Send, IInv, TypeOK, Busy
<1>. QED BY <1>1, <1>2, EndedMoves DEF Send

LEMMA StepMoves == ASSUME IInv, NEW w \in Workers, Step(w) PROVE IInv'
<1>1. CASE RefusePermanently(w) \/ Fail(w)
    <2>1. queue' \in [Message -> Nat] /\ Busy(w) /\ received' \subseteq qualifies
        BY <1>1 DEF RefusePermanently, Fail, IInv, TypeOK, Busy
    <2>. QED BY <1>1, <2>1, EndedMoves DEF RefusePermanently, Fail
<1>2. CASE PublishRetry(w)
    <2>1. Busy(w) /\ received' \subseteq qualifies
        BY <1>2 DEF PublishRetry, IInv, TypeOK, Busy
    <2>. QED BY <1>2, <2>1, RetryPublished, EndedMoves DEF PublishRetry
<1>3. CASE Ack(w) \/ Cancel(w)
    <2>1. queue' \in [Message -> Nat]
        BY <1>3 DEF Ack, Cancel, IInv, TypeOK
    <2>. QED BY <1>3, <2>1, IdleMoves DEF Ack, Cancel
<1>. QED BY <1>1, <1>2, <1>3, ReadAccountMoves, FailTemporarilyMoves, SendMoves DEF Step

LEMMA KillMoves == ASSUME IInv, NEW w \in Workers, Kill(w) PROVE IInv'
<1>1. queue' \in [Message -> Nat]
    <2>1. CASE w \in held
        <3>1. attempt[w].message \in Message
            BY <2>1, HeldIsBusy DEF IInv, Attempt
        <3>. QED BY <2>1, <3>1, RequeuedKeeps DEF Kill, IInv
    <2>2. CASE w \notin held
        BY <2>2 DEF Kill, IInv, TypeOK
    <2>. QED BY <2>1, <2>2
<1>. QED BY <1>1, IdleMoves DEF Kill

LEMMA LoseConnectionMoves == ASSUME IInv, NEW w \in Workers, LoseConnection(w) PROVE IInv'
<1>1. attempt[w].message \in Message
    BY HeldIsBusy DEF LoseConnection, IInv, Attempt
<1>2. queue' \in [Message -> Nat]
    BY <1>1, RequeuedKeeps DEF LoseConnection, IInv
<1>. QED BY <1>2 DEF LoseConnection, IInv, TypeOK, SendsWhatQualifies, RetriesLeft, Busy

LEMMA Inductive == ASSUME IInv, [Next]_vars PROVE IInv'
<1>1. ASSUME NEW m \in Mailings, DeliverSome(m) PROVE IInv'
    BY <1>1, DeliverMoves DEF DeliverSome, Ready
<1>2. CASE CalmDown
    BY <1>2 DEF CalmDown, IInv, TypeOK, SendsWhatQualifies, RetriesLeft, Busy
<1>3. CASE UNCHANGED vars
    BY <1>3 DEF vars, IInv, TypeOK, SendsWhatQualifies, RetriesLeft, Busy
<1>. QED BY <1>1, <1>2, <1>3, PagesType, StepMoves, KillMoves, LoseConnectionMoves DEF Next

LEMMA Invariance == Spec => []IInv
BY Initially, Inductive, PTL DEF Spec

-----------------------------------------------------------------------------
\* The variables keep their types, and only qualifying mailings are reached:
\* a link that was withdrawn while it was being mailed is not taken for one.
THEOREM TypeCorrect == Spec => []TypeOK
BY Invariance, PTL DEF IInv

\* What a step takes from the broker, it takes from one worker.
LEMMA LastCopyGoes ==
    ASSUME IInv, [Next]_vars, NEW m \in Mailings, HasCopy(m), ~HasCopy(m)'
    PROVE  \E w \in held : /\ attempt[w].message.mailing = m
                           /\ \/ attempt[w].phase = "ended"
                              \/ attempt[w].message.deliveries + 1 = DeliveryLimit
<1>. DEFINE Grows == queue' \in [Message -> Nat] /\ \A message \in Message : queue'[message] >= queue[message]
            Keeps(Freed) == \A w \in held \ Freed : w \in held' /\ attempt'[w].message = attempt[w].message
<1>1. TypeOK /\ \A w \in held : w \in Workers /\ Busy(w) /\ attempt[w] \in Attempt
    BY HeldIsBusy DEF IInv
<1>. HIDE DEF Grows, Keeps
<1>0. ASSUME NEW Freed, Grows, Keeps(Freed)
      PROVE  \E w \in held \intersect Freed : attempt[w].message.mailing = m
    BY <1>0, <1>1, CopiesKept DEF Grows, Keeps
<1>2. Grows /\ Keeps({}) => FALSE
    BY <1>0
<1>3. ASSUME NEW w \in Workers, Grows, Keeps({w}) PROVE w \in held /\ attempt[w].message.mailing = m
    BY <1>0, <1>3
<1>. USE DEF Grows, Keeps
<1>4. UNCHANGED queue => Grows
    BY <1>1 DEF TypeOK
\* No page takes anything.
<1>5. ASSUME NEW n \in Mailings, Enroll(n) \/ Withdraw(n) \/ Ask(n) \/ Expire(n) PROVE FALSE
    <2>1. Grows
        BY <1>1, <1>4, <1>5, PublishType DEF Enroll, Withdraw, Ask, Expire
    <2>2. Keeps({})
        <3>1. ASSUME NEW w \in held PROVE attempt'[w].message = attempt[w].message
            BY <1>1, <1>5 DEF Enroll, Withdraw, Ask, Expire, Attempt
        <3>. QED BY <1>5, <3>1 DEF Enroll, Withdraw, Ask, Expire
    <2>. QED BY <1>2, <2>1, <2>2
\* A delivery hands a copy on.
<1>6. ASSUME NEW w \in Workers, NEW message \in Message, Deliver(w, message) PROVE FALSE
    <2>1. w \notin held /\ w \in held' /\ attempt'[w].message = message
        BY <1>1, <1>6 DEF Deliver, TypeOK
    <2>2. message.mailing # m
        BY <2>1 DEF HasCopy
    <2>3. \A other \in Message : other # message => queue'[other] = queue[other]
        BY <1>1, <1>6 DEF Deliver, TypeOK
    <2>4. \A v \in held : v \in held' /\ attempt'[v] = attempt[v]
        BY <1>1, <1>6, <2>1 DEF Deliver, TypeOK
    <2>. QED BY <2>2, <2>3, <2>4 DEF HasCopy, Ready
\* What ends a task keeps its message until the acknowledgement.
<1>7. ASSUME NEW w \in Workers,
             ReadAccount(w) \/ Send(w) \/ RefusePermanently(w) \/ FailTemporarily(w) \/ Fail(w)
               \/ PublishRetry(w) \/ Cancel(w)
      PROVE  FALSE
    <2>1. Grows
        BY <1>1, <1>4, <1>7, RetryPublished
           DEF ReadAccount, Send, RefusePermanently, FailTemporarily, Fail, Cancel
    <2>2. held' = held /\ \A v \in held \ {w} : attempt'[v] = attempt[v]
        BY <1>1, <1>7 DEF ReadAccount, Send, RefusePermanently, FailTemporarily, Fail, PublishRetry,
                          Cancel, Moved, Ended, TypeOK
    <2>3. w \in held => attempt'[w].message = attempt[w].message
        BY <1>1, <1>7 DEF ReadAccount, Send, RefusePermanently, FailTemporarily, Fail, PublishRetry,
                          Cancel, Moved, Ended, TypeOK, Attempt
    <2>. QED BY <1>2, <2>1, <2>2, <2>3
<1>8. ASSUME NEW w \in Workers, Ack(w)
      PROVE  w \in held /\ attempt[w].message.mailing = m /\ attempt[w].phase = "ended"
    <2>1. Grows /\ Keeps({w})
        BY <1>1, <1>4, <1>8 DEF Ack, TypeOK
    <2>. QED BY <1>3, <1>8, <2>1 DEF Ack
<1>9. ASSUME NEW w \in Workers, Kill(w) \/ LoseConnection(w)
      PROVE  /\ w \in held /\ attempt[w].message.mailing = m
             /\ attempt[w].message.deliveries + 1 = DeliveryLimit
    <2>1. Keeps({w})
        BY <1>1, <1>9 DEF Kill, LoseConnection, TypeOK
    <2>2. CASE w \notin held
        <3>1. Grows
            BY <1>4, <1>9, <2>2 DEF Kill, LoseConnection
        <3>. QED BY <1>3, <2>1, <2>2, <3>1
    <2>3. CASE w \in held
        <3>1. attempt[w].message \in Message /\ queue' = Requeued(attempt[w].message)
            BY <1>1, <1>9, <2>3 DEF Attempt, Kill, LoseConnection
        <3>2. Grows
            BY <1>1, <3>1, RequeuedKeeps
        <3>3. attempt[w].message.mailing = m
            BY <1>3, <2>1, <3>2
        <3>4. \A back \in Message : back.mailing = m => ~(queue'[back] > 0)
            BY DEF HasCopy, Ready
        <3>. QED BY <1>1, <2>3, <3>1, <3>3, <3>4, RequeuedKeeps
    <2>. QED BY <2>2, <2>3
<1>10. CASE CalmDown \/ UNCHANGED vars
    <2>1. Grows /\ Keeps({})
        BY <1>4, <1>10 DEF CalmDown, vars
    <2>. QED BY <1>2, <2>1
<1>. HIDE DEF Grows, Keeps
<1>11. (\E n \in Mailings : DeliverSome(n)) => FALSE
    BY <1>6 DEF DeliverSome, Ready
<1>. QED BY <1>5, <1>7, <1>8, <1>9, <1>10, <1>11 DEF Next, Step

\* README.md "Background jobs": whatever is killed or loses its connection, the
\* broker's last copy of a mailing goes only with an attempt that came to an
\* end, or after as many deliveries as the queue allows.
THEOREM KeptUntilSettledAlways == Spec => KeptUntilSettled
<1>1. IInv /\ [Next]_vars =>
        [\A m \in Mailings : HasCopy(m) /\ ~HasCopy(m)' =>
           \E w \in held : /\ attempt[w].message.mailing = m
                           /\ \/ attempt[w].phase = "ended"
                              \/ attempt[w].message.deliveries + 1 = DeliveryLimit]_vars
    BY LastCopyGoes
<1>. QED BY <1>1, Invariance, PTL DEF Spec, KeptUntilSettled
-----------------------------------------------------------------------------
(* Retries and redeliveries spend a budget. *)

\* The messages a delivery can leave behind: its retry, and itself delivered
\* once more.  Either has less left of MaxRetries and DeliveryLimit, in that
\* order.
Again(message) == [message EXCEPT !.deliveries = @ + 1]
Successors(message) ==
    {next \in {NextTry(message), Again(message)} : next \in Message}

\* What a publish of this message adds: a second copy when the confirmation of
\* the first is lost.
Published(message) == \E copies \in 1 .. 2 : queue' = [queue EXCEPT ![message] = @ + copies]

\* Copies of a message come from a page, or from a worker that had a message
\* of more budget and can do the same no second time: its attempt ends with
\* the one publish of its retry, or the broker takes its message from it and
\* adds one copy.
CopiesComeFrom ==
    \A message \in Message : queue'[message] > queue[message] =>
        \/ /\ Enroll(message.mailing) \/ Ask(message.mailing)
           /\ message = FirstTry(message.mailing) /\ Published(message)
        \/ \E w \in Workers :
             /\ Busy(w)
             /\ message \in Successors(attempt[w].message)
             /\ \/ /\ message = NextTry(attempt[w].message) /\ Published(message)
                   /\ attempt[w].phase = "retrying" /\ attempt'[w].phase = "ended"
                \/ /\ message = Again(attempt[w].message)
                   /\ queue' = [queue EXCEPT ![message] = @ + 1]
                   /\ w \in held /\ w \notin held'

\* Successors have less budget, so no chain of them is longer than
\* (MaxRetries + 1) * DeliveryLimit.
LEMMA SuccessorsHaveLess ==
    ASSUME NEW message \in Message, NEW next \in Successors(message)
    PROVE  /\ next.mailing = message.mailing
           /\ \/ next.retries = message.retries + 1
              \/ next.retries = message.retries /\ next.deliveries = message.deliveries + 1
<1>1. NextTry(message).mailing = message.mailing /\ NextTry(message).retries = message.retries + 1
    BY DEF NextTry, Message
<1>2. /\ Again(message).mailing = message.mailing /\ Again(message).retries = message.retries
      /\ Again(message).deliveries = message.deliveries + 1
    BY DEF Again, Message
<1>. QED BY <1>1, <1>2 DEF Successors

LEMMA PagesPublishFirstTries ==
    ASSUME IInv, NEW m \in Mailings, Publish(m), Enroll(m) \/ Ask(m)
    PROVE  CopiesComeFrom
<1>1. PICK copies \in Stored(m) : queue' = [queue EXCEPT ![FirstTry(m)] = @ + copies]
    BY DEF Publish
<1>2. copies \in 0 .. 2
    BY StoredTyped
<1>3. \A message \in Message :
        queue'[message] > queue[message] => message = FirstTry(m) /\ copies \in 1 .. 2
    BY <1>1, <1>2 DEF IInv, TypeOK
<1>. QED BY <1>1, <1>3, MessageTyped DEF CopiesComeFrom, Published

LEMMA RequeuedOnce ==
    ASSUME IInv, NEW w \in held, w \notin held', queue' = Requeued(attempt[w].message)
    PROVE  CopiesComeFrom
<1>. DEFINE old == attempt[w].message
<1>1. w \in Workers /\ Busy(w) /\ old \in Message
    BY HeldIsBusy DEF IInv, Attempt
<1>2. old.deliveries \in 0 .. DeliveryLimit - 1 /\ DeliveryLimit \in Nat \ {0}
    BY <1>1, BoundsAssumption DEF Message
<1>3. CASE old.deliveries + 1 < DeliveryLimit
    <2>1. Again(old) \in Message /\ queue' = [queue EXCEPT ![Again(old)] = @ + 1]
        BY <1>1, <1>2, <1>3 DEF Message, Requeued, Again
    <2>2. \A message \in Message : queue'[message] > queue[message] => message = Again(old)
        BY <2>1 DEF IInv, TypeOK
    <2>. QED BY <1>1, <2>1, <2>2 DEF CopiesComeFrom, Successors
<1>4. CASE ~(old.deliveries + 1 < DeliveryLimit)
    BY <1>4 DEF Requeued, CopiesComeFrom, IInv, TypeOK
<1>. QED BY <1>3, <1>4

LEMMA RetriedOnce ==
    ASSUME IInv, NEW w \in Workers, PublishRetry(w)
    PROVE  CopiesComeFrom
<1>. DEFINE old == attempt[w].message
<1>1. Busy(w) /\ attempt[w].phase = "retrying" /\ attempt[w] \in Attempt
    BY BusyHasMessage DEF PublishRetry, Busy, IInv
<1>2. attempt'[w].phase = "ended"
    BY <1>1 DEF PublishRetry, Ended, IInv, TypeOK, Attempt
<1>3. PICK copies \in Stored(old.mailing) : queue' = [queue EXCEPT ![NextTry(old)] = @ + copies]
    BY DEF PublishRetry
<1>4. copies \in 0 .. 2
    BY <1>1, StoredTyped DEF Attempt, Message
<1>5. old \in Message /\ NextTry(old) \in Message
    BY <1>1, MessageTyped DEF Attempt, IInv, RetriesLeft
<1>6. \A message \in Message : queue'[message] > queue[message] => message = NextTry(old) /\ copies \in 1 .. 2
    BY <1>3, <1>4 DEF IInv, TypeOK
<1>. QED BY <1>1, <1>2, <1>3, <1>5, <1>6 DEF CopiesComeFrom, Successors, Published

LEMMA NothingAdded ==
    ASSUME \A message \in Message : ~(queue'[message] > queue[message])
    PROVE  CopiesComeFrom
BY DEF CopiesComeFrom

LEMMA EveryStepSpends == ASSUME IInv, [Next]_vars PROVE CopiesComeFrom
<1>1. ASSUME NEW m \in Mailings, Enroll(m) \/ Withdraw(m) \/ Ask(m) \/ Expire(m)
      PROVE  CopiesComeFrom
    <2>1. ((Enroll(m) \/ Ask(m)) /\ Publish(m)) \/ UNCHANGED queue
        BY <1>1 DEF Enroll, Withdraw, Ask, Expire
    <2>. QED BY <2>1, PagesPublishFirstTries, NothingAdded DEF IInv, TypeOK
<1>2. ASSUME NEW m \in Mailings, DeliverSome(m)
      PROVE  CopiesComeFrom
    <2>1. PICK message \in Message : queue' = [queue EXCEPT ![message] = @ - 1] /\ queue[message] > 0
        BY <1>2 DEF DeliverSome, Ready, Deliver
    <2>2. \A other \in Message : ~(queue'[other] > queue[other])
        BY <2>1 DEF IInv, TypeOK
    <2>. QED BY <2>2, NothingAdded
<1>3. ASSUME NEW w \in Workers, Step(w)
      PROVE  CopiesComeFrom
    <2>1. PublishRetry(w) \/ UNCHANGED queue
        BY <1>3 DEF Step, ReadAccount, Send, RefusePermanently, FailTemporarily, Fail, Ack, Cancel
    <2>. QED BY <2>1, RetriedOnce, NothingAdded DEF IInv, TypeOK
<1>4. ASSUME NEW w \in Workers, Kill(w) \/ LoseConnection(w)
      PROVE  CopiesComeFrom
    <2>1. \/ w \in held /\ w \notin held' /\ queue' = Requeued(attempt[w].message)
          \/ UNCHANGED queue
        BY <1>4 DEF Kill, LoseConnection
    <2>. QED BY <2>1, RequeuedOnce, NothingAdded DEF IInv, TypeOK
<1>5. CASE CalmDown \/ UNCHANGED vars
    BY <1>5, NothingAdded DEF CalmDown, vars, IInv, TypeOK
<1>. QED BY <1>1, <1>2, <1>3, <1>4, <1>5 DEF Next

\* max_retries and the delivery limit: whatever servers, workers and the broker
\* do, only pages add a mail to the queue for nothing; every other copy is paid
\* for from the budget of one delivery, which publishes one retry, stored twice
\* at most, and is delivered once more at most.  A publish leaves finitely many
\* copies behind however often confirmations are lost: this is why Drains holds.
THEOREM BudgetsSpent == Spec => [][CopiesComeFrom]_vars
<1>1. IInv /\ [Next]_vars => [CopiesComeFrom]_vars
    BY EveryStepSpends
<1>. QED BY <1>1, Invariance, PTL DEF Spec
=============================================================================
