----------------------------- MODULE MailTasks -----------------------------
(***************************************************************************)
(* The mail tasks (users/tasks.py, users/services/email_service.py) and    *)
(* their way there: a page commits its rows and then publishes, the queue  *)
(* keeps a message until it is acknowledged, a worker reads the account    *)
(* as it is now, sends, and acknowledges last.  Publishes lose their       *)
(* confirmation, connections drop, worker processes die, mail servers and  *)
(* brokers refuse; Celery and RabbitMQ are modelled from how               *)
(* config/settings.py sets them.                                           *)
(***************************************************************************)
EXTENDS Naturals, FiniteSets

LOCAL INSTANCE FiniteSetsExt

CONSTANTS Verifications,    \* one verification link per consumer
          Resets,           \* one reset link per account with a password
          Invites,          \* one invite per account without
          Workers,          \* the worker processes of the email queue
          MaxRetries,       \* max_retries of the tasks
          DeliveryLimit,    \* times a quorum queue delivers one message
          MaxQueued,        \* bound: copies of a mailing that keep pages from adding more
          MaxCopies,        \* bound: copies of a mailing, attempts included, that lost
                            \* confirmations may double it to
          NoMessage         \* what an idle worker holds

ASSUME MailingsAssumption ==
    /\ Verifications \intersect Resets = {}
    /\ (Verifications \union Resets) \intersect Invites = {}
ASSUME BoundsAssumption ==
    /\ MaxRetries \in Nat /\ DeliveryLimit \in Nat \ {0}
    /\ MaxQueued \in Nat \ {0} /\ MaxCopies \in Nat

\* A mailing is one kind of mail to one account: all a task carries.
Mailings == Verifications \union Resets \union Invites
\* Those whose repetition asks RequestLimitService.
Throttled == Verifications \union Resets

Message == [mailing : Mailings, retries : 0 .. MaxRetries, deliveries : 0 .. DeliveryLimit - 1]
FirstTry(m) == [mailing |-> m, retries |-> 0, deliveries |-> 0]
\* Task.retry publishes a new message with the same arguments.
NextTry(message) == [message EXCEPT !.retries = @ + 1, !.deliveries = 0]

VARIABLES qualifies,    \* the accounts' rows: mailings the worker's check lets through
          limited,      \* throttled mailings still in their cooldown
          queue,        \* copies of each message ready for delivery
          attempt,      \* what each worker is doing
          held,         \* workers whose message the broker still keeps for them
          received,     \* mailings whose current link is in the inbox
          calm          \* from here on nothing fails any more
vars == <<qualifies, limited, queue, attempt, held, received, calm>>

\* "ended": mailed, skipped, refused, given up, failed or retried; only the
\* acknowledgement is left.
Phases == {"idle", "running", "sending", "retrying", "ended"}

Busy(w) == attempt[w].phase # "idle"
Idle == [phase |-> "idle", message |-> NoMessage, stale |-> FALSE]
Moved(w, phase) == [attempt EXCEPT ![w].phase = phase]
Ended(w) == [attempt EXCEPT ![w].phase = "ended", ![w].stale = FALSE]

Ready(m) == {message \in Message : message.mailing = m /\ queue[message] > 0}
\* A copy that the broker still has, ready or handed to a worker.
HasCopy(m) == Ready(m) # {} \/ \E w \in held : attempt[w].message.mailing = m
Copies(m) == MapThenSumSet(LAMBDA message : queue[message], Ready(m))
                + Cardinality({w \in held : attempt[w].message.mailing = m})
\* Those, and the attempts whose copy the broker has taken back.
Underway(m) == Copies(m) + Cardinality({w \in Workers \ held : Busy(w) /\ attempt[w].message.mailing = m})

Init ==
    /\ qualifies \in SUBSET Resets
    /\ limited = {}
    /\ queue = [message \in Message |-> 0]
    /\ attempt = [w \in Workers |-> Idle]
    /\ held = {}
    /\ received = {}
    /\ calm = FALSE

-----------------------------------------------------------------------------
(* The pages *)

\* A publish, of a page or of Task.retry, tries twice, and the broker stores
\* the message once, never, or twice (when the first confirmation was lost).
Stored(m) ==
    IF calm THEN {1}
    ELSE {copies \in 0 .. 2 : copies = 2 => Underway(m) + 2 =< MaxCopies}

\* Every page publishes right after its commit; a failure is logged and the
\* page answers as usual.  A process that dies in between stores no copy.
Publish(m) ==
    /\ Copies(m) < MaxQueued
    /\ \E copies \in Stored(m) : queue' = [queue EXCEPT ![FirstTry(m)] = @ + copies]

\* A signup, an invite or a change of address commits the account and, for a
\* verification, an unasked row of the limit.  An account that gets a password
\* can ask for reset links from then on.
Enroll(m) ==
    /\ m \notin qualifies
    /\ qualifies' = qualifies \union {m}
    /\ limited' = limited \union ({m} \intersect Verifications)
    /\ IF m \in Resets THEN UNCHANGED queue ELSE Publish(m)
    /\ UNCHANGED <<attempt, held, received, calm>>

\* The link was used, the account was deactivated or deleted, or the address
\* was changed: a mail being sent now carries a link of the past.
Withdraw(m) ==
    /\ m \in qualifies
    /\ qualifies' = qualifies \ {m}
    /\ received' = received \ {m}
    /\ attempt' = [w \in Workers |->
                     IF attempt[w].phase = "sending" /\ attempt[w].message.mailing = m
                     THEN [attempt[w] EXCEPT !.stale = TRUE] ELSE attempt[w]]
    /\ UNCHANGED <<limited, queue, held, calm>>

\* Mutant of Ask: the row of the limit is kept, and nothing is published.
AskRecorded(m) ==
    /\ m \in qualifies \ limited
    /\ limited' = limited \union ({m} \intersect Throttled)
    /\ UNCHANGED <<qualifies, queue, attempt, held, received, calm>>

\* A login with the right password to an unconfirmed account, a reset request,
\* or an admin's resend.  Past the limit the page answers and nothing else
\* happens.
Ask(m) ==
    /\ m \in qualifies \ limited
    /\ limited' = limited \union ({m} \intersect Throttled)
    /\ Publish(m)
    /\ UNCHANGED <<qualifies, attempt, held, received, calm>>

\* The cooldown, or the window of the limit, has passed.
Expire(m) ==
    /\ m \in limited
    /\ limited' = limited \ {m}
    /\ UNCHANGED <<qualifies, queue, attempt, held, received, calm>>

-----------------------------------------------------------------------------
(* The workers *)

Deliver(w, message) ==
    /\ ~Busy(w)
    /\ queue[message] > 0
    /\ queue' = [queue EXCEPT ![message] = @ - 1]
    /\ attempt' = [attempt EXCEPT ![w] = [phase |-> "running", message |-> message, stale |-> FALSE]]
    /\ held' = held \union {w}
    /\ UNCHANGED <<qualifies, limited, received, calm>>

\* The task reads the account and makes the link, or skips the mail.
ReadAccount(w) ==
    /\ attempt[w].phase = "running"
    /\ attempt' = Moved(w, IF attempt[w].message.mailing \in qualifies THEN "sending" ELSE "ended")
    /\ UNCHANGED <<qualifies, limited, queue, held, received, calm>>

Send(w) ==
    /\ attempt[w].phase = "sending"
    /\ attempt' = Ended(w)
    /\ received' = IF attempt[w].stale THEN received
                   ELSE received \union {attempt[w].message.mailing}
    /\ UNCHANGED <<qualifies, limited, queue, held, calm>>

\* A 5xx answer or no STARTTLS: logged, and the task succeeds.
RefusePermanently(w) ==
    /\ ~calm
    /\ attempt[w].phase = "sending"
    /\ attempt' = Ended(w)
    /\ UNCHANGED <<qualifies, limited, queue, held, received, calm>>

\* Any other SMTP answer, a dropped connection or the soft time limit
\* (autoretry_for): tried again, or given up after the last retry.
FailTemporarily(w) ==
    /\ ~calm
    /\ attempt[w].phase \in {"running", "sending"}
    /\ attempt' = IF attempt[w].message.retries < MaxRetries
                  THEN [attempt EXCEPT ![w].phase = "retrying", ![w].stale = FALSE]
                  ELSE Ended(w)
    /\ UNCHANGED <<qualifies, limited, queue, held, received, calm>>

\* Any other exception, one of the database for instance, fails the task, and
\* the hard time limit kills it: both are acknowledged without a retry.
Fail(w) ==
    /\ ~calm
    /\ attempt[w].phase \in {"running", "sending", "retrying"}
    /\ attempt' = Ended(w)
    /\ UNCHANGED <<qualifies, limited, queue, held, received, calm>>

\* Mutant of PublishRetry: the old message is acknowledged first.
PublishRetryLast(w) ==
    /\ attempt[w].phase = "retrying"
    /\ IF w \in held
       THEN held' = held \ {w} /\ UNCHANGED <<queue, attempt>>
       ELSE /\ queue' = [queue EXCEPT ![NextTry(attempt[w].message)] = @ + 1]
            /\ attempt' = Ended(w)
            /\ UNCHANGED held
    /\ UNCHANGED <<qualifies, limited, received, calm>>

\* The retry is published with a delay, before the old message is
\* acknowledged.  When the broker does not confirm it the task is rejected
\* without a requeue: unless the broker stored the retry, the mail is lost.
PublishRetry(w) ==
    /\ attempt[w].phase = "retrying"
    /\ \E copies \in Stored(attempt[w].message.mailing) :
         queue' = [queue EXCEPT ![NextTry(attempt[w].message)] = @ + copies]
    /\ attempt' = Ended(w)
    /\ UNCHANGED <<qualifies, limited, held, received, calm>>

\* Mutant of Ack: the worker is freed, and the broker never told.
AckNever(w) ==
    /\ attempt[w].phase = "ended"
    /\ attempt' = [attempt EXCEPT ![w] = Idle]
    /\ UNCHANGED <<qualifies, limited, queue, held, received, calm>>

\* The acknowledgement reaches the broker, unless it has already requeued the
\* message.
Ack(w) ==
    /\ attempt[w].phase = "ended"
    /\ attempt' = [attempt EXCEPT ![w] = Idle]
    /\ held' = held \ {w}
    /\ UNCHANGED <<qualifies, limited, queue, received, calm>>

\* Mutant of Requeued: the quorum queue sets no delivery limit.
RequeuedAlways(message) == [queue EXCEPT ![message] = @ + 1]

\* The queue takes a message back, or drops it at its delivery limit.
Requeued(message) ==
    IF message.deliveries + 1 < DeliveryLimit
    THEN [queue EXCEPT ![[message EXCEPT !.deliveries = @ + 1]] = @ + 1]
    ELSE queue

\* The process of a worker is killed (CELERY_TASK_REJECT_ON_WORKER_LOST).
Kill(w) ==
    /\ ~calm
    /\ Busy(w)
    /\ queue' = IF w \in held THEN Requeued(attempt[w].message) ELSE queue
    /\ attempt' = [attempt EXCEPT ![w] = Idle]
    /\ held' = held \ {w}
    /\ UNCHANGED <<qualifies, limited, received, calm>>

\* The worker's connection drops: the broker requeues at once, while the
\* worker goes on until Celery cancels the task.
LoseConnection(w) ==
    /\ ~calm
    /\ w \in held
    /\ queue' = Requeued(attempt[w].message)
    /\ held' = held \ {w}
    /\ UNCHANGED <<qualifies, limited, attempt, received, calm>>

Cancel(w) ==
    /\ Busy(w) /\ w \notin held
    /\ attempt' = [attempt EXCEPT ![w] = Idle]
    /\ UNCHANGED <<qualifies, limited, queue, held, received, calm>>

\* Not a step of the program: the last fault is over.
CalmDown ==
    /\ ~calm
    /\ calm' = TRUE
    /\ UNCHANGED <<qualifies, limited, queue, attempt, held, received>>

Step(w) ==
    \/ ReadAccount(w) \/ Send(w) \/ RefusePermanently(w) \/ FailTemporarily(w) \/ Fail(w)
    \/ PublishRetry(w) \/ Ack(w) \/ Cancel(w)

DeliverSome(m) == \E w \in Workers, message \in Ready(m) : Deliver(w, message)

Next ==
    \/ \E m \in Mailings :
        Enroll(m) \/ Withdraw(m) \/ Ask(m) \/ Expire(m) \/ DeliverSome(m)
    \/ \E w \in Workers : Step(w) \/ Kill(w) \/ LoseConnection(w)
    \/ CalmDown

\* Workers go on with what they hold, within the time limits of the tasks, and
\* serve the queue in order, so no mailing waits for ever; time passes.  No
\* fault is ever owed.
WorkersRun ==
    /\ \A w \in Workers : WF_vars(Step(w))
    /\ \A m \in Mailings : SF_vars(DeliverSome(m))
TimePasses == \A m \in Mailings : WF_vars(Expire(m))
\* The owner of an account keeps trying while there is no link.
OwnersAsk == \A m \in Throttled : WF_vars(m \notin received /\ Ask(m))

Spec == Init /\ [][Next]_vars /\ WorkersRun /\ TimePasses /\ OwnersAsk

-----------------------------------------------------------------------------
\* The variables hold what the code and the broker can put in them: only
\* throttled mailings are ever limited, and only qualifying ones reached.
TypeOK ==
    /\ qualifies \subseteq Mailings
    /\ limited \subseteq Throttled
    /\ queue \in [Message -> Nat]
    /\ attempt \in [Workers -> {Idle} \union [phase : Phases, message : Message, stale : BOOLEAN]]
    /\ held \subseteq {w \in Workers : Busy(w)}
    /\ received \subseteq qualifies
    /\ calm \in BOOLEAN

\* "A task runs again if its worker or worker process is killed or loses the
\* broker mid-task" (README.md "Background jobs"): the broker's last copy of a
\* mailing goes only with an attempt that came to an end, or when it has been
\* delivered as often as the queue allows.
KeptUntilSettled ==
    [][\A m \in Mailings : HasCopy(m) /\ ~HasCopy(m)' =>
         \E w \in held : /\ attempt[w].message.mailing = m
                         /\ \/ attempt[w].phase = "ended"
                            \/ attempt[w].message.deliveries + 1 = DeliveryLimit]_vars

\* Retries and redeliveries of a mailing come to an end whatever the servers
\* do (max_retries, the delivery limit): copies of it keep coming back only if
\* pages keep publishing it.
Drains ==
    \A m \in Mailings : []<>~HasCopy(m) \/ []<><<Enroll(m) \/ Ask(m)>>_vars

\* "The check your email and invalid-link pages send people to log in for a
\* new link" (README.md:168): an account whose mail was lost anywhere on
\* its way is not stuck.  Once faults are over, whoever keeps logging in (or
\* asking for a reset) gets a link, or no longer needs one.
LinkArrives ==
    \A m \in Throttled : (calm /\ m \in qualifies) ~> (m \in received \/ m \notin qualifies)
=============================================================================
