------------------------------- MODULE Audit -------------------------------
(***************************************************************************)
(* The way of the two audit rows of every request: AuditMiddleware offers  *)
(* each to AuditQueueService, which publishes it unless a failure paused   *)
(* the process, and worker-audit inserts it.  One web process with its     *)
(* requests, one worker; the broker, Celery and the log database lose      *)
(* answers, connections drop and processes die.                            *)
(***************************************************************************)
EXTENDS Integers, FiniteSets

CONSTANTS Requests,
          PublishPause,     \* publish_pause_seconds
          PublishTries,     \* attempts of a publish: TASK_PUBLISH_RETRY_POLICY
          MaxRetries,       \* max_retries of record_incoming_event
          MaxTime,          \* bound of the clock
          MaxDoubts,        \* bound of the answers lost after the deed was done
          Nothing           \* the event of an idle worker, the time of no failure

ASSUME AuditAssumption ==
    /\ PublishPause \in Nat \ {0} /\ PublishTries \in Nat \ {0}
    /\ MaxRetries \in Nat /\ MaxTime \in Nat /\ MaxDoubts \in Nat

EventType == {"REQUEST", "RESPONSE"}
Events == Requests \X EventType
Message == [event : Events, retries : 0 .. MaxRetries]
Times == 0 .. MaxTime

ASSUME NothingAssumption == Nothing \notin Int /\ Nothing \notin Message

VARIABLES now,
          paused_until, \* of the process's AuditQueueService
          request,      \* what each request is doing
          failed,       \* when a publish of the process last failed
          queue,        \* copies of each message on the audit queue
          task,         \* the message of the task the worker runs
          rows,         \* rows of each event in the log database
          settled,      \* events once inserted, or given up for a known reason
          doubts        \* of each event: answers lost after the deed was done
vars == <<now, paused_until, request, failed, queue, task, rows, settled, doubts>>
web == <<paused_until, request, failed>>

\* The phases in which a row is offered, and which row it is.
Offering == {"request_row", "late_row", "response_row"}
Running == Offering \union {"view"}
\* "unread" and "unanswered": its REQUEST, its RESPONSE row could not be built.
Phases == Running \union {"none", "unread", "skipped", "unanswered", "done", "unfinished"}
Offered(r) == <<r, IF request[r].phase = "response_row" THEN "RESPONSE" ELSE "REQUEST">>

NewRequest == [phase |-> "none", may_skip |-> FALSE, publishing |-> FALSE]

Init ==
    /\ now = 0 /\ paused_until = 0
    /\ request = [r \in Requests |-> NewRequest]
    /\ failed = Nothing
    /\ queue = [message \in Message |-> 0]
    /\ task = Nothing
    /\ rows = [e \in Events |-> 0]
    /\ settled = {}
    /\ doubts = [e \in Events |-> 0]

Settle(e) == settled' = settled \union {e}
Insert(e, n) == rows' = [rows EXCEPT ![e] = @ + n]

\* An answer is lost, n times, although the deed was done.  Bound: this
\* happens to one of the events.
Doubt(e, n) ==
    /\ doubts[e] + n =< MaxDoubts
    /\ n > 0 => \A d \in Events \ {e} : doubts[d] = 0
    /\ doubts' = [doubts EXCEPT ![e] = @ + n]

\* A publish is tried again on a new connection when it is not confirmed: the
\* broker stores a copy per try at most, and all but one are in doubt.
Store(message, copies) == queue' = [queue EXCEPT ![message] = @ + copies]
Extra(copies) == IF copies = 0 THEN 0 ELSE copies - 1
Publish(message, copies) ==
    /\ Store(message, copies)
    /\ Doubt(message.event, Extra(copies))

-----------------------------------------------------------------------------
(* AuditMiddleware: a request builds its REQUEST row, and its RESPONSE row
   when it has a response. *)

\* A clean GET of a probe or a static file holds its row back.
Arrive(r) ==
    /\ request[r].phase = "none"
    /\ \E may_skip \in BOOLEAN :
         request' = [request EXCEPT ![r].may_skip = may_skip,
                                    ![r].phase = IF may_skip THEN "view" ELSE "request_row"]
    /\ UNCHANGED <<now, paused_until, failed, queue, task, rows, settled, doubts>>

\* Building the REQUEST row reads query and body: one of too many fields, or
\* whose upload breaks off, raises, and the request ends without a row.
ArriveUnread(r) ==
    /\ request[r].phase = "none"
    /\ request' = [request EXCEPT ![r].phase = "unread"]
    /\ UNCHANGED <<now, paused_until, failed, queue, task, rows, settled, doubts>>

\* Mutant of Answered: a row held back is forgotten, whatever the status.
AnsweredForgetting(r) == IF request[r].may_skip THEN {"skipped", "response_row"} ELSE {"response_row"}

\* 200 and 304 are skippable; a view that raises has a response too, a 500.
Answered(r) == IF request[r].may_skip THEN {"skipped", "late_row"} ELSE {"response_row"}

Respond(r) ==
    /\ request[r].phase = "view"
    /\ \E phase \in Answered(r) : request' = [request EXCEPT ![r].phase = phase]
    /\ UNCHANGED <<now, paused_until, failed, queue, task, rows, settled, doubts>>

\* Building the RESPONSE row reads the user, from the session and the account:
\* without their database this raises, and the response is answered without it.
RespondUnbuilt(r) ==
    /\ request[r].phase = "response_row" /\ ~request[r].publishing
    /\ request' = [request EXCEPT ![r].phase = "unanswered"]
    /\ UNCHANGED <<now, paused_until, failed, queue, task, rows, settled, doubts>>

\* Mutant of NextPhase: a request whose row was held back leaves no other.
NextPhaseOnce == [request_row |-> "view", late_row |-> "done", response_row |-> "done"]

\* What a request does after its publish, however that ended.
NextPhase == [request_row |-> "view", late_row |-> "response_row", response_row |-> "done"]

\* Mutant of AfterOffer: the publish is not ended.
AfterOfferOnly(r) == [request EXCEPT ![r].phase = NextPhase[@]]

AfterOffer(r) == [request EXCEPT ![r].phase = NextPhase[@], ![r].publishing = FALSE]

-----------------------------------------------------------------------------
(* AuditQueueService.queue_incoming_event *)

Offers(r) == request[r].phase \in Offering /\ ~request[r].publishing

Drop(r) ==
    /\ Offers(r)
    /\ now < paused_until
    /\ request' = AfterOffer(r)
    /\ Settle(Offered(r))
    /\ UNCHANGED <<now, paused_until, failed, queue, task, rows, doubts>>

StartPublish(r) ==
    /\ Offers(r)
    /\ now >= paused_until
    /\ request' = [request EXCEPT ![r].publishing = TRUE]
    /\ UNCHANGED <<now, paused_until, failed, queue, task, rows, settled, doubts>>

Event(r) == [event |-> Offered(r), retries |-> 0]

Confirm(r) ==
    /\ request[r].publishing
    /\ \E copies \in 1 .. PublishTries : Publish(Event(r), copies)
    /\ request' = AfterOffer(r)
    /\ UNCHANGED <<now, paused_until, failed, task, rows, settled>>

\* Mutant of PausedUntil: each failure adds its pause to the one before.
PausedUntilLonger == paused_until + PublishPause

\* Counted from the end of the publish that failed.
PausedUntil == now + PublishPause

\* The failure pauses every request of the process.
Fail(r) ==
    /\ request[r].publishing
    /\ \E copies \in 0 .. PublishTries : Publish(Event(r), copies)
    /\ request' = AfterOffer(r)
    /\ paused_until' = PausedUntil
    /\ failed' = now
    /\ Settle(Offered(r))
    /\ UNCHANGED <<now, task, rows>>

\* The process dies with its requests; the next one starts unpaused.
WebDies ==
    /\ \E r \in Requests : request[r].phase \in Running
    /\ request' = [r \in Requests |->
         IF request[r].phase \in Running
         THEN [request[r] EXCEPT !.phase = "unfinished", !.publishing = FALSE] ELSE request[r]]
    /\ settled' = settled \union {Offered(r) : r \in {q \in Requests : request[q].phase \in Offering}}
    /\ paused_until' = 0 /\ failed' = Nothing
    /\ UNCHANGED <<now, queue, task, rows, doubts>>

-----------------------------------------------------------------------------
(* worker-audit: record_incoming_event *)

\* acks_late is off: the message is acknowledged as the pool's process accepts
\* the task, before it runs.  (A worker that dies earlier leaves it queued.)
Take(message) ==
    /\ task = Nothing
    /\ queue[message] > 0
    /\ queue' = [queue EXCEPT ![message] = @ - 1]
    /\ task' = message
    /\ UNCHANGED <<now, web, rows, settled, doubts>>

\* The connection drops before the acknowledgement is through: the broker
\* keeps the message for another delivery, and the task runs all the same.
TakeUnacked(message) ==
    /\ task = Nothing
    /\ queue[message] > 0
    /\ Doubt(message.event, 1)
    /\ task' = message
    /\ UNCHANGED <<now, web, queue, rows, settled>>

Write ==
    /\ task # Nothing
    /\ Insert(task.event, 1)
    /\ Settle(task.event)
    /\ task' = Nothing
    /\ UNCHANGED <<now, web, queue, doubts>>

\* Any error of the INSERT but those below, of a row that the table does not
\* take for instance: the task fails, and autoretry_for does not name it.
LogRefuses ==
    /\ task # Nothing
    /\ task' = Nothing
    /\ Settle(task.event)
    /\ UNCHANGED <<now, web, queue, rows, doubts>>

NextTry == [task EXCEPT !.retries = @ + 1]

\* The log database is unreachable, or its answer to the COMMIT is lost: a
\* retry is a new message.  One that cannot be published rejects the old one,
\* which is acknowledged already: the row is given up.
Retry ==
    /\ task # Nothing
    /\ task.retries < MaxRetries
    /\ \E committed \in 0 .. 1, copies \in 0 .. PublishTries :
         /\ Insert(task.event, committed)
         /\ Store(NextTry, copies)
         /\ Doubt(task.event, committed + Extra(copies))
         /\ \/ copies > 0 /\ UNCHANGED settled
            \/ Settle(task.event)
    /\ task' = Nothing
    /\ UNCHANGED <<now, web>>

\* The same after the last retry.
GiveUp ==
    /\ task # Nothing
    /\ task.retries = MaxRetries
    /\ \E committed \in 0 .. 1 : Insert(task.event, committed) /\ Doubt(task.event, committed)
    /\ Settle(task.event)
    /\ task' = Nothing
    /\ UNCHANGED <<now, web, queue>>

\* Mutant of WorkerDies: with acks_late, as the other tasks have, the broker
\* delivers the message again.
WorkerDiesUnacked ==
    /\ task # Nothing
    /\ \E committed \in 0 .. 1 : Insert(task.event, committed)
    /\ Store(task, 1)
    /\ task' = Nothing
    /\ UNCHANGED <<now, web, settled, doubts>>

\* Killed, or past its time limit, perhaps just after the commit: the message
\* is gone, and the row with it or not.
WorkerDies ==
    /\ task # Nothing
    /\ \E committed \in 0 .. 1 : Insert(task.event, committed)
    /\ Settle(task.event)
    /\ task' = Nothing
    /\ UNCHANGED <<now, web, queue, doubts>>

\* deleteexpiredauditevents, one batch.  Ages are left out: any row of a
\* request that is over may be past AUDIT_RETENTION_DAYS.
DeleteExpired ==
    /\ \E e \in Events :
         /\ request[e[1]].phase \notin Running
         /\ rows[e] > 0
         /\ rows' = [rows EXCEPT ![e] = 0]
    /\ UNCHANGED <<now, web, queue, task, settled, doubts>>

Tick ==
    /\ now < MaxTime
    /\ now' = now + 1
    /\ UNCHANGED <<web, queue, task, rows, settled, doubts>>

Next ==
    \/ \E r \in Requests :
        \/ Arrive(r) \/ ArriveUnread(r) \/ Respond(r) \/ RespondUnbuilt(r)
        \/ Drop(r) \/ StartPublish(r) \/ Confirm(r) \/ Fail(r)
    \/ WebDies
    \/ \E message \in Message : Take(message) \/ TakeUnacked(message)
    \/ Write \/ LogRefuses \/ Retry \/ GiveUp \/ WorkerDies \/ DeleteExpired \/ Tick

Spec == Init /\ [][Next]_vars

-----------------------------------------------------------------------------
TypeOK ==
    /\ now \in Times
    /\ paused_until \in 0 .. MaxTime + PublishPause
    /\ request \in [Requests -> [phase : Phases, may_skip : BOOLEAN, publishing : BOOLEAN]]
    /\ failed \in Times \union {Nothing}
    /\ queue \in [Message -> Nat]
    /\ task \in Message \union {Nothing}
    /\ rows \in [Events -> Nat]
    /\ settled \subseteq Events
    /\ doubts \in [Events -> 0 .. MaxDoubts]
    /\ \A r \in Requests : request[r].publishing => request[r].phase \in Offering

\* The copies of an event's message, of all its tries, on the queue.
CopySet(e) == UNION {{n} \X (1 .. queue[[event |-> e, retries |-> n]]) : n \in 0 .. MaxRetries}
Copies(e) == Cardinality(CopySet(e))
Tasks(e) == IF task # Nothing /\ task.event = e THEN 1 ELSE 0

\* "A row is written at most once" (README.md:377) holds up to the answers
\* lost after the deed: a publish the broker stored without confirming it, an
\* acknowledgement lost with its connection and a COMMIT whose answer was lost
\* can add one row each; nothing else can, dying workers least of all.
RowsAccounted ==
    \A e \in Events : rows[e] + Copies(e) + Tasks(e) =< 1 + doubts[e]

RecentlyFailed == failed # Nothing /\ now < failed + PublishPause

\* A failed publish lasts seconds: until the whole pause after the latest of
\* them no request of the process starts one, and once it is over, however
\* many requests failed together, no row is dropped for it.
PauseHeld ==
    [][\A r \in Requests : Offers(r) =>
         IF RecentlyFailed THEN ~request'[r].publishing
         ELSE request'[r].phase \in {request[r].phase, "unanswered", "unfinished"}]_vars

\* The rows that a request in this phase has offered.
Due(r) ==
    IF request[r].phase = "done" THEN {r} \X EventType
    ELSE IF \/ request[r].phase \in {"response_row", "unanswered"}
            \/ request[r].phase \in {"view", "unfinished"} /\ ~request[r].may_skip
    THEN {<<r, "REQUEST">>}
    ELSE {}

\* On the queue, or in the worker's hands.
OnItsWay(e) == \E message \in Message : message.event = e /\ (queue[message] > 0 \/ task = message)

\* "Every request leaves two rows" (README.md:359), "a request that never
\* finished has only its REQUEST row" (README.md:363): what is neither a clean
\* hit nor a request whose rows cannot be built (ArriveUnread, RespondUnbuilt) is
\* in the database, or on its way there, however often it is retried or
\* delivered, or was given up where the code gives up: paused, not published,
\* its process or the worker dead, refused by the table, or after the last retry.
NoneForgotten == \A r \in Requests : \A e \in Due(r) : e \in settled \/ OnItsWay(e)

\* Rows are "paired by request_id" (README.md:362), also of a request whose REQUEST
\* row was held back until its response: a RESPONSE row is nowhere before the
\* REQUEST row was offered, and the latter not lost for being late.
RequestRowFirst ==
    \A r \in Requests :
        <<r, "RESPONSE">> \in settled \/ OnItsWay(<<r, "RESPONSE">>)
        => <<r, "REQUEST">> \in settled \/ OnItsWay(<<r, "REQUEST">>)
=============================================================================
