---------------------------- MODULE AuditProofs ----------------------------
(***************************************************************************)
(* Proofs about Audit: no row is forgotten, none is written twice but for  *)
(* a lost answer, and the pause is exact; about ActingUser, whom a row     *)
(* names; and about AuditRows, what a row shows of documents of any depth. *)
(***************************************************************************)
EXTENDS Audit, AuditRows, ActingUser, FiniteSetTheorems, SequenceTheorems, TLAPS

Request == [phase : Phases, may_skip : BOOLEAN, publishing : BOOLEAN]

\* The event is accounted for: given up or inserted, or still on its way.
Kept(e) == e \in settled \/ OnItsWay(e)

\* The pause is that of the process's latest failure.
PauseIsOfFailure == paused_until = IF failed = Nothing THEN 0 ELSE failed + PublishPause

IInv == TypeOK /\ PauseIsOfFailure /\ NoneForgotten

-----------------------------------------------------------------------------
(* What the steps share. *)

LEMMA EventTyped ==
    ASSUME TypeOK, NEW r \in Requests
    PROVE  /\ Offered(r) \in Events /\ Event(r) \in Message
           /\ Event(r).event = Offered(r) /\ Event(r).retries = 0
<1>1. Offered(r) \in Events
    BY DEF Offered, Events, EventType
<1>. QED BY <1>1, AuditAssumption DEF Event, Message

LEMMA NextTryTyped ==
    ASSUME task \in Message, task.retries < MaxRetries
    PROVE  NextTry \in Message /\ NextTry.event = task.event
<1>1. task.retries + 1 \in 0 .. MaxRetries
    BY AuditAssumption DEF Message
<1>. QED BY <1>1 DEF NextTry, Message

LEMMA DoubtType ==
    ASSUME TypeOK, NEW e \in Events, NEW n \in Nat, Doubt(e, n)
    PROVE  doubts' \in [Events -> 0 .. MaxDoubts]
<1>1. doubts[e] + n \in 0 .. MaxDoubts
    BY AuditAssumption DEF TypeOK, Doubt
<1>. QED BY <1>1 DEF TypeOK, Doubt

LEMMA StoreType ==
    ASSUME TypeOK, NEW message \in Message, NEW copies \in Nat, Store(message, copies)
    PROVE  /\ queue' \in [Message -> Nat]
           /\ \A other \in Message : queue[other] > 0 => queue'[other] > 0
           /\ copies > 0 => queue'[message] > 0
BY DEF TypeOK, Store

LEMMA InsertType ==
    ASSUME TypeOK, NEW e \in Events, NEW n \in Nat, Insert(e, n)
    PROVE  rows' \in [Events -> Nat]
BY DEF TypeOK, Insert

LEMMA ExtraType == ASSUME NEW copies \in Nat PROVE Extra(copies) \in Nat
BY DEF Extra

LEMMA PublishType ==
    ASSUME TypeOK, NEW message \in Message, NEW copies \in Nat, Publish(message, copies)
    PROVE  /\ queue' \in [Message -> Nat] /\ doubts' \in [Events -> 0 .. MaxDoubts]
           /\ \A other \in Message : queue[other] > 0 => queue'[other] > 0
           /\ copies > 0 => queue'[message] > 0
<1>1. message.event \in Events /\ Extra(copies) \in Nat
    BY ExtraType DEF Message
<1>. QED BY <1>1, StoreType, DoubtType DEF Publish

LEMMA TaskTyped == ASSUME TypeOK, task # Nothing PROVE task \in Message /\ task.event \in Events
BY DEF TypeOK, Message

-----------------------------------------------------------------------------
(* Types. *)

\* The end of an offer keeps a request well typed.
LEMMA AfterOfferType ==
    ASSUME TypeOK, NEW r \in Requests, request[r].phase \in Offering
    PROVE  /\ AfterOffer(r) \in [Requests -> Request]
           /\ AfterOffer(r)[r].phase = NextPhase[request[r].phase]
           /\ AfterOffer(r)[r].publishing = FALSE
           /\ AfterOffer(r)[r].may_skip = request[r].may_skip
           /\ \A q \in Requests \ {r} : AfterOffer(r)[q] = request[q]
           /\ \A q \in Requests : AfterOffer(r)[q].publishing => AfterOffer(r)[q].phase \in Offering
<1>. DEFINE a == [request[r] EXCEPT !.phase = NextPhase[request[r].phase], !.publishing = FALSE]
<1>1. request[r] \in Request /\ request \in [Requests -> Request]
    BY DEF TypeOK, Request
<1>2. NextPhase[request[r].phase] \in Phases
    BY DEF NextPhase, Offering, Phases, Running
<1>3. /\ a \in Request /\ a.phase = NextPhase[request[r].phase]
      /\ a.publishing = FALSE /\ a.may_skip = request[r].may_skip
    BY <1>1, <1>2 DEF Request
<1>4. AfterOffer(r) = [request EXCEPT ![r] = a]
    BY <1>1 DEF AfterOffer
<1>. HIDE DEF a
<1>5. /\ AfterOffer(r) \in [Requests -> Request] /\ AfterOffer(r)[r] = a
      /\ \A q \in Requests \ {r} : AfterOffer(r)[q] = request[q]
    BY <1>1, <1>3, <1>4
<1>6. \A q \in Requests : AfterOffer(r)[q].publishing => AfterOffer(r)[q].phase \in Offering
    BY <1>3, <1>5 DEF TypeOK
<1>. QED BY <1>3, <1>5, <1>6

-----------------------------------------------------------------------------
(* No row is forgotten, step by step. *)

\* What was accounted for stays so if the queue loses nothing, nothing given up
\* is taken back, and the task is kept.
LEMMA StaysKept ==
    ASSUME NEW e, Kept(e), settled \subseteq settled', task' = task,
           \A other \in Message : queue[other] > 0 => queue'[other] > 0
    PROVE  Kept(e)'
BY DEF Kept, OnItsWay

\* A step of one request forgets nothing when what it adds is accounted for.
LEMMA OneRequest ==
    ASSUME IInv, NEW r \in Requests, NEW q \in Request, request' = [request EXCEPT ![r] = q],
           \A e \in Events : Kept(e) => Kept(e)',
           \A e \in Due(r)' : e \in Due(r) \/ Kept(e)'
    PROVE  NoneForgotten'
<1>1. \A p \in Requests : request'[p] = IF p = r THEN q ELSE request[p]
    BY DEF IInv, TypeOK
<1>2. ASSUME NEW p \in Requests, NEW e \in Due(p)' PROVE Kept(e)'
    <2>1. e \in Due(p) \/ Kept(e)'
        BY <1>1, <1>2 DEF Due
    <2>2. e \in Events
        BY <1>2 DEF Due, Events, EventType
    <2>3. e \in Due(p) => Kept(e)
        BY DEF IInv, NoneForgotten, Kept, OnItsWay
    <2>. QED BY <2>1, <2>2, <2>3
<1>. QED BY <1>2 DEF NoneForgotten, Kept, OnItsWay

\* At the end of an offer nothing is due but what was, and what was offered.
LEMMA AfterOfferDue ==
    ASSUME TypeOK, NEW r \in Requests, request[r].phase \in Offering, request' = AfterOffer(r)
    PROVE  \A e \in Due(r)' : e \in Due(r) \/ e = Offered(r)
<1>1. /\ request'[r].phase = NextPhase[request[r].phase]
      /\ request'[r].may_skip = request[r].may_skip
    BY AfterOfferType
<1>2. CASE request[r].phase = "request_row"
    BY <1>1, <1>2 DEF NextPhase, Due, Offered
<1>3. CASE request[r].phase = "late_row"
    BY <1>1, <1>3 DEF NextPhase, Due, Offered
<1>4. CASE request[r].phase = "response_row"
    <2>1. Due(r)' = {r} \X EventType /\ Due(r) = {<<r, "REQUEST">>}
        BY <1>1, <1>4 DEF NextPhase, Due
    <2>2. Offered(r) = <<r, "RESPONSE">>
        BY <1>4 DEF Offered
    <2>. QED BY <2>1, <2>2 DEF EventType
<1>. QED BY <1>2, <1>3, <1>4 DEF Offering

LEMMA AfterOfferKeeps ==
    ASSUME IInv, NEW r \in Requests, request[r].phase \in Offering, request' = AfterOffer(r),
           \A e \in Events : Kept(e) => Kept(e)',
           NEW o, o = Offered(r), Kept(o)'
    PROVE  NoneForgotten'
<1>1. /\ request \in [Requests -> Request] /\ request' \in [Requests -> Request]
      /\ \A q \in Requests \ {r} : request'[q] = request[q]
    BY AfterOfferType DEF IInv, TypeOK, Request
<1>2. request' = [request EXCEPT ![r] = request'[r]] /\ request'[r] \in Request
    BY <1>1
<1>3. \A e \in Due(r)' : e \in Due(r) \/ Kept(e)'
    BY AfterOfferDue DEF IInv
<1>4. PICK q : q = request'[r]
    OBVIOUS
<1>. QED BY <1>2, <1>3, <1>4, OneRequest

LEMMA ArriveStep == ASSUME IInv, NEW r \in Requests, Arrive(r) PROVE IInv'
<1>1. PICK may_skip \in BOOLEAN :
        request' = [request EXCEPT ![r].may_skip = may_skip,
                                   ![r].phase = IF may_skip THEN "view" ELSE "request_row"]
    BY DEF Arrive
<1>2. request[r] \in Request /\ request[r].phase = "none" /\ ~request[r].publishing
    BY DEF Arrive, IInv, TypeOK, Request, Offering
<1>. DEFINE phase == IF may_skip THEN "view" ELSE "request_row"
            q == [request[r] EXCEPT !.may_skip = may_skip, !.phase = phase]
<1>3. phase \in Phases /\ phase \in {"view", "request_row"} /\ (phase = "view" => may_skip)
    BY DEF Phases, Running, Offering
<1>4. request' = [request EXCEPT ![r] = q]
    BY <1>1 DEF IInv, TypeOK
<1>. HIDE DEF phase
<1>5. /\ q \in Request /\ q.phase = phase /\ q.may_skip = may_skip
      /\ q.publishing = request[r].publishing
    BY <1>2, <1>3 DEF Request
<1>. HIDE DEF q
<1>6. request'[r] = q /\ \A p \in Requests \ {r} : request'[p] = request[p]
    BY <1>4 DEF IInv, TypeOK
<1>7. TypeOK'
    <2>1. request' \in [Requests -> Request]
        BY <1>4, <1>5 DEF IInv, TypeOK, Request
    <2>2. \A p \in Requests : request'[p].publishing => request'[p].phase \in Offering
        BY <1>2, <1>5, <1>6 DEF IInv, TypeOK
    <2>. QED BY <2>1, <2>2 DEF Arrive, IInv, TypeOK, Request
<1>8. NoneForgotten'
    <2>1. Due(r)' = {}
        BY <1>3, <1>5, <1>6 DEF Due
    <2>2. \A e \in Events : Kept(e) => Kept(e)'
        BY DEF Arrive, Kept, OnItsWay
    <2>. QED BY <1>4, <1>5, <2>1, <2>2, OneRequest
<1>. QED BY <1>7, <1>8 DEF IInv, Arrive, PauseIsOfFailure

LEMMA RespondStep == ASSUME IInv, NEW r \in Requests, Respond(r) PROVE IInv'
<1>1. PICK phase \in Answered(r) : request' = [request EXCEPT ![r].phase = phase]
    BY DEF Respond
<1>2. request[r] \in Request /\ request[r].phase = "view" /\ ~request[r].publishing
    BY DEF Respond, IInv, TypeOK, Request, Offering
<1>. DEFINE q == [request[r] EXCEPT !.phase = phase]
<1>3. /\ phase \in {"skipped", "late_row", "response_row"} /\ phase \in Phases
      /\ phase = "response_row" => ~request[r].may_skip
    BY DEF Answered, Phases, Running, Offering
<1>4. request' = [request EXCEPT ![r] = q]
    BY <1>1 DEF IInv, TypeOK
<1>5. /\ q \in Request /\ q.phase = phase /\ q.may_skip = request[r].may_skip
      /\ q.publishing = request[r].publishing
    BY <1>2, <1>3 DEF Request
<1>. HIDE DEF q
<1>6. request'[r] = q /\ \A p \in Requests \ {r} : request'[p] = request[p]
    BY <1>4 DEF IInv, TypeOK
<1>7. TypeOK'
    <2>1. request' \in [Requests -> Request]
        BY <1>4, <1>5 DEF IInv, TypeOK, Request
    <2>2. \A p \in Requests : request'[p].publishing => request'[p].phase \in Offering
        BY <1>2, <1>5, <1>6 DEF IInv, TypeOK
    <2>. QED BY <2>1, <2>2 DEF Respond, IInv, TypeOK, Request
<1>8. NoneForgotten'
    <2>1. \A e \in Due(r)' : e \in Due(r)
        BY <1>2, <1>3, <1>5, <1>6 DEF Due
    <2>2. \A e \in Events : Kept(e) => Kept(e)'
        BY DEF Respond, Kept, OnItsWay
    <2>. QED BY <1>4, <1>5, <2>1, <2>2, OneRequest
<1>. QED BY <1>7, <1>8 DEF IInv, Respond, PauseIsOfFailure

\* A row that cannot be built ends its request's way; it was not publishing.
LEMMA UnbuiltMoves ==
    ASSUME TypeOK, NEW r \in Requests, ArriveUnread(r) \/ RespondUnbuilt(r)
    PROVE  \E q \in Request :
             /\ request' = [request EXCEPT ![r] = q]
             /\ \A p \in Requests : request'[p] = IF p = r THEN q ELSE request[p]
             /\ ~q.publishing
             /\ \/ request[r].phase = "none" /\ q.phase = "unread"
                \/ request[r].phase = "response_row" /\ q.phase = "unanswered"
<1>1. request[r] \in Request /\ request \in [Requests -> Request] /\ ~request[r].publishing
    BY DEF ArriveUnread, RespondUnbuilt, TypeOK, Request, Offering
<1>2. CASE ArriveUnread(r)
    <2>. DEFINE q == [request[r] EXCEPT !.phase = "unread"]
    <2>1. q \in Request /\ q.phase = "unread" /\ ~q.publishing
        BY <1>1 DEF Request, Phases
    <2>2. request' = [request EXCEPT ![r] = q] /\ request[r].phase = "none"
        BY <1>1, <1>2 DEF ArriveUnread
    <2>. HIDE DEF q
    <2>. QED BY <1>1, <2>1, <2>2
<1>3. CASE RespondUnbuilt(r)
    <2>. DEFINE q == [request[r] EXCEPT !.phase = "unanswered"]
    <2>1. q \in Request /\ q.phase = "unanswered" /\ ~q.publishing
        BY <1>1 DEF Request, Phases
    <2>2. request' = [request EXCEPT ![r] = q] /\ request[r].phase = "response_row"
        BY <1>1, <1>3 DEF RespondUnbuilt
    <2>. HIDE DEF q
    <2>. QED BY <1>1, <2>1, <2>2
<1>. QED BY <1>2, <1>3

LEMMA UnbuiltStep ==
    ASSUME IInv, NEW r \in Requests, ArriveUnread(r) \/ RespondUnbuilt(r) PROVE IInv'
<1>1. PICK q \in Request :
        /\ request' = [request EXCEPT ![r] = q]
        /\ \A p \in Requests : request'[p] = IF p = r THEN q ELSE request[p]
        /\ ~q.publishing
        /\ \/ request[r].phase = "none" /\ q.phase = "unread"
           \/ request[r].phase = "response_row" /\ q.phase = "unanswered"
    BY UnbuiltMoves DEF IInv
<1>2. UNCHANGED <<now, paused_until, failed, queue, task, rows, settled, doubts>>
    BY DEF ArriveUnread, RespondUnbuilt
<1>3. TypeOK'
    <2>1. request' \in [Requests -> Request]
        BY <1>1 DEF IInv, TypeOK, Request
    <2>2. \A p \in Requests : request'[p].publishing => request'[p].phase \in Offering
        BY <1>1 DEF IInv, TypeOK
    <2>. QED BY <1>2, <2>1, <2>2 DEF IInv, TypeOK, Request
<1>4. NoneForgotten'
    <2>1. \A e \in Due(r)' : e \in Due(r)
        BY <1>1 DEF Due
    <2>2. \A e \in Events : Kept(e) => Kept(e)'
        BY <1>2 DEF Kept, OnItsWay
    <2>. QED BY <1>1, <2>1, <2>2, OneRequest
<1>. QED BY <1>2, <1>3, <1>4 DEF IInv, PauseIsOfFailure

LEMMA StartPublishStep == ASSUME IInv, NEW r \in Requests, StartPublish(r) PROVE IInv'
<1>. DEFINE q == [request[r] EXCEPT !.publishing = TRUE]
<1>1. request[r] \in Request /\ request[r].phase \in Offering
    BY DEF StartPublish, Offers, IInv, TypeOK, Request
<1>2. request' = [request EXCEPT ![r] = q]
    BY DEF StartPublish, IInv, TypeOK
<1>3. q \in Request /\ q.phase = request[r].phase /\ q.may_skip = request[r].may_skip
    BY <1>1 DEF Request
<1>. HIDE DEF q
<1>4. request'[r] = q /\ \A p \in Requests \ {r} : request'[p] = request[p]
    BY <1>2 DEF IInv, TypeOK
<1>5. TypeOK'
    <2>1. request' \in [Requests -> Request]
        BY <1>2, <1>3 DEF IInv, TypeOK, Request
    <2>2. \A p \in Requests : request'[p].publishing => request'[p].phase \in Offering
        BY <1>1, <1>3, <1>4 DEF IInv, TypeOK
    <2>. QED BY <2>1, <2>2 DEF StartPublish, IInv, TypeOK, Request
<1>6. NoneForgotten'
    <2>1. \A e \in Due(r)' : e \in Due(r)
        BY <1>3, <1>4 DEF Due
    <2>2. \A e \in Events : Kept(e) => Kept(e)'
        BY DEF StartPublish, Kept, OnItsWay
    <2>. QED BY <1>2, <1>3, <2>1, <2>2, OneRequest
<1>. QED BY <1>5, <1>6 DEF IInv, StartPublish, PauseIsOfFailure

LEMMA DropStep == ASSUME IInv, NEW r \in Requests, Drop(r) PROVE IInv'
<1>1. request[r].phase \in Offering /\ Offered(r) \in Events
    BY EventTyped DEF Drop, Offers, IInv
<1>2. TypeOK'
    BY <1>1, AfterOfferType DEF Drop, Settle, IInv, TypeOK, Request
<1>3. \A e \in Events : Kept(e) => Kept(e)'
    BY StaysKept DEF Drop, Settle
<1>4. PICK o : o = Offered(r)
    OBVIOUS
<1>5. Kept(o)'
    BY <1>4 DEF Drop, Settle, Kept, OnItsWay
<1>6. NoneForgotten'
    BY <1>1, <1>3, <1>4, <1>5, AfterOfferKeeps DEF Drop
<1>. QED BY <1>2, <1>6 DEF IInv, Drop, PauseIsOfFailure

LEMMA ConfirmStep == ASSUME IInv, NEW r \in Requests, Confirm(r) PROVE IInv'
<1>1. request[r].phase \in Offering /\ Event(r) \in Message /\ Event(r).event = Offered(r)
    BY EventTyped DEF Confirm, IInv, TypeOK
<1>2. PICK copies \in 1 .. PublishTries : Publish(Event(r), copies)
    BY DEF Confirm
<1>3. copies \in Nat /\ copies > 0
    BY AuditAssumption
<1>4. /\ queue' \in [Message -> Nat] /\ doubts' \in [Events -> 0 .. MaxDoubts]
      /\ \A other \in Message : queue[other] > 0 => queue'[other] > 0
      /\ queue'[Event(r)] > 0
    BY <1>1, <1>2, <1>3, PublishType DEF IInv
<1>5. TypeOK'
    BY <1>1, <1>4, AfterOfferType DEF Confirm, IInv, TypeOK, Request
<1>6. \A e \in Events : Kept(e) => Kept(e)'
    BY <1>4, StaysKept DEF Confirm
<1>7. PICK o, message : o = Offered(r) /\ message = Event(r)
    OBVIOUS
<1>8. Kept(o)'
    BY <1>1, <1>4, <1>7 DEF Kept, OnItsWay
<1>9. NoneForgotten'
    BY <1>1, <1>6, <1>7, <1>8, AfterOfferKeeps DEF Confirm
<1>. QED BY <1>5, <1>9 DEF IInv, Confirm, PauseIsOfFailure

LEMMA FailStep == ASSUME IInv, NEW r \in Requests, Fail(r) PROVE IInv'
<1>1. request[r].phase \in Offering /\ Event(r) \in Message /\ Offered(r) \in Events
    BY EventTyped DEF Fail, IInv, TypeOK
<1>2. PICK copies \in 0 .. PublishTries : Publish(Event(r), copies)
    BY DEF Fail
<1>3. copies \in Nat
    BY AuditAssumption
<1>4. /\ queue' \in [Message -> Nat] /\ doubts' \in [Events -> 0 .. MaxDoubts]
      /\ \A other \in Message : queue[other] > 0 => queue'[other] > 0
    BY <1>1, <1>2, <1>3, PublishType DEF IInv
<1>5. /\ now \in Times /\ PausedUntil \in 0 .. MaxTime + PublishPause
      /\ now # Nothing /\ PausedUntil = now + PublishPause
    BY AuditAssumption, NothingAssumption DEF IInv, TypeOK, Times, PausedUntil
<1>6. TypeOK'
    BY <1>1, <1>4, <1>5, AfterOfferType DEF Fail, Settle, IInv, TypeOK, Request
<1>7. \A e \in Events : Kept(e) => Kept(e)'
    BY <1>4, StaysKept DEF Fail, Settle
<1>8. PICK o : o = Offered(r)
    OBVIOUS
<1>9. Kept(o)'
    BY <1>8 DEF Fail, Settle, Kept, OnItsWay
<1>10. NoneForgotten'
    BY <1>1, <1>7, <1>8, <1>9, AfterOfferKeeps DEF Fail
<1>11. PauseIsOfFailure'
    BY <1>5 DEF Fail, PauseIsOfFailure
<1>. QED BY <1>6, <1>10, <1>11 DEF IInv

LEMMA WebDiesStep == ASSUME IInv, WebDies PROVE IInv'
<1>. DEFINE cut(r) == [request[r] EXCEPT !.phase = "unfinished", !.publishing = FALSE]
<1>1. \A r \in Requests :
        /\ request[r] \in Request /\ cut(r) \in Request
        /\ cut(r).phase = "unfinished" /\ cut(r).publishing = FALSE
        /\ cut(r).may_skip = request[r].may_skip
    BY DEF IInv, TypeOK, Request, Phases
<1>2. request' = [r \in Requests |-> IF request[r].phase \in Running THEN cut(r) ELSE request[r]]
    BY DEF WebDies
<1>. HIDE DEF cut
<1>3. \A r \in Requests :
        request'[r] = IF request[r].phase \in Running THEN cut(r) ELSE request[r]
    BY <1>2
<1>4. settled' \subseteq Events
    BY EventTyped DEF WebDies, IInv, TypeOK
<1>5. TypeOK'
    <2>1. request' \in [Requests -> Request]
        BY <1>1, <1>2
    <2>2. \A r \in Requests : request'[r].publishing => request'[r].phase \in Offering
        BY <1>1, <1>3 DEF IInv, TypeOK
    <2>3. paused_until' = 0 /\ failed' = Nothing /\ UNCHANGED <<now, queue, task, rows, doubts>>
        BY DEF WebDies
    <2>4. 0 \in 0 .. MaxTime + PublishPause
        BY AuditAssumption
    <2>. QED BY <1>4, <2>1, <2>2, <2>3, <2>4 DEF IInv, TypeOK, Request
<1>6. \A e \in Events : Kept(e) => Kept(e)'
    BY StaysKept DEF WebDies
<1>7. ASSUME NEW r \in Requests, NEW e \in Due(r)' PROVE Kept(e)'
    <2>1. e \in Events
        BY <1>7 DEF Due, Events, EventType
    <2>2. CASE e \in Due(r)
        BY <1>6, <2>1, <2>2 DEF IInv, NoneForgotten, Kept, OnItsWay
    <2>3. CASE e \notin Due(r)
        <3>1. request[r].phase \in Running
            BY <1>3, <2>3 DEF Due
        <3>2. e = <<r, "REQUEST">> /\ ~request[r].may_skip
            BY <1>1, <1>3, <3>1 DEF Due
        <3>3. request[r].phase \in {"request_row", "late_row"}
            BY <2>3, <3>1, <3>2 DEF Due, Running, Offering
        <3>4. e = Offered(r) /\ request[r].phase \in Offering
            BY <3>2, <3>3 DEF Offered, Offering
        <3>. QED BY <3>4 DEF WebDies, Kept, OnItsWay
    <2>. QED BY <2>2, <2>3
<1>8. NoneForgotten'
    BY <1>7 DEF NoneForgotten, Kept, OnItsWay
<1>. QED BY <1>5, <1>8 DEF IInv, WebDies, PauseIsOfFailure

-----------------------------------------------------------------------------
(* The worker, the cleanup and the clock: no request moves. *)

LEMMA WorkerKeeps ==
    ASSUME IInv, UNCHANGED web, \A e \in Events : Kept(e) => Kept(e)'
    PROVE  NoneForgotten' /\ PauseIsOfFailure'
<1>1. ASSUME NEW r \in Requests, NEW e \in Due(r)' PROVE Kept(e)'
    <2>1. e \in Due(r)
        BY <1>1 DEF web, Due
    <2>2. e \in Events
        BY <2>1 DEF Due, Events, EventType
    <2>. QED BY <2>1, <2>2 DEF IInv, NoneForgotten, Kept, OnItsWay
<1>2. NoneForgotten'
    BY <1>1 DEF NoneForgotten, Kept, OnItsWay
<1>. QED BY <1>2 DEF IInv, PauseIsOfFailure, web

\* A task ends: its event is settled, or its retry is queued.
LEMMA TaskEnds ==
    ASSUME settled \subseteq settled',
           \A other \in Message : queue[other] > 0 => queue'[other] > 0,
           \/ task.event \in settled'
           \/ \E message \in Message : message.event = task.event /\ queue'[message] > 0
    PROVE  \A e \in Events : Kept(e) => Kept(e)'
BY DEF Kept, OnItsWay

LEMMA TakeStep == ASSUME IInv, NEW message \in Message, Take(message) PROVE IInv'
<1>1. TypeOK'
    BY DEF Take, web, IInv, TypeOK
<1>2. \A other \in Message :
        queue[other] > 0 \/ task = other => queue'[other] > 0 \/ task' = other
    BY NothingAssumption DEF Take, IInv, TypeOK
<1>3. \A e \in Events : Kept(e) => Kept(e)'
    BY <1>2 DEF Take, Kept, OnItsWay
<1>. QED BY <1>1, <1>3, WorkerKeeps DEF IInv, Take

LEMMA TakeUnackedStep == ASSUME IInv, NEW message \in Message, TakeUnacked(message) PROVE IInv'
<1>1. doubts' \in [Events -> 0 .. MaxDoubts]
    BY DoubtType DEF TakeUnacked, IInv, Message
<1>2. TypeOK'
    BY <1>1 DEF TakeUnacked, web, IInv, TypeOK
<1>3. \A e \in Events : Kept(e) => Kept(e)'
    BY NothingAssumption DEF TakeUnacked, Kept, OnItsWay
<1>. QED BY <1>2, <1>3, WorkerKeeps DEF IInv, TakeUnacked

LEMMA WriteStep == ASSUME IInv, Write PROVE IInv'
<1>1. task \in Message /\ task.event \in Events
    BY TaskTyped DEF Write, IInv
<1>2. TypeOK'
    BY <1>1, InsertType DEF Write, Settle, web, IInv, TypeOK
<1>3. \A e \in Events : Kept(e) => Kept(e)'
    BY TaskEnds DEF Write, Settle
<1>. QED BY <1>2, <1>3, WorkerKeeps DEF IInv, Write

LEMMA LogRefusesStep == ASSUME IInv, LogRefuses PROVE IInv'
<1>1. task.event \in Events
    BY TaskTyped DEF LogRefuses, IInv
<1>2. TypeOK'
    BY <1>1 DEF LogRefuses, Settle, web, IInv, TypeOK
<1>3. \A e \in Events : Kept(e) => Kept(e)'
    BY TaskEnds DEF LogRefuses, Settle
<1>. QED BY <1>2, <1>3, WorkerKeeps DEF IInv, LogRefuses

LEMMA RetryStep == ASSUME IInv, Retry PROVE IInv'
<1>1. task \in Message /\ task.event \in Events
    BY TaskTyped DEF Retry, IInv
<1>2. NextTry \in Message /\ NextTry.event = task.event
    BY <1>1, NextTryTyped DEF Retry
<1>3. PICK committed \in 0 .. 1, copies \in 0 .. PublishTries :
        /\ Insert(task.event, committed)
        /\ Store(NextTry, copies)
        /\ Doubt(task.event, committed + Extra(copies))
        /\ \/ copies > 0 /\ UNCHANGED settled
           \/ Settle(task.event)
    BY DEF Retry
<1>4. copies \in Nat /\ committed \in Nat /\ committed + Extra(copies) \in Nat
    BY ExtraType, AuditAssumption
<1>5. doubts' \in [Events -> 0 .. MaxDoubts] /\ rows' \in [Events -> Nat]
    BY <1>1, <1>3, <1>4, DoubtType, InsertType DEF IInv
<1>6. /\ queue' \in [Message -> Nat]
      /\ \A other \in Message : queue[other] > 0 => queue'[other] > 0
      /\ copies > 0 => queue'[NextTry] > 0
    BY <1>2, <1>3, <1>4, StoreType DEF IInv
<1>7. TypeOK'
    BY <1>1, <1>3, <1>5, <1>6 DEF Retry, Settle, web, IInv, TypeOK
<1>8. settled \subseteq settled'
    BY <1>3 DEF Settle
<1>9. \/ task.event \in settled'
      \/ \E message \in Message : message.event = task.event /\ queue'[message] > 0
    BY <1>2, <1>3, <1>6 DEF Settle
<1>10. \A e \in Events : Kept(e) => Kept(e)'
    BY <1>6, <1>8, <1>9, TaskEnds
<1>. QED BY <1>7, <1>10, WorkerKeeps DEF IInv, Retry

LEMMA GiveUpStep == ASSUME IInv, GiveUp PROVE IInv'
<1>1. task.event \in Events
    BY TaskTyped DEF GiveUp, IInv
<1>2. PICK committed \in 0 .. 1 : Insert(task.event, committed) /\ Doubt(task.event, committed)
    BY DEF GiveUp
<1>3. doubts' \in [Events -> 0 .. MaxDoubts] /\ rows' \in [Events -> Nat]
    BY <1>1, <1>2, DoubtType, InsertType DEF IInv
<1>4. TypeOK'
    BY <1>1, <1>3 DEF GiveUp, Settle, web, IInv, TypeOK
<1>5. \A e \in Events : Kept(e) => Kept(e)'
    BY TaskEnds DEF GiveUp, Settle
<1>. QED BY <1>4, <1>5, WorkerKeeps DEF IInv, GiveUp

LEMMA WorkerDiesStep == ASSUME IInv, WorkerDies PROVE IInv'
<1>1. task.event \in Events
    BY TaskTyped DEF WorkerDies, IInv
<1>2. rows' \in [Events -> Nat]
    BY <1>1, InsertType DEF WorkerDies, IInv
<1>3. TypeOK'
    BY <1>1, <1>2 DEF WorkerDies, Settle, web, IInv, TypeOK
<1>4. \A e \in Events : Kept(e) => Kept(e)'
    BY TaskEnds DEF WorkerDies, Settle
<1>. QED BY <1>3, <1>4, WorkerKeeps DEF IInv, WorkerDies

LEMMA DeleteExpiredStep == ASSUME IInv, DeleteExpired PROVE IInv'
<1>1. TypeOK'
    BY DEF DeleteExpired, web, IInv, TypeOK
<1>2. \A e \in Events : Kept(e) => Kept(e)'
    BY StaysKept DEF DeleteExpired
<1>. QED BY <1>1, <1>2, WorkerKeeps DEF IInv, DeleteExpired

LEMMA TickStep == ASSUME IInv, Tick PROVE IInv'
<1>1. TypeOK'
    BY AuditAssumption DEF Tick, Times, web, IInv, TypeOK
<1>2. \A e \in Events : Kept(e) => Kept(e)'
    BY StaysKept DEF Tick
<1>. QED BY <1>1, <1>2, WorkerKeeps DEF IInv, Tick

-----------------------------------------------------------------------------
(* The invariant. *)

LEMMA InitIInv == Init => IInv
<1>. SUFFICES ASSUME Init PROVE IInv
    OBVIOUS
<1>1. \A r \in Requests : request[r] = NewRequest /\ NewRequest \in Request
    BY DEF Init, NewRequest, Request, Phases
<1>2. TypeOK
    BY <1>1, AuditAssumption DEF Init, TypeOK, Request, NewRequest, Times
<1>3. NoneForgotten
    BY <1>1 DEF NewRequest, NoneForgotten, Due
<1>. QED BY <1>2, <1>3 DEF IInv, Init, PauseIsOfFailure

LEMMA Inductive == IInv /\ [Next]_vars => IInv'
<1>. SUFFICES ASSUME IInv, [Next]_vars PROVE IInv'
    OBVIOUS
<1>1. ASSUME NEW r \in Requests,
             \/ Arrive(r) \/ ArriveUnread(r) \/ Respond(r) \/ RespondUnbuilt(r)
             \/ Drop(r) \/ StartPublish(r) \/ Confirm(r) \/ Fail(r)
      PROVE  IInv'
    BY <1>1, ArriveStep, UnbuiltStep, RespondStep, DropStep, StartPublishStep, ConfirmStep, FailStep
<1>2. ASSUME NEW message \in Message, Take(message) \/ TakeUnacked(message) PROVE IInv'
    BY <1>2, TakeStep, TakeUnackedStep
<1>3. CASE Write \/ LogRefuses \/ Retry \/ GiveUp
    BY <1>3, WriteStep, LogRefusesStep, RetryStep, GiveUpStep
<1>4. CASE WebDies \/ WorkerDies \/ DeleteExpired \/ Tick
    BY <1>4, WebDiesStep, WorkerDiesStep, DeleteExpiredStep, TickStep
<1>5. CASE UNCHANGED vars
    <2>1. TypeOK' /\ UNCHANGED web
        BY <1>5 DEF vars, web, IInv, TypeOK
    <2>2. \A e \in Events : Kept(e) => Kept(e)'
        BY <1>5 DEF vars, Kept, OnItsWay
    <2>. QED BY <2>1, <2>2, WorkerKeeps DEF IInv
<1>. QED BY <1>1, <1>2, <1>3, <1>4, <1>5 DEF Next

LEMMA Invariance == Spec => []IInv
BY InitIInv, Inductive, PTL DEF Spec

\* Every state is well typed; only a request that offers a row publishes
\* (AuditQueueService.queue_incoming_event).
THEOREM TypeCorrect == Spec => []TypeOK
<1>1. IInv => TypeOK
    BY DEF IInv
<1>. QED BY <1>1, Invariance, PTL

\* README.md:359-363: a row that is due is settled, queued or with the worker,
\* for every number of requests, retries, lost answers and deaths.
THEOREM NoneForgottenHolds == Spec => []NoneForgotten
<1>1. IInv => NoneForgotten
    BY DEF IInv
<1>. QED BY <1>1, Invariance, PTL

-----------------------------------------------------------------------------
(* The REQUEST row goes first. *)

\* Nothing that was accounted for is lost; what is new was just offered.
Proceeds ==
    /\ \A e \in Events : Kept(e) => Kept(e)'
    /\ \A e \in Events : Kept(e)' =>
         Kept(e) \/ \E r \in Requests : request[r].phase \in Offering /\ e = Offered(r)

\* A step that stores copies of messages of what was offered, or settles it.
LEMMA OfferedOnly ==
    ASSUME NEW r \in Requests, request[r].phase \in Offering, NEW o, o = Offered(r),
           settled \subseteq settled', settled' \subseteq settled \union {o}, UNCHANGED task,
           \A message \in Message : queue[message] > 0 => queue'[message] > 0,
           \A message \in Message : queue'[message] > 0 => queue[message] > 0 \/ message.event = o
    PROVE  Proceeds
BY DEF Proceeds, Kept, OnItsWay

\* A step that settles, or stores again, only the event of the worker's task.
LEMMA TaskOnly ==
    ASSUME task \in Message, NEW o, o = task.event,
           settled \subseteq settled', settled' \subseteq settled \union {o},
           task' = task \/ task' = Nothing, Nothing \notin Message,
           \A message \in Message : queue[message] > 0 => queue'[message] > 0,
           \A message \in Message : queue'[message] > 0 => queue[message] > 0 \/ message.event = o,
           \/ o \in settled'
           \/ \E message \in Message : message.event = o /\ queue'[message] > 0
    PROVE  Proceeds
BY DEF Proceeds, Kept, OnItsWay

LEMMA StoreOnly ==
    ASSUME TypeOK, NEW message \in Message, NEW copies \in Nat, Store(message, copies)
    PROVE  /\ \A other \in Message : queue[other] > 0 => queue'[other] > 0
           /\ \A other \in Message : queue'[other] > 0 => queue[other] > 0 \/ other = message
BY DEF TypeOK, Store

LEMMA RequestProceeds ==
    ASSUME IInv, NEW r \in Requests, Drop(r) \/ Confirm(r) \/ Fail(r) PROVE Proceeds
<1>1. /\ request[r].phase \in Offering /\ Event(r) \in Message
      /\ Event(r).event = Offered(r)
    BY EventTyped DEF Drop, Confirm, Fail, Offers, IInv, TypeOK
<1>2. PICK o, message : o = Offered(r) /\ message = Event(r)
    OBVIOUS
<1>3. CASE Drop(r)
    BY <1>1, <1>2, <1>3, OfferedOnly DEF Drop, Settle
<1>4. CASE Confirm(r) \/ Fail(r)
    <2>1. PICK copies \in 0 .. PublishTries : Store(message, copies)
        BY <1>2, <1>4, AuditAssumption DEF Confirm, Fail, Publish
    <2>2. copies \in Nat
        BY AuditAssumption
    <2>3. /\ \A other \in Message : queue[other] > 0 => queue'[other] > 0
          /\ \A other \in Message : queue'[other] > 0 => queue[other] > 0 \/ other = message
        BY <1>1, <1>2, <2>1, <2>2, StoreOnly DEF IInv
    <2>4. settled \subseteq settled' /\ settled' \subseteq settled \union {o} /\ UNCHANGED task
        BY <1>2, <1>4 DEF Confirm, Fail, Settle
    <2>5. \A other \in Message : queue'[other] > 0 => queue[other] > 0 \/ other.event = o
        BY <1>1, <1>2, <2>3
    <2>. QED BY <1>1, <1>2, <2>3, <2>4, <2>5, OfferedOnly
<1>. QED BY <1>3, <1>4

LEMMA WorkerProceeds ==
    ASSUME IInv, Write \/ LogRefuses \/ Retry \/ GiveUp \/ WorkerDies PROVE Proceeds
<1>1. task # Nothing
    BY DEF Write, LogRefuses, Retry, GiveUp, WorkerDies
<1>2. task \in Message /\ Nothing \notin Message
    BY <1>1, TaskTyped, NothingAssumption DEF IInv
<1>3. PICK o : o = task.event
    OBVIOUS
<1>4. CASE Write \/ LogRefuses \/ GiveUp \/ WorkerDies
    <2>1. UNCHANGED queue /\ task' = Nothing /\ settled' = settled \union {o}
        BY <1>3, <1>4 DEF Write, LogRefuses, GiveUp, WorkerDies, Settle
    <2>. QED BY <1>2, <1>3, <2>1, TaskOnly
<1>5. CASE Retry
    <2>1. PICK message \in Message : message = NextTry /\ message.event = o
        BY <1>2, <1>3, <1>5, NextTryTyped DEF Retry
    <2>2. PICK copies \in 0 .. PublishTries :
            Store(message, copies) /\ ((copies > 0 /\ UNCHANGED settled) \/ Settle(o))
        BY <1>3, <1>5, <2>1 DEF Retry
    <2>3. copies \in Nat
        BY AuditAssumption
    <2>4. /\ \A other \in Message : queue[other] > 0 => queue'[other] > 0
          /\ \A other \in Message : queue'[other] > 0 => queue[other] > 0 \/ other = message
          /\ copies > 0 => queue'[message] > 0
        BY <2>2, <2>3, StoreOnly, StoreType DEF IInv
    <2>5. settled \subseteq settled' /\ settled' \subseteq settled \union {o} /\ task' = Nothing
        BY <1>5, <2>2 DEF Settle, Retry
    <2>6. o \in settled' \/ \E m \in Message : m.event = o /\ queue'[m] > 0
        BY <2>1, <2>2, <2>4 DEF Settle
    <2>7. \A other \in Message : queue'[other] > 0 => queue[other] > 0 \/ other.event = o
        BY <2>1, <2>4
    <2>. QED BY <1>2, <1>3, <2>4, <2>5, <2>6, <2>7, TaskOnly
<1>. QED BY <1>4, <1>5

LEMMA StepProceeds == ASSUME IInv, [Next]_vars PROVE Proceeds
<1>1. ASSUME NEW r \in Requests,
             \/ Arrive(r) \/ ArriveUnread(r) \/ Respond(r) \/ RespondUnbuilt(r)
             \/ StartPublish(r)
      PROVE  Proceeds
    BY <1>1 DEF Arrive, ArriveUnread, Respond, RespondUnbuilt, StartPublish, Proceeds, Kept, OnItsWay
<1>2. ASSUME NEW message \in Message, Take(message) PROVE Proceeds
    <2>1. \A other \in Message :
            queue[other] > 0 \/ task = other <=> queue'[other] > 0 \/ task' = other
        BY <1>2, NothingAssumption DEF Take, IInv, TypeOK
    <2>. QED BY <1>2, <2>1 DEF Take, Proceeds, Kept, OnItsWay
<1>3. ASSUME NEW message \in Message, TakeUnacked(message) PROVE Proceeds
    BY <1>3, NothingAssumption DEF TakeUnacked, Proceeds, Kept, OnItsWay
<1>4. CASE WebDies
    BY <1>4 DEF WebDies, Proceeds, Kept, OnItsWay
<1>5. CASE DeleteExpired \/ Tick \/ UNCHANGED vars
    BY <1>5 DEF DeleteExpired, Tick, vars, web, Proceeds, Kept, OnItsWay
<1>. QED
    BY <1>1, <1>2, <1>3, <1>4, <1>5, RequestProceeds, WorkerProceeds DEF Next

LEMMA RequestRowFirstInductive ==
    IInv /\ RequestRowFirst /\ [Next]_vars => RequestRowFirst'
<1>. SUFFICES ASSUME IInv, RequestRowFirst, [Next]_vars, NEW r \in Requests,
                     Kept(<<r, "RESPONSE">>)'
              PROVE  Kept(<<r, "REQUEST">>)'
    BY DEF RequestRowFirst, Kept
<1>1. <<r, "RESPONSE">> \in Events /\ <<r, "REQUEST">> \in Events
    BY DEF Events, EventType
<1>2. Proceeds
    BY StepProceeds
<1>3. CASE Kept(<<r, "RESPONSE">>)
    BY <1>1, <1>2, <1>3 DEF RequestRowFirst, Proceeds, Kept
<1>4. CASE ~Kept(<<r, "RESPONSE">>)
    <2>1. PICK q \in Requests : <<r, "RESPONSE">> = Offered(q)
        BY <1>1, <1>2, <1>4 DEF Proceeds
    <2>2. q = r /\ request[r].phase = "response_row"
        BY <2>1 DEF Offered
    <2>3. <<r, "REQUEST">> \in Due(r)
        BY <2>2 DEF Due
    <2>4. Kept(<<r, "REQUEST">>)
        BY <2>3 DEF IInv, NoneForgotten, Kept
    <2>. QED BY <1>1, <1>2, <2>4 DEF Proceeds
<1>. QED BY <1>3, <1>4

\* README.md:362: of every request that has a RESPONSE row in the database, on
\* the queue or given up, the REQUEST row has been offered too.
THEOREM RequestRowFirstHolds == Spec => []RequestRowFirst
<1>1. Init => RequestRowFirst
    BY NothingAssumption DEF Init, RequestRowFirst, OnItsWay
<1>. QED BY <1>1, InitIInv, RequestRowFirstInductive, Invariance, PTL DEF Spec

-----------------------------------------------------------------------------
(* The pause. *)

\* A step of one request leaves the others alone.
LEMMA OthersSame ==
    ASSUME TypeOK, NEW r \in Requests, NEW q \in Requests \ {r},
           \/ Arrive(q) \/ ArriveUnread(q) \/ Respond(q) \/ RespondUnbuilt(q)
           \/ Drop(q) \/ StartPublish(q) \/ Confirm(q) \/ Fail(q)
    PROVE  request'[r] = request[r]
BY DEF TypeOK, Arrive, ArriveUnread, Respond, RespondUnbuilt, Drop, StartPublish, Confirm, Fail, AfterOffer

LEMMA PauseStep ==
    ASSUME IInv, [Next]_vars, NEW r \in Requests, Offers(r)
    PROVE  IF RecentlyFailed THEN ~request'[r].publishing
           ELSE request'[r].phase \in {request[r].phase, "unanswered", "unfinished"}
<1>. DEFINE Goal == IF RecentlyFailed THEN ~request'[r].publishing
                    ELSE request'[r].phase \in {request[r].phase, "unanswered", "unfinished"}
<1>1. request[r].phase \in Offering /\ ~request[r].publishing /\ request \in [Requests -> Request]
    BY DEF Offers, IInv, TypeOK, Request
<1>2. now < paused_until <=> RecentlyFailed
    BY AuditAssumption DEF IInv, TypeOK, Times, PauseIsOfFailure, RecentlyFailed
<1>3. CASE request'[r] = request[r]
    BY <1>1, <1>3
<1>4. CASE Arrive(r) \/ ArriveUnread(r) \/ Respond(r)
    BY <1>1, <1>4 DEF Arrive, ArriveUnread, Respond, Offering
<1>5. CASE Drop(r)
    <2>1. RecentlyFailed /\ ~request'[r].publishing
        BY <1>1, <1>2, <1>5, AfterOfferType DEF Drop, IInv
    <2>. QED BY <2>1
<1>6. CASE StartPublish(r)
    <2>1. ~RecentlyFailed
        BY <1>2, <1>6 DEF StartPublish, IInv, TypeOK, Times
    <2>2. request'[r].phase = request[r].phase
        BY <1>1, <1>6 DEF StartPublish, Request
    <2>. QED BY <2>1, <2>2
<1>7. CASE Confirm(r) \/ Fail(r)
    BY <1>1, <1>7 DEF Confirm, Fail
<1>8. CASE WebDies
    <2>1. request'[r] = [request[r] EXCEPT !.phase = "unfinished", !.publishing = FALSE]
        BY <1>1, <1>8 DEF WebDies, Running
    <2>2. request'[r].phase = "unfinished" /\ request'[r].publishing = FALSE
        BY <1>1, <2>1 DEF Request
    <2>. QED BY <2>2
<1>9. CASE UNCHANGED request
    BY <1>3, <1>9
<1>10. CASE RespondUnbuilt(r)
    <2>1. request'[r] = [request[r] EXCEPT !.phase = "unanswered"]
        BY <1>1, <1>10 DEF RespondUnbuilt
    <2>2. request'[r].phase = "unanswered" /\ request'[r].publishing = FALSE
        BY <1>1, <2>1 DEF Request
    <2>. QED BY <2>2
<1>11. ASSUME NEW q \in Requests,
              \/ Arrive(q) \/ ArriveUnread(q) \/ Respond(q) \/ RespondUnbuilt(q)
              \/ Drop(q) \/ StartPublish(q) \/ Confirm(q) \/ Fail(q)
       PROVE  Goal
    <2>1. CASE q = r
        BY <1>4, <1>5, <1>6, <1>7, <1>10, <1>11, <2>1
    <2>2. CASE q # r
        BY <1>3, <1>11, <2>2, OthersSame DEF IInv
    <2>. QED BY <2>1, <2>2
<1>. QED
    BY <1>8, <1>9, <1>11
    DEF Next, Take, TakeUnacked, Write, LogRefuses, Retry, GiveUp, WorkerDies, DeleteExpired,
        Tick, web, vars

\* AuditQueueService: no publish starts within the pause after the process's
\* latest failure, and none is dropped after it.
THEOREM PauseHeldAlways == Spec => PauseHeld
<1>1. IInv /\ [Next]_vars =>
        [\A r \in Requests : Offers(r) =>
            IF RecentlyFailed THEN ~request'[r].publishing
            ELSE request'[r].phase \in {request[r].phase, "unanswered", "unfinished"}]_vars
    BY PauseStep
<1>. QED BY <1>1, Invariance, PTL DEF Spec, PauseHeld
-----------------------------------------------------------------------------
(* The copies of an event on the queue, counted. *)

CopiesOfTry(q, e, n) == {n} \X (1 .. q[[event |-> e, retries |-> n]])
CopiesFrom(q, e) == UNION {CopiesOfTry(q, e, n) : n \in 0 .. MaxRetries}

IsCopy(q, e, x) ==
    \E n \in 0 .. MaxRetries : \E i \in 1 .. q[[event |-> e, retries |-> n]] : x = <<n, i>>

LEMMA InCopies ==
    ASSUME NEW q, NEW e, NEW x
    PROVE  x \in CopiesFrom(q, e) <=> IsCopy(q, e, x)
<1>1. x \in CopiesFrom(q, e) <=> \E n \in 0 .. MaxRetries : x \in CopiesOfTry(q, e, n)
    BY Zenon DEF CopiesFrom
<1>2. \A n : x \in CopiesOfTry(q, e, n) <=>
               \E i \in 1 .. q[[event |-> e, retries |-> n]] : x = <<n, i>>
    BY DEF CopiesOfTry
<1>. QED BY <1>1, <1>2 DEF IsCopy

LEMMA FiniteCopies ==
    ASSUME NEW q \in [Message -> Nat], NEW e \in Events
    PROVE  IsFiniteSet(CopiesFrom(q, e)) /\ Cardinality(CopiesFrom(q, e)) \in Nat
<1>. DEFINE Tries == 0 .. MaxRetries
            of == [n \in Tries |-> CopiesOfTry(q, e, n)]
            Parts == {CopiesOfTry(q, e, n) : n \in Tries}
<1>1. IsFiniteSet(Tries)
    BY FS_Interval, AuditAssumption
<1>2. of \in Surjection(Tries, Parts)
    BY DEF Surjection
<1>3. IsFiniteSet(Parts)
    <2>. HIDE DEF Tries, of, Parts
    <2>. QED BY <1>1, <1>2, FS_Surjection
<1>4. ASSUME NEW n \in Tries PROVE IsFiniteSet(CopiesOfTry(q, e, n))
    <2>1. PICK k \in Nat : k = q[[event |-> e, retries |-> n]]
        BY DEF Message
    <2>2. IsFiniteSet({n})
        BY FS_Singleton
    <2>3. IsFiniteSet(1 .. k)
        BY FS_Interval
    <2>. QED BY <2>1, <2>2, <2>3, FS_Product DEF CopiesOfTry
<1>5. IsFiniteSet(UNION Parts)
    BY <1>3, <1>4, FS_UNION
<1>. QED BY <1>5, FS_CardinalityType DEF CopiesFrom

LEMMA MessageOf ==
    ASSUME NEW message \in Message
    PROVE  /\ message.event \in Events /\ message.retries \in 0 .. MaxRetries
           /\ message = [event |-> message.event, retries |-> message.retries]
BY DEF Message

LEMMA OtherMessage ==
    ASSUME NEW message \in Message, NEW e \in Events, NEW n \in 0 .. MaxRetries,
           e # message.event \/ n # message.retries
    PROVE  [event |-> e, retries |-> n] \in Message \ {message}
BY DEF Message

\* A message added so many times counts as many copies more of its event, and
\* none of another.
LEMMA CopiesAdded ==
    ASSUME NEW q \in [Message -> Nat], NEW p \in [Message -> Nat], NEW k \in Nat,
           NEW message \in Message, p[message] = q[message] + k,
           \A other \in Message \ {message} : p[other] = q[other],
           NEW f \in Events
    PROVE  Cardinality(CopiesFrom(p, f)) =
             Cardinality(CopiesFrom(q, f)) + IF f = message.event THEN k ELSE 0
<1>1. PICK e \in Events, n \in 0 .. MaxRetries :
        e = message.event /\ n = message.retries /\ message = [event |-> e, retries |-> n]
    BY MessageOf
<1>2. PICK c \in Nat : c = q[message]
    OBVIOUS
<1>. DEFINE New == {n} \X (c + 1 .. c + k)
<1>3. /\ p[message] = c + k
      /\ \A other \in Message \ {message} : p[other] = q[other]
    BY <1>2
<1>4. ASSUME f # e PROVE CopiesFrom(p, f) = CopiesFrom(q, f)
    <2>1. ASSUME NEW j \in 0 .. MaxRetries PROVE CopiesOfTry(p, f, j) = CopiesOfTry(q, f, j)
        <3>1. [event |-> f, retries |-> j] \in Message \ {message}
            BY <1>1, <1>4, OtherMessage
        <3>. QED BY <3>1 DEF CopiesOfTry
    <2>. QED BY <2>1 DEF CopiesFrom
<1>5. IsFiniteSet(New) /\ Cardinality(New) = k
    <2>1. IsFiniteSet({n}) /\ Cardinality({n}) = 1
        BY FS_Singleton
    <2>2. PICK a \in Int, b \in Int : a = c + 1 /\ b = c + k
        OBVIOUS
    <2>3. IsFiniteSet(a .. b) /\ Cardinality(a .. b) = IF a > b THEN 0 ELSE b - a + 1
        BY FS_Interval
    <2>4. Cardinality(a .. b) = k
        BY <2>2, <2>3
    <2>5. IsFiniteSet({n} \X (a .. b)) /\ Cardinality({n} \X (a .. b)) = 1 * k
        BY <2>1, <2>3, <2>4, FS_Product, Zenon
    <2>. QED BY <2>2, <2>5
<1>6. CopiesFrom(p, e) = CopiesFrom(q, e) \union New
    <2>1. ASSUME NEW x PROVE x \in CopiesFrom(p, e) <=> x \in CopiesFrom(q, e) \/ x \in New
        <3>1. x \in New <=> \E i \in c + 1 .. c + k : x = <<n, i>>
            OBVIOUS
        <3>2. /\ \A i : i \in 1 .. c + k <=> i \in 1 .. c \/ i \in c + 1 .. c + k
              /\ \A j \in 0 .. MaxRetries \ {n} :
                   p[[event |-> e, retries |-> j]] = q[[event |-> e, retries |-> j]]
            BY <1>1, <1>3, OtherMessage
        <3>. HIDE DEF New
        <3>3. IsCopy(p, e, x) <=> IsCopy(q, e, x) \/ x \in New
            BY <1>1, <1>2, <1>3, <3>1, <3>2 DEF IsCopy
        <3>. QED BY <3>3, InCopies
    <2>. QED BY <2>1
<1>7. CopiesFrom(q, e) \cap New = {}
    <2>1. ASSUME NEW x \in New, x \in CopiesFrom(q, e) PROVE FALSE
        <3>1. PICK i \in c + 1 .. c + k : x = <<n, i>>
            BY <2>1
        <3>2. IsCopy(q, e, x)
            BY <2>1, InCopies
        <3>3. i \in 1 .. c
            BY <1>1, <1>2, <3>1, <3>2 DEF IsCopy
        <3>. QED BY <3>1, <3>3
    <2>. QED BY <2>1
<1>. HIDE DEF New
<1>8. IsFiniteSet(CopiesFrom(q, e)) /\ Cardinality(CopiesFrom(q, e)) \in Nat
    BY FiniteCopies
<1>9. Cardinality(CopiesFrom(q, e) \union New) = Cardinality(CopiesFrom(q, e)) + k - Cardinality({})
    <2>1. Cardinality(CopiesFrom(q, e) \union New) =
            Cardinality(CopiesFrom(q, e)) + Cardinality(New) - Cardinality(CopiesFrom(q, e) \cap New)
        BY <1>5, <1>8, FS_Union, Zenon
    <2>. QED BY <1>5, <1>7, <2>1, Zenon
<1>10. Cardinality({}) = 0
    BY FS_EmptySet
<1>11. Cardinality(CopiesFrom(p, e)) = Cardinality(CopiesFrom(q, e)) + k
    <2>1. Cardinality(CopiesFrom(p, e)) = Cardinality(CopiesFrom(q, e) \union New)
        BY <1>6, Zenon
    <2>. QED BY <1>8, <1>9, <1>10, <2>1
<1>12. Cardinality(CopiesFrom(q, f)) \in Nat
    BY FiniteCopies
<1>13. CASE f = e
    BY <1>1, <1>11, <1>13
<1>14. CASE f # e
    <2>1. Cardinality(CopiesFrom(p, f)) = Cardinality(CopiesFrom(q, f))
        BY <1>4, <1>14, Zenon
    <2>. QED BY <1>1, <1>12, <1>14, <2>1
<1>. QED BY <1>13, <1>14

LEMMA NoCopies ==
    ASSUME NEW q \in [Message -> Nat], NEW e \in Events, Cardinality(CopiesFrom(q, e)) = 0,
           NEW message \in Message, message.event = e
    PROVE  q[message] = 0
<1>1. CopiesFrom(q, e) = {}
    BY FiniteCopies, FS_EmptySet
<1>2. message.retries \in 0 .. MaxRetries /\ message = [event |-> e, retries |-> message.retries]
    BY MessageOf
<1>3. ASSUME q[message] > 0 PROVE IsCopy(q, e, <<message.retries, 1>>)
    <2>1. 1 \in 1 .. q[[event |-> e, retries |-> message.retries]]
        BY <1>2, <1>3
    <2>. QED BY <1>2, <2>1 DEF IsCopy
<1>4. ~IsCopy(q, e, <<message.retries, 1>>)
    BY <1>1, InCopies
<1>. QED BY <1>3, <1>4
-----------------------------------------------------------------------------
(* Rows are accounted for. *)

OnWay(e) == rows[e] + Copies(e) + Tasks(e)

\* The rows that a request may yet offer.
Ahead(r) ==
    {e \in {r} \X EventType :
        \/ request[r].phase \in {"none", "request_row", "late_row"}
        \/ request[r].phase = "view" /\ (e[2] = "RESPONSE" \/ request[r].may_skip)
        \/ request[r].phase = "response_row" /\ e[2] = "RESPONSE"}

HeldBack == \A r \in Requests : request[r].phase = "request_row" => ~request[r].may_skip

\* No row is published before its request offers it, and none is offered twice.
Accounted ==
    /\ RowsAccounted
    /\ HeldBack
    /\ \A r \in Requests : \A e \in Ahead(r) : OnWay(e) = 0

Narrows == HeldBack' /\ \A r \in Requests : Ahead(r)' \subseteq Ahead(r)

LEMMA OnWayType ==
    ASSUME TypeOK, NEW e \in Events
    PROVE  rows[e] \in Nat /\ Copies(e) \in Nat /\ Tasks(e) \in Nat /\ doubts[e] \in Nat
<1>1. Copies(e) = Cardinality(CopiesFrom(queue, e))
    BY DEF Copies, CopySet, CopiesFrom, CopiesOfTry
<1>2. queue \in [Message -> Nat] /\ rows[e] \in Nat /\ doubts[e] \in Nat /\ Tasks(e) \in Nat
    BY DEF TypeOK, Tasks
<1>. QED BY <1>1, <1>2, FiniteCopies

LEMMA OnWayTypeNext ==
    ASSUME TypeOK', NEW e \in Events
    PROVE  rows'[e] \in Nat /\ Copies(e)' \in Nat /\ Tasks(e)' \in Nat /\ doubts'[e] \in Nat
<1>1. Copies(e)' = Cardinality(CopiesFrom(queue', e))
    BY DEF Copies, CopySet, CopiesFrom, CopiesOfTry
<1>2. queue' \in [Message -> Nat] /\ rows'[e] \in Nat /\ doubts'[e] \in Nat /\ Tasks(e)' \in Nat
    BY DEF TypeOK, Tasks
<1>. QED BY <1>1, <1>2, FiniteCopies

LEMMA StoreCounts ==
    ASSUME TypeOK, NEW message \in Message, NEW copies \in Nat, Store(message, copies),
           NEW e \in Events
    PROVE  Copies(e)' = Copies(e) + IF e = message.event THEN copies ELSE 0
<1>1. /\ Copies(e) = Cardinality(CopiesFrom(queue, e))
      /\ Copies(e)' = Cardinality(CopiesFrom(queue', e))
    BY DEF Copies, CopySet, CopiesFrom, CopiesOfTry
<1>2. PICK q, p : q = queue /\ p = queue'
    OBVIOUS
<1>3. /\ q \in [Message -> Nat] /\ p \in [Message -> Nat]
      /\ p[message] = q[message] + copies
      /\ \A other \in Message \ {message} : p[other] = q[other]
    BY <1>2 DEF TypeOK, Store
<1>4. Cardinality(CopiesFrom(p, e)) =
        Cardinality(CopiesFrom(q, e)) + IF e = message.event THEN copies ELSE 0
    BY <1>3, CopiesAdded
<1>. QED BY <1>1, <1>2, <1>4

LEMMA TakeCounts ==
    ASSUME TypeOK, TypeOK', NEW message \in Message, queue[message] > 0,
           queue' = [queue EXCEPT ![message] = @ - 1], NEW e \in Events
    PROVE  Copies(e) = Copies(e)' + IF e = message.event THEN 1 ELSE 0
<1>1. /\ Copies(e) = Cardinality(CopiesFrom(queue, e))
      /\ Copies(e)' = Cardinality(CopiesFrom(queue', e))
    BY DEF Copies, CopySet, CopiesFrom, CopiesOfTry
<1>2. PICK q, p : q = queue /\ p = queue'
    OBVIOUS
<1>3. /\ q \in [Message -> Nat] /\ p \in [Message -> Nat]
      /\ q[message] = p[message] + 1
      /\ \A other \in Message \ {message} : q[other] = p[other]
    BY <1>2 DEF TypeOK
<1>4. Cardinality(CopiesFrom(q, e)) =
        Cardinality(CopiesFrom(p, e)) + IF e = message.event THEN 1 ELSE 0
    BY <1>3, CopiesAdded
<1>. QED BY <1>1, <1>2, <1>4

LEMMA QueueKept == UNCHANGED queue => \A e : Copies(e)' = Copies(e)
BY DEF Copies, CopySet

LEMMA DoubtCounts ==
    ASSUME TypeOK, NEW o \in Events, NEW n \in Nat, Doubt(o, n), NEW e \in Events
    PROVE  doubts'[e] = doubts[e] + IF e = o THEN n ELSE 0
BY DEF TypeOK, Doubt

LEMMA InsertCounts ==
    ASSUME TypeOK, NEW o \in Events, NEW n \in Nat, Insert(o, n), NEW e \in Events
    PROVE  rows'[e] = rows[e] + IF e = o THEN n ELSE 0
BY DEF TypeOK, Insert

LEMMA TaskEndCounts ==
    ASSUME task # Nothing, task' = Nothing, NEW e
    PROVE  Tasks(e) = (IF e = task.event THEN 1 ELSE 0) /\ Tasks(e)' = 0
BY DEF Tasks

\* A step that changes what is on its way of one event keeps the account, if it
\* adds a doubt for all it adds, or the row was not offered before.
LEMMA OneEvent ==
    ASSUME TypeOK, TypeOK', Accounted, Narrows, NEW o \in Events,
           \A e \in Events \ {o} : OnWay(e)' = OnWay(e) /\ doubts'[e] = doubts[e],
           \/ OnWay(o)' =< OnWay(o) /\ doubts'[o] >= doubts[o]
           \/ OnWay(o) > 0 /\ OnWay(o)' - doubts'[o] =< OnWay(o) - doubts[o]
           \/ OnWay(o)' =< 1 + doubts'[o] /\ \A r \in Requests : o \notin Ahead(r)'
    PROVE  Accounted'
<1>1. \A e \in Events : OnWay(e) \in Nat /\ doubts[e] \in Nat /\ OnWay(e)' \in Nat /\ doubts'[e] \in Nat
    BY OnWayType, OnWayTypeNext DEF OnWay
<1>2. \A e \in Events : OnWay(e) =< 1 + doubts[e]
    BY DEF Accounted, RowsAccounted, OnWay
<1>3. \A e \in Events : OnWay(e)' =< 1 + doubts'[e]
    BY <1>1, <1>2
<1>4. RowsAccounted'
    BY <1>3 DEF RowsAccounted, OnWay
<1>5. ASSUME NEW r \in Requests, NEW e \in Ahead(r)' PROVE OnWay(e)' = 0
    <2>1. e \in Ahead(r) /\ e \in Events
        BY <1>5 DEF Narrows, Ahead, Events
    <2>2. OnWay(e) = 0
        BY <2>1 DEF Accounted
    <2>. QED BY <1>1, <1>5, <2>1, <2>2
<1>. QED BY <1>4, <1>5 DEF Accounted, Narrows

\* A step that counts nothing.
LEMMA NothingCounted ==
    ASSUME Accounted, Narrows, UNCHANGED <<queue, task, rows, doubts>>
    PROVE  Accounted'
<1>1. \A e : OnWay(e)' = OnWay(e)
    BY QueueKept DEF OnWay, Tasks
<1>2. RowsAccounted'
    BY <1>1 DEF Accounted, RowsAccounted, OnWay
<1>. QED BY <1>1, <1>2 DEF Accounted, Narrows

\* What a step of a request leaves it to offer.
LEMMA NarrowsOne ==
    ASSUME HeldBack, NEW r \in Requests, \A q \in Requests \ {r} : request'[q] = request[q],
           request'[r].phase = "request_row" => ~request'[r].may_skip,
           Ahead(r)' \subseteq Ahead(r)
    PROVE  Narrows
<1>1. \A q \in Requests \ {r} : Ahead(q)' = Ahead(q)
    BY DEF Ahead
<1>. QED BY <1>1 DEF Narrows, HeldBack

LEMMA NarrowsSame == ASSUME HeldBack, UNCHANGED request PROVE Narrows
BY DEF Narrows, HeldBack, Ahead

\* After its offer a row is not offered again.
LEMMA OfferEnds ==
    ASSUME TypeOK, HeldBack, NEW r \in Requests, request[r].phase \in Offering,
           request' = AfterOffer(r)
    PROVE  /\ Narrows
           /\ \A o : o = Offered(r) => \A q \in Requests : o \notin Ahead(q)'
<1>1. /\ request'[r].phase = NextPhase[request[r].phase]
      /\ request'[r].may_skip = request[r].may_skip
      /\ \A q \in Requests \ {r} : request'[q] = request[q]
    BY AfterOfferType
<1>2. /\ Ahead(r)' \subseteq Ahead(r)
      /\ request'[r].phase # "request_row"
      /\ \A o : o = Offered(r) => o \notin Ahead(r)'
    <2>1. CASE request[r].phase = "request_row"
        BY <1>1, <2>1 DEF NextPhase, Ahead, Offered, HeldBack
    <2>2. CASE request[r].phase = "late_row"
        BY <1>1, <2>2 DEF NextPhase, Ahead, Offered
    <2>3. CASE request[r].phase = "response_row"
        BY <1>1, <2>3 DEF NextPhase, Ahead, Offered
    <2>. QED BY <2>1, <2>2, <2>3 DEF Offering
<1>3. \A o : o = Offered(r) => \A q \in Requests \ {r} : o \notin Ahead(q)'
    BY DEF Offered, Ahead
<1>4. Narrows
    BY <1>1, <1>2, NarrowsOne
<1>. QED BY <1>2, <1>3, <1>4

LEMMA ArriveAccounts == ASSUME IInv, Accounted, NEW r \in Requests, Arrive(r) PROVE Accounted'
<1>1. \A q \in Requests \ {r} : request'[q] = request[q]
    BY DEF Arrive, IInv, TypeOK
<1>2. Ahead(r)' \subseteq Ahead(r)
    BY DEF Arrive, Ahead
<1>3. request'[r].phase = "request_row" => ~request'[r].may_skip
    <2>1. PICK may_skip \in BOOLEAN :
            request' = [request EXCEPT ![r].may_skip = may_skip,
                                       ![r].phase = IF may_skip THEN "view" ELSE "request_row"]
        BY DEF Arrive
    <2>. DEFINE phase == IF may_skip THEN "view" ELSE "request_row"
                q == [request[r] EXCEPT !.may_skip = may_skip, !.phase = phase]
    <2>2. request'[r] = q /\ request[r] \in Request
        BY <2>1 DEF IInv, TypeOK, Request
    <2>3. phase = "request_row" => ~may_skip
        OBVIOUS
    <2>. HIDE DEF phase
    <2>4. q.phase = phase /\ q.may_skip = may_skip
        BY <2>2 DEF Request
    <2>. QED BY <2>2, <2>3, <2>4
<1>4. Narrows
    BY <1>1, <1>2, <1>3, NarrowsOne DEF Accounted
<1>. QED BY <1>4, NothingCounted DEF Arrive

LEMMA RespondAccounts == ASSUME IInv, Accounted, NEW r \in Requests, Respond(r) PROVE Accounted'
<1>1. PICK phase \in Answered(r) : request' = [request EXCEPT ![r].phase = phase]
    BY DEF Respond
<1>2. request[r] \in Request /\ request[r].phase = "view"
    BY DEF Respond, IInv, TypeOK, Request
<1>3. IF request[r].may_skip THEN phase \in {"skipped", "late_row"} ELSE phase = "response_row"
    BY DEF Answered
<1>4. /\ \A q \in Requests \ {r} : request'[q] = request[q]
      /\ request'[r].phase = phase /\ request'[r].may_skip = request[r].may_skip
    BY <1>1, <1>2 DEF IInv, TypeOK, Request
<1>5. Ahead(r)' \subseteq Ahead(r)
    BY <1>2, <1>3, <1>4 DEF Ahead
<1>6. request'[r].phase # "request_row"
    BY <1>3, <1>4
<1>7. Narrows
    BY <1>4, <1>5, <1>6, NarrowsOne DEF Accounted
<1>. QED BY <1>7, NothingCounted DEF Respond

LEMMA UnbuiltAccounts ==
    ASSUME IInv, Accounted, NEW r \in Requests, ArriveUnread(r) \/ RespondUnbuilt(r)
    PROVE  Accounted'
<1>1. /\ \A q \in Requests \ {r} : request'[q] = request[q]
      /\ request'[r].phase \in {"unread", "unanswered"}
    BY UnbuiltMoves DEF IInv
<1>2. Ahead(r)' \subseteq Ahead(r)
    BY <1>1 DEF Ahead
<1>3. request'[r].phase # "request_row"
    BY <1>1
<1>4. Narrows
    BY <1>1, <1>2, <1>3, NarrowsOne DEF Accounted
<1>. QED BY <1>4, NothingCounted DEF ArriveUnread, RespondUnbuilt

LEMMA StartPublishAccounts ==
    ASSUME IInv, Accounted, NEW r \in Requests, StartPublish(r) PROVE Accounted'
<1>1. request[r] \in Request
    BY DEF IInv, TypeOK, Request
<1>2. /\ \A q \in Requests \ {r} : request'[q] = request[q]
      /\ request'[r].phase = request[r].phase /\ request'[r].may_skip = request[r].may_skip
    BY <1>1 DEF StartPublish, IInv, TypeOK, Request
<1>3. Ahead(r)' \subseteq Ahead(r)
    BY <1>2 DEF Ahead
<1>4. Narrows
    BY <1>2, <1>3, NarrowsOne DEF Accounted, HeldBack
<1>. QED BY <1>4, NothingCounted DEF StartPublish

LEMMA DropAccounts == ASSUME IInv, Accounted, NEW r \in Requests, Drop(r) PROVE Accounted'
<1>1. Narrows
    BY OfferEnds DEF Drop, Offers, IInv, Accounted
<1>. QED BY <1>1, NothingCounted DEF Drop

LEMMA WebDiesAccounts == ASSUME IInv, Accounted, WebDies PROVE Accounted'
<1>1. \A r \in Requests : request'[r] = request[r] \/ request'[r].phase = "unfinished"
    BY DEF WebDies, IInv, TypeOK, Request
<1>2. \A r \in Requests : Ahead(r)' \subseteq Ahead(r)
    BY <1>1 DEF Ahead
<1>3. HeldBack'
    BY <1>1 DEF Accounted, HeldBack
<1>. QED BY <1>2, <1>3, NothingCounted DEF Narrows, WebDies

\* A publish counts a copy per try that the broker stored, all but one of them
\* in doubt, of a row that nothing was counted of.
LEMMA PublishAccounts ==
    ASSUME IInv, TypeOK', Accounted, NEW r \in Requests, request[r].phase \in Offering,
           NEW copies \in Nat, Publish(Event(r), copies),
           request' = AfterOffer(r), UNCHANGED <<task, rows>>
    PROVE  Accounted'
<1>1. PICK o \in Events, message \in Message :
        o = Offered(r) /\ message = Event(r) /\ message.event = o
    BY EventTyped DEF IInv
<1>2. Store(message, copies) /\ Doubt(o, Extra(copies)) /\ Extra(copies) \in Nat
    BY <1>1, ExtraType DEF Publish
<1>3. Narrows /\ \A q \in Requests : o \notin Ahead(q)'
    BY <1>1, OfferEnds DEF IInv, Accounted
<1>4. OnWay(o) = 0
    <2>1. o \in Ahead(r)
        BY <1>1 DEF Offered, Ahead, Offering, EventType
    <2>. QED BY <2>1 DEF Accounted
<1>5. \A e \in Events :
        /\ Copies(e)' = Copies(e) + IF e = o THEN copies ELSE 0
        /\ doubts'[e] = doubts[e] + IF e = o THEN Extra(copies) ELSE 0
        /\ rows'[e] = rows[e] /\ Tasks(e)' = Tasks(e)
        /\ rows[e] \in Nat /\ Copies(e) \in Nat /\ Tasks(e) \in Nat /\ doubts[e] \in Nat
    BY <1>1, <1>2, StoreCounts, DoubtCounts, OnWayType DEF IInv, Tasks
<1>6. \A e \in Events \ {o} : OnWay(e)' = OnWay(e) /\ doubts'[e] = doubts[e]
    BY <1>5 DEF OnWay
<1>7. OnWay(o)' =< 1 + doubts'[o]
    <2>1. OnWay(o)' = copies /\ doubts'[o] = doubts[o] + Extra(copies)
        BY <1>4, <1>5 DEF OnWay
    <2>. QED BY <1>5, <2>1 DEF Extra
<1>. QED BY <1>3, <1>6, <1>7, OneEvent DEF IInv

LEMMA ConfirmAccounts ==
    ASSUME IInv, TypeOK', Accounted, NEW r \in Requests, Confirm(r) PROVE Accounted'
<1>1. PICK copies \in 1 .. PublishTries : Publish(Event(r), copies)
    BY DEF Confirm
<1>2. copies \in Nat /\ request[r].phase \in Offering
    BY AuditAssumption DEF Confirm, IInv, TypeOK
<1>. QED BY <1>1, <1>2, PublishAccounts DEF Confirm

LEMMA FailAccounts ==
    ASSUME IInv, TypeOK', Accounted, NEW r \in Requests, Fail(r) PROVE Accounted'
<1>1. PICK copies \in 0 .. PublishTries : Publish(Event(r), copies)
    BY DEF Fail
<1>2. copies \in Nat /\ request[r].phase \in Offering
    BY AuditAssumption DEF Fail, IInv, TypeOK
<1>. QED BY <1>1, <1>2, PublishAccounts DEF Fail

-----------------------------------------------------------------------------
(* The worker's part of the account. *)

LEMMA TakeAccounts ==
    ASSUME IInv, TypeOK', Accounted, NEW message \in Message, Take(message) PROVE Accounted'
<1>1. PICK o \in Events : o = message.event
    BY MessageOf
<1>2. \A e \in Events :
        /\ Copies(e) = Copies(e)' + IF e = o THEN 1 ELSE 0
        /\ Tasks(e) = 0 /\ Tasks(e)' = IF e = o THEN 1 ELSE 0
        /\ rows'[e] = rows[e] /\ doubts'[e] = doubts[e]
        /\ rows[e] \in Nat /\ Copies(e)' \in Nat
    <2>1. message # Nothing
        BY NothingAssumption
    <2>. QED BY <1>1, <2>1, TakeCounts, OnWayType, OnWayTypeNext DEF Take, IInv, Tasks
<1>3. \A e \in Events : OnWay(e)' = OnWay(e)
    BY <1>2 DEF OnWay
<1>4. Narrows
    BY NarrowsSame DEF Take, web, Accounted
<1>5. OnWay(o)' =< OnWay(o) /\ doubts'[o] >= doubts[o]
    BY <1>2, <1>3, OnWayType DEF OnWay, IInv
<1>. QED BY <1>2, <1>3, <1>4, <1>5, OneEvent DEF IInv

LEMMA TakeUnackedAccounts ==
    ASSUME IInv, TypeOK', Accounted, NEW message \in Message, TakeUnacked(message)
    PROVE  Accounted'
<1>1. PICK o \in Events : o = message.event
    BY MessageOf
<1>2. \A e \in Events :
        /\ Copies(e)' = Copies(e)
        /\ Tasks(e) = 0 /\ Tasks(e)' = IF e = o THEN 1 ELSE 0
        /\ rows'[e] = rows[e] /\ doubts'[e] = doubts[e] + IF e = o THEN 1 ELSE 0
        /\ rows[e] \in Nat /\ Copies(e) \in Nat /\ doubts[e] \in Nat
    <2>1. message # Nothing
        BY NothingAssumption
    <2>. QED BY <1>1, <2>1, QueueKept, DoubtCounts, OnWayType DEF TakeUnacked, IInv, Tasks
<1>3. Copies(o) > 0
    <2>1. Copies(o) = Cardinality(CopiesFrom(queue, o))
        BY DEF Copies, CopySet, CopiesFrom, CopiesOfTry
    <2>2. queue \in [Message -> Nat] /\ queue[message] > 0
        BY DEF TakeUnacked, IInv, TypeOK
    <2>3. Copies(o) # 0
        BY <1>1, <2>1, <2>2, NoCopies
    <2>. QED BY <1>2, <2>3
<1>4. \A e \in Events \ {o} : OnWay(e)' = OnWay(e) /\ doubts'[e] = doubts[e]
    BY <1>2 DEF OnWay
<1>5. OnWay(o) > 0 /\ OnWay(o)' - doubts'[o] =< OnWay(o) - doubts[o]
    BY <1>2, <1>3 DEF OnWay
<1>6. Narrows
    BY NarrowsSame DEF TakeUnacked, web, Accounted
<1>. QED BY <1>4, <1>5, <1>6, OneEvent DEF IInv

\* A task ends: what it adds, a row or a retry, is in doubt but for one.
LEMMA TaskEndAccounts ==
    ASSUME IInv, TypeOK', Accounted, task # Nothing, task' = Nothing, UNCHANGED request,
           NEW o \in Events, o = task.event,
           NEW row \in Nat, NEW copies \in Nat, NEW doubt \in Nat, row + copies =< 1 + doubt,
           \A e \in Events :
              /\ rows'[e] = rows[e] + IF e = o THEN row ELSE 0
              /\ Copies(e)' = Copies(e) + IF e = o THEN copies ELSE 0
              /\ doubts'[e] = doubts[e] + IF e = o THEN doubt ELSE 0
    PROVE  Accounted'
<1>1. \A e \in Events :
        /\ Tasks(e) = (IF e = o THEN 1 ELSE 0) /\ Tasks(e)' = 0
        /\ rows[e] \in Nat /\ Copies(e) \in Nat /\ doubts[e] \in Nat
    BY TaskEndCounts, OnWayType DEF IInv
<1>2. \A e \in Events \ {o} : OnWay(e)' = OnWay(e) /\ doubts'[e] = doubts[e]
    BY <1>1 DEF OnWay
<1>3. OnWay(o) > 0 /\ OnWay(o)' - doubts'[o] =< OnWay(o) - doubts[o]
    BY <1>1 DEF OnWay
<1>4. Narrows
    BY NarrowsSame DEF Accounted
<1>. QED BY <1>2, <1>3, <1>4, OneEvent DEF IInv

LEMMA WriteAccounts == ASSUME IInv, TypeOK', Accounted, Write PROVE Accounted'
<1>1. PICK o \in Events : o = task.event
    BY TaskTyped DEF Write, IInv
<1>2. \A e \in Events :
        /\ rows'[e] = rows[e] + IF e = o THEN 1 ELSE 0
        /\ Copies(e)' = Copies(e) + IF e = o THEN 0 ELSE 0
        /\ doubts'[e] = doubts[e] + IF e = o THEN 0 ELSE 0
    BY <1>1, InsertCounts, QueueKept, OnWayType DEF Write, IInv
<1>. QED BY <1>1, <1>2, TaskEndAccounts DEF Write, web

LEMMA LogRefusesAccounts == ASSUME IInv, TypeOK', Accounted, LogRefuses PROVE Accounted'
<1>1. PICK o \in Events : o = task.event
    BY TaskTyped DEF LogRefuses, IInv
<1>2. \A e \in Events :
        /\ rows'[e] = rows[e] + IF e = o THEN 0 ELSE 0
        /\ Copies(e)' = Copies(e) + IF e = o THEN 0 ELSE 0
        /\ doubts'[e] = doubts[e] + IF e = o THEN 0 ELSE 0
    BY QueueKept, OnWayType DEF LogRefuses, IInv
<1>. QED BY <1>1, <1>2, TaskEndAccounts DEF LogRefuses, web

LEMMA RetryAccounts == ASSUME IInv, TypeOK', Accounted, Retry PROVE Accounted'
<1>1. PICK o \in Events : o = task.event
    BY TaskTyped DEF Retry, IInv
<1>2. PICK message \in Message : message = NextTry /\ message.event = o
    BY <1>1, NextTryTyped, TaskTyped DEF Retry, IInv
<1>3. PICK committed \in 0 .. 1, copies \in 0 .. PublishTries :
        Insert(o, committed) /\ Store(message, copies) /\ Doubt(o, committed + Extra(copies))
    BY <1>1, <1>2 DEF Retry
<1>4. copies \in Nat /\ committed \in Nat /\ committed + Extra(copies) \in Nat
    BY ExtraType, AuditAssumption
<1>5. committed + copies =< 1 + (committed + Extra(copies))
    BY <1>4 DEF Extra
<1>6. \A e \in Events :
        /\ rows'[e] = rows[e] + IF e = o THEN committed ELSE 0
        /\ Copies(e)' = Copies(e) + IF e = o THEN copies ELSE 0
        /\ doubts'[e] = doubts[e] + IF e = o THEN committed + Extra(copies) ELSE 0
    BY <1>2, <1>3, <1>4, InsertCounts, StoreCounts, DoubtCounts DEF IInv
<1>. QED BY <1>1, <1>4, <1>5, <1>6, TaskEndAccounts DEF Retry, web

LEMMA GiveUpAccounts == ASSUME IInv, TypeOK', Accounted, GiveUp PROVE Accounted'
<1>1. PICK o \in Events : o = task.event
    BY TaskTyped DEF GiveUp, IInv
<1>2. PICK committed \in 0 .. 1 : Insert(o, committed) /\ Doubt(o, committed)
    BY <1>1 DEF GiveUp
<1>3. committed \in Nat
    OBVIOUS
<1>4. \A e \in Events :
        /\ rows'[e] = rows[e] + IF e = o THEN committed ELSE 0
        /\ Copies(e)' = Copies(e) + IF e = o THEN 0 ELSE 0
        /\ doubts'[e] = doubts[e] + IF e = o THEN committed ELSE 0
    BY <1>2, <1>3, InsertCounts, DoubtCounts, QueueKept, OnWayType DEF GiveUp, IInv
<1>. QED BY <1>1, <1>3, <1>4, TaskEndAccounts DEF GiveUp, web

LEMMA WorkerDiesAccounts == ASSUME IInv, TypeOK', Accounted, WorkerDies PROVE Accounted'
<1>1. PICK o \in Events : o = task.event
    BY TaskTyped DEF WorkerDies, IInv
<1>2. PICK committed \in 0 .. 1 : Insert(o, committed)
    BY <1>1 DEF WorkerDies
<1>3. committed \in Nat /\ committed + 0 =< 1 + 0
    OBVIOUS
<1>4. \A e \in Events :
        /\ rows'[e] = rows[e] + IF e = o THEN committed ELSE 0
        /\ Copies(e)' = Copies(e) + IF e = o THEN 0 ELSE 0
        /\ doubts'[e] = doubts[e] + IF e = o THEN 0 ELSE 0
    BY <1>2, <1>3, InsertCounts, QueueKept, OnWayType DEF WorkerDies, IInv
<1>. QED BY <1>1, <1>3, <1>4, TaskEndAccounts DEF WorkerDies, web

LEMMA DeleteExpiredAccounts == ASSUME IInv, TypeOK', Accounted, DeleteExpired PROVE Accounted'
<1>1. PICK o \in Events : rows' = [rows EXCEPT ![o] = 0]
    BY DEF DeleteExpired
<1>2. \A e \in Events :
        /\ rows'[e] = IF e = o THEN 0 ELSE rows[e]
        /\ Copies(e)' = Copies(e) /\ Tasks(e)' = Tasks(e) /\ doubts'[e] = doubts[e]
        /\ rows[e] \in Nat /\ Copies(e) \in Nat /\ Tasks(e) \in Nat /\ doubts[e] \in Nat
    BY <1>1, QueueKept, OnWayType DEF DeleteExpired, IInv, TypeOK, Tasks
<1>3. \A e \in Events \ {o} : OnWay(e)' = OnWay(e) /\ doubts'[e] = doubts[e]
    BY <1>2 DEF OnWay
<1>4. OnWay(o)' =< OnWay(o) /\ doubts'[o] >= doubts[o]
    BY <1>2 DEF OnWay
<1>5. Narrows
    BY NarrowsSame DEF DeleteExpired, web, Accounted
<1>. QED BY <1>3, <1>4, <1>5, OneEvent DEF IInv

LEMMA InitAccounted == Init => Accounted
<1>. SUFFICES ASSUME Init PROVE Accounted
    OBVIOUS
<1>1. TypeOK
    BY InitIInv DEF IInv
<1>2. ASSUME NEW e \in Events PROVE OnWay(e) = 0
    <2>1. CopiesFrom(queue, e) = {}
        <3>1. \A n \in 0 .. MaxRetries : queue[[event |-> e, retries |-> n]] = 0
            BY DEF Init, Message
        <3>2. \A n \in 0 .. MaxRetries : CopiesOfTry(queue, e, n) = {}
            BY <3>1 DEF CopiesOfTry
        <3>. QED BY <3>2 DEF CopiesFrom
    <2>2. Copies(e) = 0
        BY <2>1, FS_EmptySet DEF Copies, CopySet, CopiesFrom, CopiesOfTry
    <2>. QED BY <2>2 DEF OnWay, Init, Tasks
<1>3. RowsAccounted
    BY <1>1, <1>2, OnWayType DEF RowsAccounted, OnWay
<1>4. HeldBack
    BY DEF Init, HeldBack, NewRequest
<1>5. \A r \in Requests : \A e \in Ahead(r) : OnWay(e) = 0
    BY <1>2 DEF Ahead, Events
<1>. QED BY <1>3, <1>4, <1>5 DEF Accounted

LEMMA AccountedInductive == IInv /\ TypeOK' /\ Accounted /\ [Next]_vars => Accounted'
<1>. SUFFICES ASSUME IInv, TypeOK', Accounted, [Next]_vars PROVE Accounted'
    OBVIOUS
<1>1. ASSUME NEW r \in Requests,
             Arrive(r) \/ ArriveUnread(r) \/ Respond(r) \/ RespondUnbuilt(r) \/ Drop(r)
      PROVE  Accounted'
    BY <1>1, ArriveAccounts, UnbuiltAccounts, RespondAccounts, DropAccounts
<1>2. ASSUME NEW r \in Requests, StartPublish(r) \/ Confirm(r) \/ Fail(r) PROVE Accounted'
    BY <1>2, StartPublishAccounts, ConfirmAccounts, FailAccounts
<1>3. ASSUME NEW message \in Message, Take(message) \/ TakeUnacked(message) PROVE Accounted'
    BY <1>3, TakeAccounts, TakeUnackedAccounts
<1>4. CASE Write \/ LogRefuses \/ Retry \/ GiveUp
    BY <1>4, WriteAccounts, LogRefusesAccounts, RetryAccounts, GiveUpAccounts
<1>5. CASE WebDies \/ WorkerDies \/ DeleteExpired
    BY <1>5, WebDiesAccounts, WorkerDiesAccounts, DeleteExpiredAccounts
<1>6. CASE Tick \/ UNCHANGED vars
    <2>1. UNCHANGED <<request, queue, task, rows, doubts>>
        BY <1>6 DEF Tick, web, vars
    <2>. QED BY <2>1, NarrowsSame, NothingCounted DEF Accounted
<1>. QED BY <1>1, <1>2, <1>3, <1>4, <1>5, <1>6 DEF Next

\* README.md:377: a row is in the database, on the queue and with the worker
\* once at most, and once more for each answer lost after the deed, for every
\* number of requests, tries, retries and deaths.
THEOREM RowsAccountedHolds == Spec => []RowsAccounted
<1>1. IInv => TypeOK
    BY DEF IInv
<1>2. Accounted => RowsAccounted
    BY DEF Accounted
<1>. QED BY <1>1, <1>2, InitAccounted, AccountedInductive, Invariance, PTL DEF Spec

-----------------------------------------------------------------------------
(* Whom a row names: ActingUser. *)

\* Until then the last user is the one it acts as or, once anonymous, the one
\* remembered; an answered request has recorded it.
ActingInv ==
    /\ user \in Anyone /\ last \in Anyone
    /\ last = IF user # Nobody THEN user ELSE remembered
    /\ LastUserRecorded

\* The row names the last user a request acted as, for any users and whatever
\* logs the request in or out on its way: _get_user_id prefers request.user,
\* and remember_logged_out_user keeps the user of the latest logout that had
\* one.
THEOREM LastUserRecordedHolds == ActingSpec => []LastUserRecorded
<1>1. ActingInit => ActingInv
  BY DEF ActingInit, ActingInv, Anyone, LastUserRecorded
<1>2. ActingInv /\ [ActingNext]_actingVars => ActingInv'
  <2> SUFFICES ASSUME ActingInv, [ActingNext]_actingVars
               PROVE  ActingInv'
    OBVIOUS
  <2> USE NobodyAssumption DEF ActingInv, Anyone, LastUserRecorded
  <2>1. ASSUME NEW u \in Users, LogIn(u), stage' # "answered"
        PROVE  ActingInv'
    BY <2>1 DEF LogIn
  <2>2. ASSUME LogOut, stage' # "answered"
        PROVE  ActingInv'
    BY <2>2 DEF LogOut
  <2>3. ASSUME Unchanged, stage' # "answered"
        PROVE  ActingInv'
    BY <2>3 DEF Unchanged
  <2>4. CASE Load
    BY <2>4, <2>1, <2>3 DEF Load
  <2>5. CASE ApplyTimeout
    BY <2>5, <2>2, <2>3 DEF ApplyTimeout
  <2>6. CASE View
    BY <2>6, <2>1, <2>2, <2>3 DEF View
  <2>7. CASE BuildResponse
    BY <2>7 DEF BuildResponse
  <2>8. CASE UNCHANGED actingVars
    BY <2>8 DEF actingVars
  <2> QED
    BY <2>4, <2>5, <2>6, <2>7, <2>8 DEF ActingNext
<1>3. ActingInv => LastUserRecorded
  BY DEF ActingInv
<1> QED
  BY <1>1, <1>2, <1>3, PTL DEF ActingSpec

-----------------------------------------------------------------------------
(* Documents and the walks of them, level by level: AuditRows. *)

\* The documents of each level.
LEMMA DocsLevels == Docs(0) = {} /\ \A n \in Nat : Docs(n + 1) = Deeper(Docs(n))
BY Nested!LevelDef DEF Docs

\* A pair whose first part is known.
LEMMA Tagged ==
    ASSUME NEW tag, NEW S, NEW value \in {tag} \X S
    PROVE  \E x \in S : value = <<tag, x>>
OBVIOUS

\* A document is a leaf, a list or a map of less deep ones.
LEMMA Shapes ==
    ASSUME NEW n \in Nat
    PROVE  /\ \A text \in Strings : <<"leaf", text>> \in Docs(n + 1)
           /\ \A list \in Seq(Docs(n)) : <<"list", list>> \in Docs(n + 1)
           /\ \A items \in Seq(Key \X Docs(n)) : <<"map", items>> \in Docs(n + 1)
           /\ \A value \in Docs(n + 1) :
                \/ \E text \in Strings : value = <<"leaf", text>>
                \/ \E list \in Seq(Docs(n)) : value = <<"list", list>>
                \/ \E items \in Seq(Key \X Docs(n)) : value = <<"map", items>>
<1>1. Docs(n + 1) = Deeper(Docs(n))
  BY DocsLevels
<1>2. ASSUME NEW value \in Docs(n + 1)
      PROVE  \/ \E text \in Strings : value = <<"leaf", text>>
             \/ \E list \in Seq(Docs(n)) : value = <<"list", list>>
             \/ \E items \in Seq(Key \X Docs(n)) : value = <<"map", items>>
  <2>1. value \in Deeper(Docs(n))
    BY <1>1
  <2>2. CASE value \in {"leaf"} \X Strings
    <3>1. \E text \in Strings : value = <<"leaf", text>>
      BY <2>2, Tagged
    <3>. QED
      BY <3>1
  <2>3. CASE value \in {"list"} \X Seq(Docs(n))
    <3>1. \E list \in Seq(Docs(n)) : value = <<"list", list>>
      BY <2>3, Tagged
    <3>. QED
      BY <3>1
  <2>4. CASE value \in {"map"} \X Seq(Key \X Docs(n))
    <3>1. \E items \in Seq(Key \X Docs(n)) : value = <<"map", items>>
      BY <2>4, Tagged
    <3>. QED
      BY <3>1
  <2>. QED
    BY <2>1, <2>2, <2>3, <2>4, Zenon DEF Deeper
<1>3. \A text \in Strings : <<"leaf", text>> \in Deeper(Docs(n))
  BY Zenon DEF Deeper
<1>4. \A list \in Seq(Docs(n)) : <<"list", list>> \in Deeper(Docs(n))
  BY DEF Deeper
<1>5. \A items \in Seq(Key \X Docs(n)) : <<"map", items>> \in Deeper(Docs(n))
  BY DEF Deeper
<1>. QED
  BY <1>1, <1>2, <1>3, <1>4, <1>5, Zenon

Reads(n) == Reading!Level[n]
Masks(n) == Masking!Level[n]
Cleans(n) == Cleaning!Level[n]

\* Each walk is defined on the documents of its level.
LEMMA ReadsLevels ==
    /\ DOMAIN Reads(0) = {}
    /\ \A n \in Nat : Reads(n + 1) = TextsUp(Reads(n)) /\ DOMAIN Reads(n) = Docs(n)
<1>1. DOMAIN Reads(0) = {}
  BY Reading!LevelDef DEF Reads, NoWalk
<1>2. \A n \in Nat : Reads(n + 1) = TextsUp(Reads(n))
  BY Reading!LevelDef DEF Reads
<1>. DEFINE S == {n \in Nat : DOMAIN Reads(n) = Docs(n)}
<1>3. S \in SUBSET Nat /\ 0 \in S
  BY <1>1, DocsLevels
<1>4. ASSUME NEW n \in S
      PROVE  n + 1 \in S
  <2>1. n \in Nat /\ n + 1 \in Nat
    OBVIOUS
  <2>2. DOMAIN TextsUp(Reads(n)) = Deeper(Docs(n))
    BY DEF TextsUp
  <2>. QED
    BY <1>2, <2>1, <2>2, DocsLevels
<1>. HIDE DEF S
<1>5. \A n \in Nat : n \in S
  BY <1>3, <1>4, Nested!Induction
<1>. QED
  BY <1>1, <1>2, <1>5 DEF S

\* The texts of a leaf, a list and a map.
LEMMA TextsOf ==
    ASSUME NEW n \in Nat
    PROVE  /\ \A text \in Strings : Reads(n + 1)[<<"leaf", text>>] = {<<{}, text>>}
           /\ \A list \in Seq(Docs(n)) : Reads(n + 1)[<<"list", list>>] = UNION {Reads(n)[list[i]] : i \in DOMAIN list}
           /\ \A items \in Seq(Key \X Docs(n)) :
                Reads(n + 1)[<<"map", items>>] =
                  UNION {TextsBelow(Reads(n), items[i]) : i \in DOMAIN items}
<1>1. Reads(n + 1) = TextsUp(Reads(n)) /\ Deeper(DOMAIN Reads(n)) = Docs(n + 1)
  BY ReadsLevels, DocsLevels
<1>2. ASSUME NEW text \in Strings
      PROVE  Reads(n + 1)[<<"leaf", text>>] = {<<{}, text>>}
  <2>1. <<"leaf", text>> \in Docs(n + 1)
    BY Shapes
  <2>. QED
    BY <1>1, <2>1 DEF TextsUp
<1>3. ASSUME NEW list \in Seq(Docs(n))
      PROVE  Reads(n + 1)[<<"list", list>>] = UNION {Reads(n)[list[i]] : i \in DOMAIN list}
  <2>1. <<"list", list>> \in Docs(n + 1)
    BY Shapes
  <2>. QED
    BY <1>1, <2>1 DEF TextsUp
<1>4. ASSUME NEW items \in Seq(Key \X Docs(n))
      PROVE  Reads(n + 1)[<<"map", items>>] =
               UNION {TextsBelow(Reads(n), items[i]) : i \in DOMAIN items}
  <2>1. <<"map", items>> \in Docs(n + 1)
    BY Shapes
  <2>. QED
    BY <1>1, <2>1 DEF TextsUp
<1>. QED
  BY <1>2, <1>3, <1>4

(* The same for masking and for NULs. *)
LEMMA MasksLevels ==
    /\ DOMAIN Masks(0) = {}
    /\ \A n \in Nat : Masks(n + 1) = MaskUp(Masks(n)) /\ DOMAIN Masks(n) = Docs(n)
<1>1. DOMAIN Masks(0) = {}
  BY Masking!LevelDef DEF Masks, NoWalk
<1>2. \A n \in Nat : Masks(n + 1) = MaskUp(Masks(n))
  BY Masking!LevelDef DEF Masks
<1>. DEFINE S == {n \in Nat : DOMAIN Masks(n) = Docs(n)}
<1>3. S \in SUBSET Nat /\ 0 \in S
  BY <1>1, DocsLevels
<1>4. ASSUME NEW n \in S
      PROVE  n + 1 \in S
  <2>1. n \in Nat /\ n + 1 \in Nat
    OBVIOUS
  <2>2. DOMAIN MaskUp(Masks(n)) = Deeper(Docs(n))
    BY DEF MaskUp
  <2>. QED
    BY <1>2, <2>1, <2>2, DocsLevels
<1>. HIDE DEF S
<1>5. \A n \in Nat : n \in S
  BY <1>3, <1>4, Nested!Induction
<1>. QED
  BY <1>1, <1>2, <1>5 DEF S

LEMMA CleansLevels ==
    /\ DOMAIN Cleans(0) = {}
    /\ \A n \in Nat : Cleans(n + 1) = WithoutNulUp(Cleans(n)) /\ DOMAIN Cleans(n) = Docs(n)
<1>1. DOMAIN Cleans(0) = {}
  BY Cleaning!LevelDef DEF Cleans, NoWalk
<1>2. \A n \in Nat : Cleans(n + 1) = WithoutNulUp(Cleans(n))
  BY Cleaning!LevelDef DEF Cleans
<1>. DEFINE S == {n \in Nat : DOMAIN Cleans(n) = Docs(n)}
<1>3. S \in SUBSET Nat /\ 0 \in S
  BY <1>1, DocsLevels
<1>4. ASSUME NEW n \in S
      PROVE  n + 1 \in S
  <2>1. n \in Nat /\ n + 1 \in Nat
    OBVIOUS
  <2>2. DOMAIN WithoutNulUp(Cleans(n)) = Deeper(Docs(n))
    BY DEF WithoutNulUp
  <2>. QED
    BY <1>2, <2>1, <2>2, DocsLevels
<1>. HIDE DEF S
<1>5. \A n \in Nat : n \in S
  BY <1>3, <1>4, Nested!Induction
<1>. QED
  BY <1>1, <1>2, <1>5 DEF S

\* The mask of a leaf, a list and a map.
LEMMA MaskOf ==
    ASSUME NEW n \in Nat
    PROVE  /\ \A text \in Strings : Masks(n + 1)[<<"leaf", text>>] = <<"leaf", text>>
           /\ \A list \in Seq(Docs(n)) :
                Masks(n + 1)[<<"list", list>>] = <<"list", [i \in DOMAIN list |-> Masks(n)[list[i]]]>>
           /\ \A items \in Seq(Key \X Docs(n)) :
                Masks(n + 1)[<<"map", items>>] = <<"map", [i \in DOMAIN items |-> MaskItem(Masks(n), items[i])]>>
<1>1. Masks(n + 1) = MaskUp(Masks(n)) /\ Deeper(DOMAIN Masks(n)) = Docs(n + 1)
  BY MasksLevels, DocsLevels
<1>2. ASSUME NEW text \in Strings
      PROVE  Masks(n + 1)[<<"leaf", text>>] = <<"leaf", text>>
  <2>1. <<"leaf", text>> \in Docs(n + 1)
    BY Shapes
  <2>. QED
    BY <1>1, <2>1 DEF MaskUp
<1>3. ASSUME NEW list \in Seq(Docs(n))
      PROVE  Masks(n + 1)[<<"list", list>>] = <<"list", [i \in DOMAIN list |-> Masks(n)[list[i]]]>>
  <2>1. <<"list", list>> \in Docs(n + 1)
    BY Shapes
  <2>. QED
    BY <1>1, <2>1 DEF MaskUp
<1>4. ASSUME NEW items \in Seq(Key \X Docs(n))
      PROVE  Masks(n + 1)[<<"map", items>>] = <<"map", [i \in DOMAIN items |-> MaskItem(Masks(n), items[i])]>>
  <2>1. <<"map", items>> \in Docs(n + 1)
    BY Shapes
  <2>. QED
    BY <1>1, <2>1 DEF MaskUp
<1>. QED
  BY <1>2, <1>3, <1>4

\* The same without NULs.
LEMMA CleanOf ==
    ASSUME NEW n \in Nat
    PROVE  /\ \A text \in Strings : Cleans(n + 1)[<<"leaf", text>>] = <<"leaf", CleanText(text)>>
           /\ \A list \in Seq(Docs(n)) :
                Cleans(n + 1)[<<"list", list>>] = <<"list", [i \in DOMAIN list |-> Cleans(n)[list[i]]]>>
           /\ \A items \in Seq(Key \X Docs(n)) :
                Cleans(n + 1)[<<"map", items>>] = <<"map", [i \in DOMAIN items |-> CleanItem(Cleans(n), items[i])]>>
<1>1. Cleans(n + 1) = WithoutNulUp(Cleans(n)) /\ Deeper(DOMAIN Cleans(n)) = Docs(n + 1)
  BY CleansLevels, DocsLevels
<1>2. ASSUME NEW text \in Strings
      PROVE  Cleans(n + 1)[<<"leaf", text>>] = <<"leaf", CleanText(text)>>
  <2>1. <<"leaf", text>> \in Docs(n + 1)
    BY Shapes
  <2>. QED
    BY <1>1, <2>1 DEF WithoutNulUp
<1>3. ASSUME NEW list \in Seq(Docs(n))
      PROVE  Cleans(n + 1)[<<"list", list>>] = <<"list", [i \in DOMAIN list |-> Cleans(n)[list[i]]]>>
  <2>1. <<"list", list>> \in Docs(n + 1)
    BY Shapes
  <2>. QED
    BY <1>1, <2>1 DEF WithoutNulUp
<1>4. ASSUME NEW items \in Seq(Key \X Docs(n))
      PROVE  Cleans(n + 1)[<<"map", items>>] = <<"map", [i \in DOMAIN items |-> CleanItem(Cleans(n), items[i])]>>
  <2>1. <<"map", items>> \in Docs(n + 1)
    BY Shapes
  <2>. QED
    BY <1>1, <2>1 DEF WithoutNulUp
<1>. QED
  BY <1>2, <1>3, <1>4

-----------------------------------------------------------------------------
(* What a description shows. *)

LEMMA ShortKeys ==
    ASSUME NEW S
    PROVE  /\ \A v \in S : <<v>> \in Seq(S) /\ Len(<<v>>) > 0
           /\ \A v, w \in S : <<v, w>> \in Seq(S) /\ Len(<<v, w>>) > 0
OBVIOUS

\* The last word of a key is the first of its reverse.
LEMMA LastWord ==
    ASSUME NEW S, NEW key \in Seq(S), Len(key) > 0
    PROVE  Reverse(key)[1] = key[Len(key)] /\ Len(Reverse(key)) = Len(key)
<1>1. 1 \in 1 .. Len(key) /\ Len(key) \in Nat
  OBVIOUS
<1> QED
  BY <1>1 DEF Reverse

\* A description has no secret key.
LEMMA DescribedPlain == ~IsSensitive(<<"content", "type">>) /\ ~IsSensitive(<<"size">>)
<1>1. ASSUME NEW key \in {<<"content", "type">>, <<"size">>}, NEW suffix \in SensitiveSuffixes
      PROVE  ~IsSuffix(suffix, key)
  <2>. DEFINE S == {"content", "type", "size", "api", "key", "token"}
  <2>1. key[Len(key)] \in {"type", "size"} /\ suffix[Len(suffix)] \in {"token", "key"}
    BY DEF SensitiveSuffixes
  <2>2. /\ key \in Seq(S) /\ Len(key) > 0
        /\ suffix \in Seq(S) /\ Len(suffix) > 0
    <3>1. /\ "content" \in S /\ "type" \in S /\ "size" \in S
          /\ "api" \in S /\ "key" \in S /\ "token" \in S
      OBVIOUS
    <3> HIDE DEF S
    <3> QED
      BY <3>1, ShortKeys, Zenon DEF SensitiveSuffixes
  <2>. HIDE DEF S
  <2>3. Reverse(key)[1] # Reverse(suffix)[1]
    BY <2>1, <2>2, LastWord
  <2>4. Len(suffix) > 0 /\ Len(Reverse(suffix)) = Len(suffix) /\ Len(Reverse(key)) = Len(key)
    BY <2>2, LastWord
  <2>5. Reverse(key) \in Seq(S) /\ Reverse(suffix) \in Seq(S)
    BY <2>2 DEF Reverse
  <2>6. ASSUME Len(Reverse(suffix)) =< Len(Reverse(key))
        PROVE  SubSeq(Reverse(suffix), 1, Len(Reverse(suffix)))[1] = Reverse(suffix)[1]
               /\ SubSeq(Reverse(key), 1, Len(Reverse(suffix)))[1] = Reverse(key)[1]
    BY <2>4, <2>5, <2>6
  <2> QED
    BY <2>3, <2>6 DEF IsSuffix, IsPrefix
<1>2. ASSUME NEW key \in {<<"content", "type">>, <<"size">>}, NEW part \in SensitiveParts
      PROVE  ~HasPart(key, part)
  <2> SUFFICES ASSUME NEW i \in 0 .. Len(key) - Len(part), SubSeq(key, i + 1, i + Len(part)) = part
               PROVE  FALSE
    BY DEF HasPart
  <2>1. part[1] \in {"password", "access"} /\ Len(part) \in {1, 2}
    BY DEF SensitiveParts
  <2>2. SubSeq(key, i + 1, i + Len(part))[1] = key[i + 1]
    BY <2>1
  <2>3. key[i + 1] \in {"content", "type", "size"}
    BY <2>1
  <2> QED
    BY <2>1, <2>2, <2>3
<1> QED
  BY <1>1, <1>2 DEF IsSensitive, SensitiveKeys

-----------------------------------------------------------------------------
(* Masking, at any depth. *)

\* Nothing but the replacement below secret keys; elsewhere what was there, and
\* all of it.
SafelyMasked(n, value) ==
    /\ Masks(n)[value] \in Docs(n)
    /\ \A text \in Reads(n)[Masks(n)[value]] :
         \/ text[2] = "***" /\ \E key \in text[1] : IsSensitive(key)
         \/ text \in Reads(n)[value] /\ \A key \in text[1] : ~IsSensitive(key)
    /\ \A text \in Reads(n)[value] :
         \/ \E key \in text[1] : IsSensitive(key)
         \/ text \in Reads(n)[Masks(n)[value]]
MaskSafe(n) == \A value \in Docs(n) : SafelyMasked(n, value)

LEMMA Replaced ==
    ASSUME NEW n \in Nat
    PROVE  Replacement \in Docs(n + 1) /\ Reads(n + 1)[Replacement] = {<<{}, "***">>}
<1>1. "***" \in Strings
  BY StringsAssumption
<1>. QED
  BY <1>1, Shapes, TextsOf DEF Replacement

\* Only level 0 is without documents.
LEMMA NotEmpty ==
    ASSUME NEW n \in Nat, NEW value \in Docs(n)
    PROVE  n - 1 \in Nat /\ n = (n - 1) + 1
BY DocsLevels

\* A redacted document holds the replacement and nothing else.
LEMMA RedactSafe ==
    ASSUME NEW n \in Nat, NEW value \in Docs(n)
    PROVE  /\ Redact(value) \in Docs(n)
           /\ \A text \in Reads(n)[Redact(value)] : text = <<{}, "***">>
<1>. DEFINE k == n - 1
<1>1. k \in Nat /\ n = k + 1
  BY NotEmpty
<1>. HIDE DEF k
<1>2. CASE value[1] # "list"
  BY <1>1, <1>2, Replaced DEF Redact
<1>3. CASE value[1] = "list"
  <2>1. PICK list \in Seq(Docs(k)) : value = <<"list", list>>
    <3>1. \/ \E text \in Strings : value = <<"leaf", text>>
          \/ \E list \in Seq(Docs(k)) : value = <<"list", list>>
          \/ \E items \in Seq(Key \X Docs(k)) : value = <<"map", items>>
      BY <1>1, Shapes
    <3>. QED
      BY <1>3, <3>1
  <2>. DEFINE hidden == [i \in DOMAIN list |-> Replacement]
  <2>2. Redact(value) = <<"list", hidden>>
    BY <2>1 DEF Redact
  <2>3. ASSUME NEW i \in DOMAIN list
        PROVE  Replacement \in Docs(k) /\ Reads(k)[Replacement] = {<<{}, "***">>}
    <3>1. list[i] \in Docs(k)
      BY <2>1
    <3>2. k - 1 \in Nat /\ k = (k - 1) + 1
      BY <1>1, <3>1, NotEmpty
    <3>. QED
      BY <3>2, Replaced
  <2>4. hidden \in Seq(Docs(k)) /\ DOMAIN hidden = DOMAIN list /\ \A i \in DOMAIN list : hidden[i] = Replacement
    <3>1. \A i \in 1 .. Len(list) : Replacement \in Docs(k)
      BY <2>3
    <3>. QED
      BY <3>1
  <2>. HIDE DEF hidden
  <2>5. Reads(n)[<<"list", hidden>>] = UNION {Reads(k)[hidden[i]] : i \in DOMAIN hidden}
    BY <1>1, <2>4, TextsOf
  <2>6. <<"list", hidden>> \in Docs(n)
    BY <1>1, <2>4, Shapes
  <2>. QED
    BY <2>2, <2>3, <2>4, <2>5, <2>6
<1>. QED
  BY <1>2, <1>3

LEMMA MaskSafeLeaf ==
    ASSUME NEW n \in Nat, NEW leaf \in Strings
    PROVE  SafelyMasked(n + 1, <<"leaf", leaf>>)
<1>1. <<"leaf", leaf>> \in Docs(n + 1) /\ Masks(n + 1)[<<"leaf", leaf>>] = <<"leaf", leaf>>
      /\ Reads(n + 1)[<<"leaf", leaf>>] = {<<{}, leaf>>}
  BY Shapes, MaskOf, TextsOf
<1>. QED
  BY <1>1 DEF SafelyMasked

LEMMA MaskSafeList ==
    ASSUME NEW n \in Nat, MaskSafe(n), NEW list \in Seq(Docs(n))
    PROVE  SafelyMasked(n + 1, <<"list", list>>)
<1>. DEFINE masked == [i \in DOMAIN list |-> Masks(n)[list[i]]]
<1>1. Masks(n + 1)[<<"list", list>>] = <<"list", masked>>
  BY MaskOf
<1>2. \A i \in 1 .. Len(list) : list[i] \in Docs(n) /\ Masks(n)[list[i]] \in Docs(n)
  BY DEF MaskSafe, SafelyMasked
<1>3. masked \in Seq(Docs(n)) /\ DOMAIN masked = DOMAIN list /\ \A i \in DOMAIN list : masked[i] = Masks(n)[list[i]]
  BY <1>2
<1>. HIDE DEF masked
<1>4. Reads(n + 1)[<<"list", masked>>] = UNION {Reads(n)[masked[i]] : i \in DOMAIN masked}
  BY <1>3, TextsOf
<1>5. Reads(n + 1)[<<"list", list>>] = UNION {Reads(n)[list[i]] : i \in DOMAIN list}
  BY TextsOf
<1>6. ASSUME NEW text \in Reads(n + 1)[<<"list", masked>>]
      PROVE  \/ text[2] = "***" /\ \E key \in text[1] : IsSensitive(key)
             \/ text \in Reads(n + 1)[<<"list", list>>] /\ \A key \in text[1] : ~IsSensitive(key)
  <2>1. PICK i \in DOMAIN list : text \in Reads(n)[Masks(n)[list[i]]]
    BY <1>3, <1>4
  <2>2. list[i] \in Docs(n)
    OBVIOUS
  <2>3. \/ text[2] = "***" /\ \E key \in text[1] : IsSensitive(key)
        \/ text \in Reads(n)[list[i]] /\ \A key \in text[1] : ~IsSensitive(key)
    BY <2>1, <2>2 DEF MaskSafe, SafelyMasked
  <2>. QED
    BY <2>3, <1>5
<1>7. <<"list", masked>> \in Docs(n + 1)
  BY <1>3, Shapes
<1>8. ASSUME NEW text \in Reads(n + 1)[<<"list", list>>], \A key \in text[1] : ~IsSensitive(key)
      PROVE  text \in Reads(n + 1)[<<"list", masked>>]
  <2>1. PICK i \in DOMAIN list : text \in Reads(n)[list[i]]
    BY <1>5
  <2>2. list[i] \in Docs(n)
    OBVIOUS
  <2>3. text \in Reads(n)[Masks(n)[list[i]]]
    BY <1>8, <2>1, <2>2 DEF MaskSafe, SafelyMasked
  <2>. QED
    BY <2>3, <1>3, <1>4
<1>. QED
  BY <1>1, <1>6, <1>7, <1>8 DEF SafelyMasked

\* The texts below an item are its key's, and those of its document.
LEMMA BelowItem ==
    ASSUME NEW texts, NEW item
    PROVE  \A text : text \in TextsBelow(texts, item) <=>
             \/ text = <<{}, item[1].rest>>
             \/ \E inner \in texts[item[2]] : text = <<inner[1] \union {item[1].name}, inner[2]>>
BY DEF TextsBelow

LEMMA MaskSafeMap ==
    ASSUME NEW n \in Nat, MaskSafe(n), NEW items \in Seq(Key \X Docs(n))
    PROVE  SafelyMasked(n + 1, <<"map", items>>)
<1>. DEFINE masked == [i \in DOMAIN items |-> MaskItem(Masks(n), items[i])]
<1>1. Masks(n + 1)[<<"map", items>>] = <<"map", masked>>
  BY MaskOf
<1>2. ASSUME NEW i \in 1 .. Len(items)
      PROVE  /\ items[i][1] \in Key /\ items[i][2] \in Docs(n)
             /\ MaskItem(Masks(n), items[i]) \in Key \X Docs(n)
  <2>1. items[i][1] \in Key /\ items[i][2] \in Docs(n)
    OBVIOUS
  <2>2. Masks(n)[items[i][2]] \in Docs(n) /\ Redact(items[i][2]) \in Docs(n)
    BY <2>1, RedactSafe DEF MaskSafe, SafelyMasked
  <2>. QED
    BY <2>1, <2>2 DEF MaskItem
<1>3. masked \in Seq(Key \X Docs(n)) /\ DOMAIN masked = DOMAIN items /\ \A i \in DOMAIN items : masked[i] = MaskItem(Masks(n), items[i])
  BY <1>2
<1>. HIDE DEF masked
<1>4. Reads(n + 1)[<<"map", masked>>] = UNION {TextsBelow(Reads(n), masked[i]) : i \in DOMAIN masked}
  BY <1>3, TextsOf
<1>5. Reads(n + 1)[<<"map", items>>] = UNION {TextsBelow(Reads(n), items[i]) : i \in DOMAIN items}
  BY TextsOf
<1>6. ASSUME NEW text \in Reads(n + 1)[<<"map", masked>>]
      PROVE  \/ text[2] = "***" /\ \E key \in text[1] : IsSensitive(key)
             \/ text \in Reads(n + 1)[<<"map", items>>] /\ \A key \in text[1] : ~IsSensitive(key)
  <2>1. PICK i \in DOMAIN items : text \in TextsBelow(Reads(n), MaskItem(Masks(n), items[i]))
    BY <1>3, <1>4
  <2>. DEFINE key == items[i][1]
              name == key.name
              doc == items[i][2]
              shown == IF IsSensitive(name) THEN Redact(doc) ELSE Masks(n)[doc]
  <2>2. doc \in Docs(n) /\ MaskItem(Masks(n), items[i]) = <<key, shown>>
    BY <1>2 DEF MaskItem
  <2>3. CASE text = <<{}, key.rest>>
    <3>1. text \in TextsBelow(Reads(n), items[i])
      BY <2>3, BelowItem
    <3>. QED
      BY <1>5, <2>3, <3>1
  <2>4. ASSUME text # <<{}, key.rest>>
        PROVE  \E inner \in Reads(n)[shown] : text = <<inner[1] \union {name}, inner[2]>>
    <3>. DEFINE item == <<key, shown>>
    <3>1. item[1] = key /\ item[2] = shown
      OBVIOUS
    <3>2. text \in TextsBelow(Reads(n), item)
      BY <2>1, <2>2
    <3>. HIDE DEF item, shown
    <3>3. \/ text = <<{}, item[1].rest>>
          \/ \E inner \in Reads(n)[item[2]] : text = <<inner[1] \union {item[1].name}, inner[2]>>
      BY <3>2, BelowItem
    <3>. QED
      BY <2>4, <3>1, <3>3
  <2>5. CASE IsSensitive(name) /\ text # <<{}, key.rest>>
    <3>1. PICK inner \in Reads(n)[Redact(doc)] : text = <<inner[1] \union {name}, inner[2]>>
      BY <2>5, <2>4
    <3>2. inner = <<{}, "***">>
      BY <2>2, RedactSafe
    <3>. QED
      BY <2>5, <3>1, <3>2
  <2>6. CASE ~IsSensitive(name) /\ text # <<{}, key.rest>>
    <3>1. PICK inner \in Reads(n)[Masks(n)[doc]] : text = <<inner[1] \union {name}, inner[2]>>
      BY <2>6, <2>4
    <3>2. \/ inner[2] = "***" /\ \E k \in inner[1] : IsSensitive(k)
          \/ inner \in Reads(n)[doc] /\ \A k \in inner[1] : ~IsSensitive(k)
      BY <2>2, <3>1 DEF MaskSafe, SafelyMasked
    <3>3. CASE inner[2] = "***" /\ \E k \in inner[1] : IsSensitive(k)
      BY <3>1, <3>3
    <3>4. CASE inner \in Reads(n)[doc] /\ \A k \in inner[1] : ~IsSensitive(k)
      <4>1. text \in TextsBelow(Reads(n), items[i])
        BY <3>1, <3>4, BelowItem
      <4>2. text \in Reads(n + 1)[<<"map", items>>]
        BY <1>5, <4>1
      <4>3. \A k \in text[1] : ~IsSensitive(k)
        BY <2>6, <3>1, <3>4
      <4>. QED
        BY <4>2, <4>3
    <3>. QED
      BY <3>2, <3>3, <3>4
  <2>. QED
    BY <2>3, <2>5, <2>6
<1>7. <<"map", masked>> \in Docs(n + 1)
  BY <1>3, Shapes
<1>8. ASSUME NEW text \in Reads(n + 1)[<<"map", items>>], \A key \in text[1] : ~IsSensitive(key)
      PROVE  text \in Reads(n + 1)[<<"map", masked>>]
  <2>1. PICK i \in DOMAIN items : text \in TextsBelow(Reads(n), items[i])
    BY <1>5
  <2>. DEFINE key == items[i][1]
              name == key.name
              doc == items[i][2]
              item == MaskItem(Masks(n), items[i])
  <2>2. /\ item[1] = key
        /\ ~IsSensitive(name) => item[2] = Masks(n)[doc]
    BY DEF MaskItem
  <2>. HIDE DEF item
  <2>3. CASE text = <<{}, key.rest>>
    <3>1. text \in TextsBelow(Reads(n), item)
      BY <2>2, <2>3, BelowItem
    <3>. QED
      BY <3>1, <1>3, <1>4 DEF item
  <2>4. CASE text # <<{}, key.rest>>
    <3>1. PICK inner \in Reads(n)[doc] : text = <<inner[1] \union {name}, inner[2]>>
      BY <2>1, <2>4, BelowItem
    <3>2. ~IsSensitive(name) /\ \A k \in inner[1] : ~IsSensitive(k)
      BY <1>8, <3>1
    <3>3. inner \in Reads(n)[Masks(n)[doc]]
      BY <1>2, <3>1, <3>2 DEF MaskSafe, SafelyMasked
    <3>4. text \in TextsBelow(Reads(n), item)
      BY <2>2, <3>1, <3>2, <3>3, BelowItem
    <3>. QED
      BY <3>4, <1>3, <1>4 DEF item
  <2>. QED
    BY <2>3, <2>4
<1>. QED
  BY <1>1, <1>6, <1>7, <1>8 DEF SafelyMasked

\* Masking is safe at any depth.
LEMMA MaskIsSafe == \A n \in Nat : MaskSafe(n)
<1>. DEFINE S == {n \in Nat : MaskSafe(n)}
<1>1. S \in SUBSET Nat /\ 0 \in S
  BY DocsLevels DEF MaskSafe, SafelyMasked
<1>2. ASSUME NEW n \in S
      PROVE  n + 1 \in S
  <2>1. n \in Nat /\ n + 1 \in Nat /\ MaskSafe(n)
    OBVIOUS
  <2>2. ASSUME NEW value \in Docs(n + 1)
        PROVE  SafelyMasked(n + 1, value)
    <3>1. CASE \E leaf \in Strings : value = <<"leaf", leaf>>
      BY <2>1, <3>1, MaskSafeLeaf
    <3>2. CASE \E list \in Seq(Docs(n)) : value = <<"list", list>>
      BY <2>1, <3>2, MaskSafeList
    <3>3. CASE \E items \in Seq(Key \X Docs(n)) : value = <<"map", items>>
      BY <2>1, <3>3, MaskSafeMap
    <3>. QED
      BY <2>1, <3>1, <3>2, <3>3, Shapes
  <2>3. MaskSafe(n + 1)
    BY <2>2 DEF MaskSafe, SafelyMasked
  <2>. QED
    BY <2>1, <2>3
<1>. HIDE DEF S
<1>3. \A n \in Nat : n \in S
  BY <1>1, <1>2, Nested!Induction
<1>. QED
  BY <1>3 DEF S

-----------------------------------------------------------------------------
(* Replacing NULs, at any depth. *)

\* No NUL; and what was there, or replaces a NUL that was.
SafelyCleaned(n, value) ==
    /\ Cleans(n)[value] \in Docs(n)
    /\ \A text \in Reads(n)[Cleans(n)[value]] :
         /\ text[2] # "NUL"
         /\ \/ text \in Reads(n)[value]
            \/ text[2] = "replaced" /\ <<text[1], "NUL">> \in Reads(n)[value]
CleanSafe(n) == \A value \in Docs(n) : SafelyCleaned(n, value)

LEMMA CleanSafeLeaf ==
    ASSUME NEW n \in Nat, NEW leaf \in Strings
    PROVE  SafelyCleaned(n + 1, <<"leaf", leaf>>)
<1>1. CASE leaf = "NUL"
  <2>1. "replaced" \in Strings
    BY StringsAssumption
  <2>2. /\ <<"leaf", "replaced">> \in Docs(n + 1)
        /\ Cleans(n + 1)[<<"leaf", leaf>>] = <<"leaf", "replaced">>
        /\ Reads(n + 1)[<<"leaf", "replaced">>] = {<<{}, "replaced">>}
        /\ Reads(n + 1)[<<"leaf", leaf>>] = {<<{}, "NUL">>}
    BY <1>1, <2>1, Shapes, CleanOf, TextsOf DEF CleanText
  <2>. QED
    BY <2>2 DEF SafelyCleaned
<1>2. CASE leaf # "NUL"
  <2>1. /\ <<"leaf", leaf>> \in Docs(n + 1)
        /\ Cleans(n + 1)[<<"leaf", leaf>>] = <<"leaf", leaf>>
        /\ Reads(n + 1)[<<"leaf", leaf>>] = {<<{}, leaf>>}
    BY <1>2, Shapes, CleanOf, TextsOf DEF CleanText
  <2>. QED
    BY <1>2, <2>1 DEF SafelyCleaned
<1>. QED
  BY <1>1, <1>2

LEMMA CleanSafeList ==
    ASSUME NEW n \in Nat, CleanSafe(n), NEW list \in Seq(Docs(n))
    PROVE  SafelyCleaned(n + 1, <<"list", list>>)
<1>. DEFINE clean == [i \in DOMAIN list |-> Cleans(n)[list[i]]]
<1>1. Cleans(n + 1)[<<"list", list>>] = <<"list", clean>>
  BY CleanOf
<1>2. \A i \in 1 .. Len(list) : list[i] \in Docs(n) /\ Cleans(n)[list[i]] \in Docs(n)
  BY DEF CleanSafe, SafelyCleaned
<1>3. /\ clean \in Seq(Docs(n)) /\ DOMAIN clean = DOMAIN list
      /\ \A i \in DOMAIN list : clean[i] = Cleans(n)[list[i]]
  BY <1>2
<1>. HIDE DEF clean
<1>4. Reads(n + 1)[<<"list", clean>>] = UNION {Reads(n)[clean[i]] : i \in DOMAIN clean}
  BY <1>3, TextsOf
<1>5. Reads(n + 1)[<<"list", list>>] = UNION {Reads(n)[list[i]] : i \in DOMAIN list}
  BY TextsOf
<1>6. ASSUME NEW text \in Reads(n + 1)[<<"list", clean>>]
      PROVE  /\ text[2] # "NUL"
             /\ \/ text \in Reads(n + 1)[<<"list", list>>]
                \/ text[2] = "replaced" /\ <<text[1], "NUL">> \in Reads(n + 1)[<<"list", list>>]
  <2>1. PICK i \in DOMAIN list : text \in Reads(n)[Cleans(n)[list[i]]]
    BY <1>3, <1>4
  <2>2. list[i] \in Docs(n)
    OBVIOUS
  <2>3. /\ text[2] # "NUL"
        /\ \/ text \in Reads(n)[list[i]]
           \/ text[2] = "replaced" /\ <<text[1], "NUL">> \in Reads(n)[list[i]]
    BY <2>1, <2>2 DEF CleanSafe, SafelyCleaned
  <2>. QED
    BY <2>3, <1>5
<1>7. <<"list", clean>> \in Docs(n + 1)
  BY <1>3, Shapes
<1>. QED
  BY <1>1, <1>6, <1>7 DEF SafelyCleaned

LEMMA CleanSafeMap ==
    ASSUME NEW n \in Nat, CleanSafe(n), NEW items \in Seq(Key \X Docs(n))
    PROVE  SafelyCleaned(n + 1, <<"map", items>>)
<1>. DEFINE clean == [i \in DOMAIN items |-> CleanItem(Cleans(n), items[i])]
<1>1. Cleans(n + 1)[<<"map", items>>] = <<"map", clean>>
  BY CleanOf
<1>2. ASSUME NEW i \in 1 .. Len(items)
      PROVE  /\ items[i][1] \in Key /\ items[i][2] \in Docs(n)
             /\ CleanItem(Cleans(n), items[i]) \in Key \X Docs(n)
  <2>1. items[i][1] \in Key /\ items[i][2] \in Docs(n)
    OBVIOUS
  <2>2. Cleans(n)[items[i][2]] \in Docs(n)
    BY <2>1 DEF CleanSafe, SafelyCleaned
  <2>3. [items[i][1] EXCEPT !.rest = CleanText(@)] \in Key
    BY <2>1 DEF Key, Rest, CleanText
  <2>. QED
    BY <2>1, <2>2, <2>3 DEF CleanItem
<1>3. /\ clean \in Seq(Key \X Docs(n)) /\ DOMAIN clean = DOMAIN items
      /\ \A i \in DOMAIN items : clean[i] = CleanItem(Cleans(n), items[i])
  BY <1>2
<1>. HIDE DEF clean
<1>4. Reads(n + 1)[<<"map", clean>>] = UNION {TextsBelow(Reads(n), clean[i]) : i \in DOMAIN clean}
  BY <1>3, TextsOf
<1>5. Reads(n + 1)[<<"map", items>>] = UNION {TextsBelow(Reads(n), items[i]) : i \in DOMAIN items}
  BY TextsOf
<1>6. ASSUME NEW text \in Reads(n + 1)[<<"map", clean>>]
      PROVE  /\ text[2] # "NUL"
             /\ \/ text \in Reads(n + 1)[<<"map", items>>]
                \/ text[2] = "replaced" /\ <<text[1], "NUL">> \in Reads(n + 1)[<<"map", items>>]
  <2>1. PICK i \in DOMAIN items : text \in TextsBelow(Reads(n), CleanItem(Cleans(n), items[i]))
    BY <1>3, <1>4
  <2>. DEFINE key == items[i][1]
              name == key.name
              doc == items[i][2]
              item == CleanItem(Cleans(n), items[i])
  <2>2. item[1].name = name /\ item[1].rest = CleanText(key.rest) /\ item[2] = Cleans(n)[doc]
    BY <1>2 DEF CleanItem, Key
  <2>. HIDE DEF item
  <2>3. CASE text = <<{}, CleanText(key.rest)>>
    <3>1. <<{}, key.rest>> \in Reads(n + 1)[<<"map", items>>]
      <4>1. <<{}, key.rest>> \in TextsBelow(Reads(n), items[i])
        BY BelowItem
      <4>. QED
        BY <1>5, <4>1
    <3>2. CASE key.rest = "NUL"
      BY <2>3, <3>1, <3>2 DEF CleanText
    <3>3. CASE key.rest # "NUL"
      BY <2>3, <3>1, <3>3 DEF CleanText
    <3>. QED
      BY <3>2, <3>3
  <2>4. CASE text # <<{}, CleanText(key.rest)>>
    <3>1. PICK inner \in Reads(n)[Cleans(n)[doc]] : text = <<inner[1] \union {name}, inner[2]>>
      BY <2>1, <2>2, <2>4, BelowItem DEF item
    <3>2. /\ inner[2] # "NUL"
          /\ \/ inner \in Reads(n)[doc]
             \/ inner[2] = "replaced" /\ <<inner[1], "NUL">> \in Reads(n)[doc]
      BY <1>2, <3>1 DEF CleanSafe, SafelyCleaned
    <3>3. CASE inner \in Reads(n)[doc]
      <4>1. text \in TextsBelow(Reads(n), items[i])
        BY <3>1, <3>3, BelowItem
      <4>. QED
        BY <1>5, <3>1, <3>2, <4>1
    <3>4. CASE inner[2] = "replaced" /\ <<inner[1], "NUL">> \in Reads(n)[doc]
      <4>1. <<text[1], "NUL">> \in TextsBelow(Reads(n), items[i])
        BY <3>1, <3>4, BelowItem
      <4>. QED
        BY <1>5, <3>1, <3>2, <3>4, <4>1
    <3>. QED
      BY <3>2, <3>3, <3>4
  <2>. QED
    BY <2>3, <2>4
<1>7. <<"map", clean>> \in Docs(n + 1)
  BY <1>3, Shapes
<1>. QED
  BY <1>1, <1>6, <1>7 DEF SafelyCleaned

\* Replacing NULs is safe at any depth.
LEMMA CleanIsSafe == \A n \in Nat : CleanSafe(n)
<1>. DEFINE S == {n \in Nat : CleanSafe(n)}
<1>1. S \in SUBSET Nat /\ 0 \in S
  BY DocsLevels DEF CleanSafe, SafelyCleaned
<1>2. ASSUME NEW n \in S
      PROVE  n + 1 \in S
  <2>1. n \in Nat /\ n + 1 \in Nat /\ CleanSafe(n)
    OBVIOUS
  <2>2. ASSUME NEW value \in Docs(n + 1)
        PROVE  SafelyCleaned(n + 1, value)
    <3>1. CASE \E leaf \in Strings : value = <<"leaf", leaf>>
      BY <2>1, <3>1, CleanSafeLeaf
    <3>2. CASE \E list \in Seq(Docs(n)) : value = <<"list", list>>
      BY <2>1, <3>2, CleanSafeList
    <3>3. CASE \E items \in Seq(Key \X Docs(n)) : value = <<"map", items>>
      BY <2>1, <3>3, CleanSafeMap
    <3>. QED
      BY <2>1, <3>1, <3>2, <3>3, Shapes
  <2>3. CleanSafe(n + 1)
    BY <2>2 DEF CleanSafe, SafelyCleaned
  <2>. QED
    BY <2>1, <2>3
<1>. HIDE DEF S
<1>3. \A n \in Nat : n \in S
  BY <1>1, <1>2, Nested!Induction
<1>. QED
  BY <1>3 DEF S

-----------------------------------------------------------------------------
(* Rows and lines. *)

\* What a masked document shows, for documents within the limit.
LEMMA Masked ==
    ASSUME NEW value \in Docs(MaxDepth)
    PROVE  /\ Mask(value) \in Docs(MaxDepth)
           /\ \A text \in Texts(Mask(value)) :
                \/ text[2] = "***" /\ \E key \in text[1] : IsSensitive(key)
                \/ text \in Texts(value) /\ \A key \in text[1] : ~IsSensitive(key)
           /\ \A text \in Texts(value) :
                \/ \E key \in text[1] : IsSensitive(key)
                \/ text \in Texts(Mask(value))
<1>1. SafelyMasked(MaxDepth, value)
  BY MaskIsSafe, DepthAssumption DEF MaskSafe
<1>. QED
  BY <1>1 DEF SafelyMasked, Masks, Mask, Reads, Texts

\* DataMasker.mask hides what is below secret keys and nothing else, in maps and
\* lists of any depth: the rest of the document shows as it was sent.
THEOREM MaskExact ==
    ASSUME NEW value \in Docs(MaxDepth)
    PROVE  NoSecretIn(Mask(value)) /\ Visible(Mask(value)) = Visible(value)
<1>1. NoSecretIn(Mask(value))
  BY Masked DEF NoSecretIn, Visible
<1>2. Visible(Mask(value)) \subseteq Visible(value)
  BY Masked DEF Visible
<1>3. Visible(value) \subseteq Visible(Mask(value))
  BY Masked DEF Visible
<1>. QED
  BY <1>1, <1>2, <1>3

LEMMA Cleaned ==
    ASSUME NEW value \in Docs(MaxDepth)
    PROVE  /\ WithoutNul(value) \in Docs(MaxDepth)
           /\ \A text \in Texts(WithoutNul(value)) :
                /\ text[2] # "NUL"
                /\ \/ text \in Texts(value)
                   \/ text[2] = "replaced" /\ <<text[1], "NUL">> \in Texts(value)
<1>1. SafelyCleaned(MaxDepth, value)
  BY CleanIsSafe, DepthAssumption DEF CleanSafe
<1>. QED
  BY <1>1 DEF SafelyCleaned, Cleans, WithoutNul, Reads, Texts

\* A description is a document, and shows only itself.
LEMMA DescribedIsDoc ==
    /\ Described \in Docs(MaxDepth)
    /\ \A text \in Texts(Described) :
         text[2] \in {"about", "plain"} /\ \A key \in text[1] : ~IsSensitive(key)
<1>. DEFINE k == MaxDepth - 1
            j == MaxDepth - 2
            type == PlainKey(<<"content", "type">>)
            size == PlainKey(<<"size">>)
            items == <<<<type, About>>, <<size, About>>>>
<1>1. k \in Nat /\ MaxDepth = k + 1 /\ j \in Nat /\ k = j + 1
  BY DepthAssumption
<1>. HIDE DEF k, j
<1>2. About \in Docs(k) /\ Reads(k)[About] = {<<{}, "about">>}
  <2>1. "about" \in Strings
    BY StringsAssumption
  <2>. QED
    BY <1>1, <2>1, Shapes, TextsOf DEF About
<1>3. type \in Key /\ size \in Key
  <2>1. "content" \in Strings /\ "type" \in Strings /\ "size" \in Strings
    BY StringsAssumption
  <2>2. <<"content", "type">> \in Words /\ <<"size">> \in Words
    BY <2>1, ShortKeys, Zenon DEF Words
  <2>. QED
    BY <2>2 DEF Key, Rest, PlainKey
<1>4. /\ type.name = <<"content", "type">> /\ size.name = <<"size">>
       /\ type.rest = "plain" /\ size.rest = "plain"
  BY DEF PlainKey
<1>5. Described = <<"map", items>>
  BY DEF Described
<1>. HIDE DEF type, size
<1>6. items \in Seq(Key \X Docs(k)) /\ DOMAIN items = {1, 2}
  <2>1. <<type, About>> \in Key \X Docs(k) /\ <<size, About>> \in Key \X Docs(k)
    BY <1>2, <1>3
  <2>2. items \in Seq(Key \X Docs(k))
    BY <2>1, ShortKeys, Zenon
  <2>3. DOMAIN items = {1, 2}
    OBVIOUS
  <2>. QED
    BY <2>2, <2>3
<1>7. items[1] = <<type, About>> /\ items[2] = <<size, About>>
  OBVIOUS
<1>. HIDE DEF items
<1>8. Described \in Docs(MaxDepth)
  BY <1>1, <1>6, <1>5, Shapes
<1>9. Texts(Described) = UNION {TextsBelow(Reads(k), items[i]) : i \in DOMAIN items}
  <2>1. Reads(k + 1)[<<"map", items>>] = UNION {TextsBelow(Reads(k), items[i]) : i \in DOMAIN items}
    BY <1>1, <1>6, TextsOf
  <2>. QED
    BY <1>1, <1>5, <2>1 DEF Texts, Reads
<1>10. ASSUME NEW text \in Texts(Described)
      PROVE  text[2] \in {"about", "plain"} /\ \A key \in text[1] : ~IsSensitive(key)
  <2>1. PICK i \in DOMAIN items : text \in TextsBelow(Reads(k), items[i])
    BY <1>9
  <2>2. items[i][2] = About /\ items[i][1] \in {type, size}
    BY <1>6, <1>7
  <2>3. CASE text = <<{}, items[i][1].rest>>
    BY <1>4, <2>2, <2>3
  <2>4. CASE text # <<{}, items[i][1].rest>>
    <3>1. PICK inner \in Reads(k)[items[i][2]] : text = <<inner[1] \union {items[i][1].name}, inner[2]>>
      BY <2>1, <2>4, BelowItem
    <3>2. inner = <<{}, "about">>
      BY <1>2, <2>2, <3>1
    <3>3. text[1] = {items[i][1].name} /\ text[2] = "about"
      BY <3>1, <3>2
    <3>. QED
      BY <1>4, <2>2, <3>3, DescribedPlain
  <2>. QED
    BY <2>3, <2>4
<1>. QED
  BY <1>8, <1>10

LEMMA NoBodyIsDoc == NoBody \in Docs(MaxDepth) /\ Texts(NoBody) = {}
<1>. DEFINE k == MaxDepth - 1
<1>1. k \in Nat /\ MaxDepth = k + 1
  BY DepthAssumption
<1>. HIDE DEF k
<1>2. <<>> \in Seq(Key \X Docs(k)) /\ DOMAIN <<>> = {}
  OBVIOUS
<1>3. Reads(k + 1)[<<"map", <<>>>>] = UNION {TextsBelow(Reads(k), <<>>[i]) : i \in DOMAIN <<>>}
  BY <1>1, <1>2, TextsOf
<1>4. <<"map", <<>>>> \in Docs(MaxDepth)
  BY <1>1, <1>2, Shapes
<1>. QED
  BY <1>1, <1>2, <1>3, <1>4 DEF NoBody, Texts, Reads

\* A body is stored empty, described, or masked from a document jsonb takes.
LEMMA BodyCases ==
    ASSUME NEW body \in Bodies
    PROVE  \/ GetBody(body) = NoBody
           \/ GetBody(body) = Described
           \/ /\ body.value \in Docs(MaxDepth) /\ JsonbTakes(body.value)
              /\ GetBody(body) = Mask(body.value)
<1>1. body.type = "form" => body.value \in Docs(MaxDepth) /\ JsonbTakes(body.value)
  BY FormsAssumption DEF Bodies, JsonbTakes
<1>. QED
  BY <1>1 DEF GetBody

\* What a part of a row shows: all of it storable, below secret keys the
\* replacement, elsewhere what was sent.
Safe(sent, stored) ==
    \A text \in Texts(stored) :
        /\ Storable(text[2])
        /\ \/ text[2] = "***" /\ \E key \in text[1] : IsSensitive(key)
           \/ /\ \A key \in text[1] : ~IsSensitive(key)
              /\ \/ text \in Texts(Described)
                 \/ text \in Texts(sent)
                 \/ text[2] = "replaced" /\ <<text[1], "NUL">> \in Texts(sent)

LEMMA SafeShown ==
    ASSUME NEW sent, NEW stored, Safe(sent, stored)
    PROVE  NoSecretIn(stored) /\ OnlySent(sent, stored)
<1>1. NoSecretIn(stored)
  BY DEF Safe, NoSecretIn, Visible
<1>2. ASSUME NEW text \in Visible(stored)
      PROVE  \/ text \in Texts(Described)
             \/ text \in Visible(sent)
             \/ text[2] = "replaced" /\ <<text[1], "NUL">> \in Visible(sent)
  <2>1. /\ \A key \in text[1] : ~IsSensitive(key)
        /\ \/ text \in Texts(Described)
           \/ text \in Texts(sent)
           \/ text[2] = "replaced" /\ <<text[1], "NUL">> \in Texts(sent)
    BY DEF Safe, Visible
  <2>2. <<text[1], "NUL">>[1] = text[1]
    OBVIOUS
  <2>. QED
    BY <2>1, <2>2 DEF Visible
<1>. QED
  BY <1>1, <1>2 DEF OnlySent

\* Masked and cleaned, a document that jsonb takes is safe.
LEMMA FieldsSafe ==
    ASSUME NEW value \in Docs(MaxDepth), JsonbTakes(value)
    PROVE  Safe(value, StoredFields(value))
<1>. DEFINE masked == Mask(value)
<1>1. /\ masked \in Docs(MaxDepth)
      /\ \A t \in Texts(masked) :
           \/ t[2] = "***" /\ \E key \in t[1] : IsSensitive(key)
           \/ t \in Texts(value) /\ \A key \in t[1] : ~IsSensitive(key)
  BY Masked
<1>2. StoredFields(value) = WithoutNul(masked)
  BY DEF StoredFields
<1>. HIDE DEF masked
<1>. SUFFICES ASSUME NEW text \in Texts(WithoutNul(masked))
              PROVE  /\ Storable(text[2])
                     /\ \/ text[2] = "***" /\ \E key \in text[1] : IsSensitive(key)
                        \/ /\ \A key \in text[1] : ~IsSensitive(key)
                           /\ \/ text \in Texts(value)
                              \/ text[2] = "replaced" /\ <<text[1], "NUL">> \in Texts(value)
  BY <1>2 DEF Safe
<1>3. /\ text[2] # "NUL"
      /\ \/ text \in Texts(masked)
         \/ text[2] = "replaced" /\ <<text[1], "NUL">> \in Texts(masked)
  BY <1>1, Cleaned
<1>4. \A t \in Texts(value) : t[2] \notin Refused
  BY DEF JsonbTakes
<1>5. CASE text \in Texts(masked)
  BY <1>1, <1>3, <1>4, <1>5 DEF Storable, Refused
<1>6. CASE text[2] = "replaced" /\ <<text[1], "NUL">> \in Texts(masked)
  <2>. DEFINE t == <<text[1], "NUL">>
  <2>1. t[1] = text[1] /\ t[2] = "NUL" /\ t \in Texts(masked)
    BY <1>6
  <2>. HIDE DEF t
  <2>2. t \in Texts(value) /\ \A key \in text[1] : ~IsSensitive(key)
    BY <1>1, <2>1
  <2>. QED
    BY <1>6, <2>2 DEF Storable, Refused, t
<1>. QED
  BY <1>3, <1>5, <1>6

\* A body is safe, also described or empty.
LEMMA BodySafe == ASSUME NEW body \in Bodies PROVE Safe(body.value, StoredBody(body))
<1>1. CASE GetBody(body) = NoBody
  BY <1>1, NoBodyIsDoc, Cleaned DEF StoredBody, Safe
<1>2. CASE GetBody(body) = Described
  <2>1. ASSUME NEW text \in Texts(StoredBody(body))
        PROVE  text \in Texts(Described)
    <3>1. \/ text \in Texts(Described)
          \/ <<text[1], "NUL">> \in Texts(Described)
      BY <1>2, <2>1, DescribedIsDoc, Cleaned DEF StoredBody
    <3>. DEFINE t == <<text[1], "NUL">>
    <3>2. t[2] = "NUL"
      OBVIOUS
    <3>. HIDE DEF t
    <3>3. t \notin Texts(Described)
      BY <3>2, DescribedIsDoc
    <3>. QED
      BY <3>1, <3>3 DEF t
  <2>. QED
    BY <2>1, DescribedIsDoc DEF Safe, Storable, Refused
<1>3. CASE /\ body.value \in Docs(MaxDepth) /\ JsonbTakes(body.value)
           /\ GetBody(body) = Mask(body.value)
  <2>1. StoredBody(body) = StoredFields(body.value)
    BY <1>3 DEF StoredBody, StoredFields
  <2>. QED
    BY <1>3, <2>1, FieldsSafe
<1>. QED
  BY <1>1, <1>2, <1>3, BodyCases

\* The state is what was built, of any input.
Built ==
    \/ built = NotBuilt
    \/ \E body \in Bodies : built = [part |-> "body", of |-> body, stored |-> StoredBody(body)]
    \/ \E fields \in Forms : built = [part |-> "fields", of |-> fields, stored |-> StoredFields(fields)]
    \/ \E url \in Urls : built = [part |-> "url", of |-> url, stored |-> StoredUrl(url)]
    \/ \E line \in Lines : built = [part |-> "line", of |-> line, stored |-> LoggedLine(line)]

LEMMA AlwaysBuilt == RowsSpec => []Built
<1>1. RowsInit => Built
  BY DEF RowsInit, Built
<1>2. Built /\ [RowsNext]_built => Built'
  <2>. SUFFICES ASSUME Built, [RowsNext]_built PROVE Built'
    OBVIOUS
  <2>1. CASE BuildBody
    BY <2>1 DEF BuildBody, Built
  <2>2. CASE BuildFields
    BY <2>2 DEF BuildFields, Built
  <2>3. CASE BuildUrls
    BY <2>3 DEF BuildUrls, Built
  <2>4. CASE WriteLine
    BY <2>4 DEF WriteLine, Built
  <2>5. CASE UNCHANGED built
    BY <2>5 DEF Built
  <2>. QED
    BY <2>1, <2>2, <2>3, <2>4, <2>5 DEF RowsNext
<1>. QED
  BY <1>1, <1>2, PTL DEF RowsSpec

\* What each part is, once it is built.
LEMMA Parts ==
    ASSUME Built
    PROVE  /\ built.part = "body" =>
                \E body \in Bodies : built.of = body /\ built.stored = StoredBody(body)
           /\ built.part = "fields" => built.of \in Forms /\ built.stored = StoredFields(built.of)
           /\ built.part = "url" => built.of \in Urls /\ built.stored = StoredUrl(built.of)
           /\ built.part = "line" => built.of \in Lines /\ built.stored = LoggedLine(built.of)
BY DEF Built, NotBuilt

-----------------------------------------------------------------------------
(* URLs. *)

UrlWords == Seq(Strings \ (Refused \union {"none"}))

LEMMA UrlTyped ==
    ASSUME NEW url \in Urls
    PROVE  /\ url.parsable \in BOOLEAN /\ url.path \in UrlWords /\ url.rest \in UrlWords
           /\ url.path \o url.rest \in UrlWords
<1>1. url.parsable \in BOOLEAN /\ url.path \in UrlWords /\ url.rest \in UrlWords
  BY UrlsAssumption DEF UrlWords
<1>. QED
  BY <1>1 DEF UrlWords

\* Paths of as many words are the same if their words are.
LEMMA ThreeWords ==
    ASSUME NEW S, NEW path \in Seq(S), Len(path) = 3,
           NEW a \in S, NEW b \in S, NEW c \in S, path[1] = a, path[2] = b, path[3] = c
    PROVE  path = <<a, b, c>>
<1>1. /\ <<a, b, c>> \in Seq(S) /\ Len(<<a, b, c>>) = 3
      /\ <<a, b, c>>[1] = a /\ <<a, b, c>>[2] = b /\ <<a, b, c>>[3] = c
  OBVIOUS
<1>2. PICK words \in Seq(S) : /\ words = <<a, b, c>> /\ Len(words) = 3
                              /\ words[1] = a /\ words[2] = b /\ words[3] = c
  BY <1>1, Zenon
<1>3. ASSUME NEW i \in 1 .. Len(path) PROVE path[i] = words[i]
  <2>1. i = 1 \/ i = 2 \/ i = 3
    OBVIOUS
  <2>. QED
    BY <1>2, <2>1
<1>. QED
  BY <1>2, <1>3, SeqEqual

LEMMA FourWords ==
    ASSUME NEW S, NEW path \in Seq(S), Len(path) = 4,
           NEW a \in S, NEW b \in S, NEW c \in S, NEW d \in S,
           path[1] = a, path[2] = b, path[3] = c, path[4] = d
    PROVE  path = <<a, b, c, d>>
<1>1. /\ <<a, b, c, d>> \in Seq(S) /\ Len(<<a, b, c, d>>) = 4
      /\ <<a, b, c, d>>[1] = a /\ <<a, b, c, d>>[2] = b
      /\ <<a, b, c, d>>[3] = c /\ <<a, b, c, d>>[4] = d
  OBVIOUS
<1>2. PICK words \in Seq(S) : /\ words = <<a, b, c, d>> /\ Len(words) = 4
                              /\ words[1] = a /\ words[2] = b /\ words[3] = c /\ words[4] = d
  BY <1>1, Zenon
<1>3. ASSUME NEW i \in 1 .. Len(path) PROVE path[i] = words[i]
  <2>1. i = 1 \/ i = 2 \/ i = 3 \/ i = 4
    OBVIOUS
  <2>. QED
    BY <1>2, <2>1
<1>. QED
  BY <1>2, <1>3, SeqEqual

LEMMA ElementsOfFour ==
    ASSUME NEW S, NEW path \in Seq(S), Len(path) = 4
    PROVE  path[1] \in S /\ path[2] \in S /\ path[3] \in S /\ path[4] \in S
<1>1. 1 \in 1 .. Len(path) /\ 2 \in 1 .. Len(path) /\ 3 \in 1 .. Len(path) /\ 4 \in 1 .. Len(path)
  OBVIOUS
<1>. QED
  BY <1>1, ElementOfSeq, Zenon

LEMMA ElementsOfThree ==
    ASSUME NEW S, NEW path \in Seq(S), Len(path) = 3
    PROVE  path[1] \in S /\ path[2] \in S /\ path[3] \in S
<1>1. 1 \in 1 .. Len(path) /\ 2 \in 1 .. Len(path) /\ 3 \in 1 .. Len(path)
  OBVIOUS
<1>. QED
  BY <1>1, ElementOfSeq, Zenon

\* A path of three words with one more.
LEMMA WithWord ==
    ASSUME NEW S, NEW path \in Seq(S), Len(path) = 3, NEW word \in S
    PROVE  \E whole \in Seq(S) :
             /\ whole = Append(path, word) /\ Len(whole) = 4 /\ whole[4] = word
             /\ whole[1] = path[1] /\ whole[2] = path[2] /\ whole[3] = path[3]
<1>1. ASSUME NEW words \in Seq(S)
      PROVE  /\ Append(words, word) \in Seq(S) /\ Len(Append(words, word)) = Len(words) + 1
             /\ \A i \in 1 .. Len(words) : Append(words, word)[i] = words[i]
             /\ Append(words, word)[Len(words) + 1] = word
  BY AppendProperties
<1>2. PICK whole \in Seq(S) :
        /\ whole = Append(path, word) /\ Len(whole) = Len(path) + 1
        /\ \A i \in 1 .. Len(path) : whole[i] = path[i]
        /\ whole[Len(path) + 1] = word
  BY <1>1, Zenon
<1>3. 1 \in 1 .. Len(path) /\ 2 \in 1 .. Len(path) /\ 3 \in 1 .. Len(path) /\ Len(path) + 1 = 4
  OBVIOUS
<1>4. /\ Len(whole) = 4 /\ whole[4] = word
      /\ whole[1] = path[1] /\ whole[2] = path[2] /\ whole[3] = path[3]
  BY <1>2, <1>3
<1>. QED
  BY <1>2, <1>4

LEMMA ShorterByOne ==
    ASSUME NEW S, NEW path \in Seq(S), NEW word \in S, Len(Append(path, word)) = 4
    PROVE  Len(path) = 3
  OBVIOUS

\* What a path of four words, or of three and one more, is made of.
LEMMA SlashAdded ==
    ASSUME NEW a, NEW b, NEW c, NEW d PROVE Append(<<a, b, c>>, d) = <<a, b, c, d>>
<1>. DEFINE S == {a, b, c, d}
<1>0. a \in S /\ b \in S /\ c \in S /\ d \in S
  OBVIOUS
<1>. HIDE DEF S
<1>1. /\ <<a, b, c>> \in Seq(S) /\ Len(<<a, b, c>>) = 3
      /\ <<a, b, c>>[1] = a /\ <<a, b, c>>[2] = b /\ <<a, b, c>>[3] = c
  BY <1>0
<1>2. PICK path \in Seq(S) : /\ path = <<a, b, c>> /\ Len(path) = 3
                             /\ path[1] = a /\ path[2] = b /\ path[3] = c
  BY <1>1, Zenon
<1>3. PICK whole \in Seq(S) :
        /\ whole = Append(path, d) /\ Len(whole) = 4 /\ whole[4] = d
        /\ whole[1] = path[1] /\ whole[2] = path[2] /\ whole[3] = path[3]
  BY <1>0, <1>2, WithWord
<1>4. Len(whole) = 4 /\ whole[1] = a /\ whole[2] = b /\ whole[3] = c /\ whole[4] = d
  BY <1>2, <1>3
<1>5. whole = <<a, b, c, d>>
  BY <1>0, <1>4, FourWords
<1>. QED
  BY <1>2, <1>3, <1>5

LEMMA WholeLink ==
    ASSUME NEW S, NEW path \in Seq(S), Len(path) = 4, NEW d, path[4] = d
    PROVE  /\ path[1] \in S /\ path[2] \in S /\ path[3] \in S
           /\ path = <<path[1], path[2], path[3], d>>
<1>1. path[1] \in S /\ path[2] \in S /\ path[3] \in S /\ path[4] \in S
  BY ElementsOfFour
<1>. QED
  BY <1>1, FourWords

LEMMA LinkBefore ==
    ASSUME NEW R, NEW path \in Seq(R), NEW d, Len(Append(path, d)) = 4
    PROVE  LET whole == Append(path, d)
           IN  /\ whole[1] \in R /\ whole[2] \in R /\ whole[3] \in R
               /\ path = <<whole[1], whole[2], whole[3]>>
<1>. DEFINE S == R \union {d}
<1>1. R \subseteq S /\ d \in S
  OBVIOUS
<1>. HIDE DEF S
<1>2. path \in Seq(S)
  BY <1>1, SeqMonotonic
<1>3. Len(path) = 3
  BY <1>1, <1>2, ShorterByOne
<1>4. PICK whole \in Seq(S) :
        /\ whole = Append(path, d) /\ Len(whole) = 4 /\ whole[4] = d
        /\ whole[1] = path[1] /\ whole[2] = path[2] /\ whole[3] = path[3]
  <2>1. ASSUME NEW words \in Seq(S), Len(words) = 3
        PROVE  \E whole \in Seq(S) :
                 /\ whole = Append(words, d) /\ Len(whole) = 4 /\ whole[4] = d
                 /\ whole[1] = words[1] /\ whole[2] = words[2] /\ whole[3] = words[3]
    BY <1>1, <2>1, WithWord
  <2>. QED
    BY <1>2, <1>3, <2>1
<1>5. path[1] \in R /\ path[2] \in R /\ path[3] \in R
  BY <1>3, ElementsOfThree
<1>6. path = <<path[1], path[2], path[3]>>
  BY <1>3, <1>5, ThreeWords
<1>. QED
  BY <1>4, <1>5, <1>6

\* find_url_token finds the token of every link, with its slash or without.
LEMMA TokenFound == ASSUME NEW path PROVE LinkTokens(path) \subseteq FindUrlToken(path)
<1>. SUFFICES ASSUME NEW token \in LinkTokens(path) PROVE token \in FindUrlToken(path)
  OBVIOUS
<1>1. PICK page \in LinkPages, uid \in Strings \ {""} :
        path = <<page, uid, token>> \/ path = <<page, uid, token, "">>
  BY DEF LinkTokens
<1>2. token # "" /\ uid # ""
  BY DEF LinkTokens
<1>3. PICK whole : whole = <<page, uid, token, "">>
  OBVIOUS
<1>4. whole \in {path, Append(path, "")}
  <2>1. CASE path = <<page, uid, token>>
    <3>. DEFINE none == ""
    <3>. HIDE DEF none
    <3>1. Append(<<page, uid, token>>, none) = <<page, uid, token, none>>
      BY SlashAdded
    <3>2. Append(path, none) = <<page, uid, token, none>>
      BY <2>1, <3>1, Zenon
    <3>. QED
      BY <1>3, <3>2 DEF none
  <2>2. CASE path = <<page, uid, token, "">>
    BY <1>3, <2>2
  <2>. QED
    BY <1>1, <2>1, <2>2
<1>5. ResolvesToToken(whole) /\ whole[3] = token
  BY <1>2, <1>3 DEF ResolvesToToken
<1>. QED
  BY <1>4, <1>5 DEF FindUrlToken

\* What find_url_token finds is the token of a link.
LEMMA LinkFound ==
    ASSUME NEW url \in Urls
    PROVE  FindUrlToken(url.path) \subseteq LinkTokens(url.path)
<1>. DEFINE path == url.path
            R == Strings \ (Refused \union {"none"})
<1>1. path \in Seq(R)
  BY UrlTyped DEF UrlWords
<1>. HIDE DEF path, R
<1>. SUFFICES ASSUME NEW token \in FindUrlToken(path) PROVE token \in LinkTokens(path)
  BY DEF path
<1>2. PICK whole \in {path, Append(path, "")} : ResolvesToToken(whole) /\ token = whole[3]
  BY DEF FindUrlToken
<1>3. R \subseteq Strings
  BY DEF R
<1>4. /\ Len(whole) = 4 /\ whole[1] \in LinkPages
      /\ whole[2] # "" /\ whole[3] # "" /\ whole[4] = ""
  BY <1>2 DEF ResolvesToToken
<1>5. CASE whole = path
  <2>. DEFINE none == ""
  <2>1. path[4] = none /\ Len(path) = 4
    BY <1>4, <1>5
  <2>. HIDE DEF none
  <2>2. /\ path[1] \in R /\ path[2] \in R /\ path[3] \in R
        /\ path = <<path[1], path[2], path[3], none>>
    BY <1>1, <2>1, WholeLink
  <2>. QED
    BY <1>2, <1>3, <1>4, <1>5, <2>2 DEF LinkTokens, none
<1>6. CASE whole = Append(path, "")
  <2>. DEFINE none == ""
  <2>1. whole = Append(path, none)
    BY <1>6
  <2>. HIDE DEF none
  <2>2. Len(Append(path, none)) = 4
    BY <1>4, <2>1, Zenon
  <2>3. LET added == Append(path, none)
        IN  /\ added[1] \in R /\ added[2] \in R /\ added[3] \in R
            /\ path = <<added[1], added[2], added[3]>>
    BY <1>1, <2>2, LinkBefore
  <2>4. /\ whole[1] \in R /\ whole[2] \in R /\ whole[3] \in R
        /\ path = <<whole[1], whole[2], whole[3]>>
    BY <2>1, <2>3, Zenon
  <2>. QED
    BY <1>2, <1>3, <1>4, <2>4 DEF LinkTokens
<1>. QED
  BY <1>2, <1>5, <1>6

\* A word of a URL is replaced, or neither the token nor a NUL.
LEMMA WordMasked ==
    ASSUME NEW path, NEW url \in UrlWords, NEW i \in DOMAIN url
    PROVE  /\ \/ MaskUrlToken(url, path)[i] = "***"
              \/ MaskUrlToken(url, path)[i] = url[i] /\ url[i] \notin FindUrlToken(path)
           /\ \/ CleanUrl(MaskUrlToken(url, path))[i] \in {"***", "replaced"}
              \/ /\ CleanUrl(MaskUrlToken(url, path))[i] = url[i]
                 /\ url[i] \notin FindUrlToken(path) /\ url[i] # "NUL"
<1>. DEFINE masked == MaskUrlToken(url, path)
<1>1. /\ DOMAIN masked = DOMAIN url
      /\ masked[i] = IF url[i] \in FindUrlToken(path) THEN "***" ELSE url[i]
  BY DEF MaskUrlToken
<1>. HIDE DEF masked
<1>2. CleanUrl(masked)[i] = CleanText(masked[i])
  BY <1>1 DEF CleanUrl
<1>3. \/ masked[i] = "***"
      \/ masked[i] = url[i] /\ url[i] \notin FindUrlToken(path)
  BY <1>1
<1>4. \/ CleanUrl(masked)[i] \in {"***", "replaced"}
      \/ CleanUrl(masked)[i] = url[i] /\ url[i] \notin FindUrlToken(path) /\ url[i] # "NUL"
  BY <1>2, <1>3 DEF CleanText
<1>. QED
  BY <1>3, <1>4 DEF masked

LEMMA UrlMasked ==
    ASSUME NEW path, NEW url \in UrlWords
    PROVE  /\ Hidden(MaskUrlToken(url, path), path)
           /\ Hidden(CleanUrl(MaskUrlToken(url, path)), path)
           /\ \A i \in DOMAIN CleanUrl(MaskUrlToken(url, path)) :
                Storable(CleanUrl(MaskUrlToken(url, path))[i])
<1>1. /\ DOMAIN MaskUrlToken(url, path) = DOMAIN url
      /\ DOMAIN CleanUrl(MaskUrlToken(url, path)) = DOMAIN url
  BY DEF MaskUrlToken, CleanUrl
<1>2. \A i \in DOMAIN url : url[i] \notin Refused
  <2>. DEFINE R == Strings \ (Refused \union {"none"})
  <2>1. \A words \in Seq(R) : \A i \in DOMAIN words : words[i] \in R
    <3>. HIDE DEF R
    <3>. QED
      OBVIOUS
  <2>. QED
    BY <2>1 DEF UrlWords
<1>3. \A word : word \notin FindUrlToken(path) => ~IsToken(word, path)
  BY TokenFound DEF IsToken
<1>4. \A word \in {"***", "replaced"} : ~IsToken(word, path) /\ Storable(word)
  BY DEF IsToken, Storable, Refused
<1>5. ASSUME NEW i \in DOMAIN url
      PROVE  /\ ~IsToken(MaskUrlToken(url, path)[i], path)
             /\ ~IsToken(CleanUrl(MaskUrlToken(url, path))[i], path)
             /\ Storable(CleanUrl(MaskUrlToken(url, path))[i])
  BY <1>2, <1>3, <1>4, WordMasked DEF Storable
<1>. QED
  BY <1>1, <1>5 DEF Hidden

LEMMA UrlSafe ==
    ASSUME NEW url \in Urls
    PROVE  /\ Hidden(StoredUrl(url).path, url.path) /\ Hidden(StoredUrl(url).header, url.path)
           /\ \A i \in DOMAIN StoredUrl(url).path : Storable(StoredUrl(url).path[i])
           /\ \A i \in DOMAIN StoredUrl(url).header : Storable(StoredUrl(url).header[i])
<1>1. /\ StoredUrl(url).path = CleanUrl(MaskUrlToken(url.path, url.path))
      /\ StoredUrl(url).header = CleanUrl(MaskUrlHeader(url))
  BY DEF StoredUrl
<1>2. CASE url.parsable
  BY <1>1, <1>2, UrlTyped, UrlMasked DEF MaskUrlHeader
<1>3. CASE ~url.parsable
  <2>1. StoredUrl(url).header = <<"***">>
    <3>1. CleanUrl(<<"***">>) = <<"***">>
      BY DEF CleanUrl, CleanText
    <3>. QED
      BY <1>1, <1>3, <3>1 DEF MaskUrlHeader
  <2>2. /\ Hidden(<<"***">>, url.path)
        /\ \A i \in DOMAIN <<"***">> : Storable(<<"***">>[i])
    BY DEF Hidden, IsToken, Storable, Refused
  <2>. QED
    BY <1>1, <2>1, <2>2, UrlTyped, UrlMasked
<1>. QED
  BY <1>2, <1>3

-----------------------------------------------------------------------------
(* What rows and lines hold. *)

\* Whatever is sent, Postgres can store what IncomingEventBuilder makes of it:
\* _get_body describes what jsonb refuses, in texts and in keys, and NULs are
\* replaced in all that is stored.
THEOREM RowsStorableHolds == RowsSpec => []RowsStorable
<1>1. Built => RowsStorable
  <2>. SUFFICES ASSUME Built PROVE RowsStorable
    OBVIOUS
  <2>1. ASSUME built.part = "body"
        PROVE  \A text \in Texts(built.stored) : Storable(text[2])
    BY <2>1, Parts, BodySafe DEF Safe
  <2>2. ASSUME built.part = "fields"
        PROVE  \A text \in Texts(built.stored) : Storable(text[2])
    BY <2>2, Parts, FormsAssumption, FieldsSafe DEF JsonbTakes, Safe
  <2>3. ASSUME built.part = "url"
        PROVE  /\ \A i \in DOMAIN built.stored.path : Storable(built.stored.path[i])
               /\ \A i \in DOMAIN built.stored.header : Storable(built.stored.header[i])
    BY <2>3, Parts, UrlSafe
  <2>. QED
    BY <2>1, <2>2, <2>3 DEF RowsStorable
<1>. QED
  BY <1>1, AlwaysBuilt, PTL

\* A pair of a query shows its value or the replacement, and no token.
LEMMA PairMasked ==
    ASSUME NEW query \in Queries, NEW i \in DOMAIN query, NEW path
    PROVE  /\ IF IsSensitive(query[i].key) THEN MaskQuery(query, path)[i].value \in {"none", "***"}
              ELSE \/ MaskQuery(query, path)[i] = query[i]
                   \/ /\ query[i].value \in FindUrlToken(path)
                      /\ MaskQuery(query, path)[i] = [query[i] EXCEPT !.value = "***"]
           /\ ~IsToken(MaskQuery(query, path)[i].value, path)
<1>. DEFINE R == [key : Words, value : Strings]
<1>1. query[i] \in R
  <2>1. query \in Seq(R)
    BY QueriesAssumption
  <2>. HIDE DEF R
  <2>2. \A q \in Seq(R) : \A j \in DOMAIN q : q[j] \in R
    OBVIOUS
  <2>. QED
    BY <2>1, <2>2
<1>. DEFINE sent == MaskPairToken(query[i], path)
<1>2. sent \in R \union {[query[i] EXCEPT !.value = "***"]}
  BY <1>1 DEF MaskPairToken
<1>3. MaskQuery(query, path)[i] = MaskPair(sent)
  BY DEF MaskQuery
<1>. QED
  BY <1>1, <1>3, TokenFound DEF MaskPair, MaskPairToken, IsToken

\* mask_url_tokens and _mask_url_token replace what find_url_token finds wherever
\* it is in the URL or the line, and it finds the token of every link.
THEOREM TokensMaskedHolds == RowsSpec => []TokensMasked
<1>1. Built => TokensMasked
  <2>. SUFFICES ASSUME Built PROVE TokensMasked
    OBVIOUS
  <2>1. ASSUME built.part = "url"
        PROVE  Hidden(built.stored.path, built.of.path) /\ Hidden(built.stored.header, built.of.path)
    BY <2>1, Parts, UrlSafe
  <2>2. ASSUME built.part = "line", NEW path, path = built.of.url.path
        PROVE  /\ Hidden(built.stored.event, path) /\ Hidden(built.stored.path, path)
               /\ \A i \in DOMAIN built.stored.query : ~IsToken(built.stored.query[i].value, path)
    <3>1. PICK line \in Lines : built.of = line /\ built.stored = LoggedLine(line)
      BY <2>2, Parts
    <3>2. line.url \in Urls /\ line.query \in Queries
      BY DEF Lines
    <3>3. /\ built.stored.event = MaskUrlToken(line.url.path \o line.url.rest, path)
          /\ built.stored.path = MaskUrlToken(line.url.path, path)
          /\ built.stored.query = MaskQuery(line.query, path)
      BY <2>2, <3>1 DEF LoggedLine
    <3>4. DOMAIN MaskQuery(line.query, path) = DOMAIN line.query
      BY DEF MaskQuery
    <3>5. Hidden(built.stored.event, path)
      BY <2>2, <3>1, <3>2, <3>3, UrlTyped, UrlMasked
    <3>6. Hidden(built.stored.path, path)
      BY <2>2, <3>1, <3>2, <3>3, UrlTyped, UrlMasked
    <3>7. \A i \in DOMAIN built.stored.query : ~IsToken(built.stored.query[i].value, path)
      BY <3>2, <3>3, <3>4, PairMasked
    <3>. QED
      BY <3>5, <3>6, <3>7
  <2>. QED
    BY <2>1, <2>2 DEF TokensMasked
<1>. QED
  BY <1>1, AlwaysBuilt, PTL

\* Rows and log lines show nothing below a secret key but the replacement, and
\* otherwise nothing that was not sent: _redact, mask and mask_query, for any
\* documents, keys and queries.
THEOREM SecretsMaskedHolds == RowsSpec => []SecretsMasked
<1>1. Built => SecretsMasked
  <2>. SUFFICES ASSUME Built PROVE SecretsMasked
    OBVIOUS
  <2>1. ASSUME built.part = "body"
        PROVE  NoSecretIn(built.stored) /\ OnlySent(built.of.value, built.stored)
    BY <2>1, Parts, BodySafe, SafeShown
  <2>2. ASSUME built.part = "fields"
        PROVE  NoSecretIn(built.stored) /\ OnlySent(built.of, built.stored)
    BY <2>2, Parts, FormsAssumption, FieldsSafe, SafeShown DEF JsonbTakes
  <2>3. ASSUME built.part = "line"
        PROVE  /\ NoSecretIn(built.stored.fields)
               /\ \A i \in DOMAIN built.of.query :
                    IF IsSensitive(built.of.query[i].key)
                    THEN built.stored.query[i].value \in {"none", "***"}
                    ELSE \/ built.stored.query[i] = built.of.query[i]
                         \/ /\ built.of.query[i].value \in LinkTokens(built.of.url.path)
                            /\ built.stored.query[i] = [built.of.query[i] EXCEPT !.value = "***"]
    <3>1. PICK line \in Lines : built.of = line /\ built.stored = LoggedLine(line)
      BY <2>3, Parts
    <3>2. line.url \in Urls /\ line.query \in Queries /\ line.fields \in Docs(MaxDepth)
      BY FieldsAssumption DEF Lines
    <3>3. NoSecretIn(Mask(line.fields))
      BY <3>2, Masked DEF NoSecretIn, Visible
    <3>4. FindUrlToken(line.url.path) \subseteq LinkTokens(line.url.path)
      BY <3>2, LinkFound
    <3>5. /\ built.stored.fields = Mask(line.fields)
          /\ built.stored.query = MaskQuery(line.query, line.url.path)
      BY <3>1 DEF LoggedLine
    <3>. QED
      BY <3>1, <3>2, <3>3, <3>4, <3>5, PairMasked
  <2>. QED
    BY <2>1, <2>2, <2>3 DEF SecretsMasked
<1>. QED
  BY <1>1, AlwaysBuilt, PTL
=============================================================================
