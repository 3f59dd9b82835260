----------------------------- MODULE ActingUser -----------------------------
(***************************************************************************)
(* Whom the RESPONSE row of one request names (audit/signals.py,           *)
(* IncomingEventBuilder._get_user_id).  request.user changes on the way in *)
(* and in the view: the session's user is loaded, SessionTimeoutMiddleware *)
(* may log it out, and the view may log a user in or out.  The audit       *)
(* middleware lies outside all of them and reads what is left.             *)
(***************************************************************************)
CONSTANTS Users, Nobody

ASSUME NobodyAssumption == Nobody \notin Users

VARIABLES
    stage,          \* how far the request has come
    user,           \* request.user, Nobody while anonymous or not set yet
    remembered,     \* request._audit_logged_out_user_id
    last,           \* history: the last user the request acted as
    user_id         \* of the RESPONSE row

actingVars == <<stage, user, remembered, last, user_id>>

Anyone == Users \union {Nobody}

ActingInit ==
    /\ stage = "arrived"
    /\ user = Nobody
    /\ remembered = Nobody
    /\ last = Nobody
    /\ user_id = Nobody

-----------------------------------------------------------------------------
LogIn(u) == user' = u /\ last' = u /\ UNCHANGED remembered

\* Mutant of LogOut: the handler is not connected.
LogOutForgetting == user' = Nobody /\ UNCHANGED <<remembered, last>>

\* Django sends user_logged_out with the user, None for an anonymous request,
\* and makes the request anonymous then.
LogOut ==
    /\ remembered' = IF user = Nobody THEN remembered ELSE user
    /\ user' = Nobody
    /\ UNCHANGED last

Unchanged == UNCHANGED <<user, remembered, last>>

\* AuthenticationMiddleware: the session's user, if it has one.
Load ==
    /\ stage = "arrived"
    /\ stage' = "loaded"
    /\ (\E u \in Users : LogIn(u)) \/ Unchanged
    /\ UNCHANGED user_id

\* An expired session is logged out.
ApplyTimeout ==
    /\ stage = "loaded"
    /\ stage' = "timed"
    /\ (user # Nobody /\ LogOut) \/ Unchanged
    /\ UNCHANGED user_id

\* A login page logs in, also over another user in the admin; a logout page
\* logs out, also a request that is anonymous by now; others do neither.
View ==
    /\ stage = "timed"
    /\ stage' = "viewed"
    /\ (\E u \in Users : LogIn(u)) \/ LogOut \/ Unchanged
    /\ UNCHANGED user_id

\* The response may come before the view, or before there is a user: from a
\* middleware that refuses the request, or as the 500 of one that failed.
BuildResponse ==
    /\ stage # "answered"
    /\ stage' = "answered"
    /\ user_id' = IF user # Nobody THEN user ELSE remembered
    /\ UNCHANGED <<user, remembered, last>>

ActingNext == Load \/ ApplyTimeout \/ View \/ BuildResponse
ActingSpec == ActingInit /\ [][ActingNext]_actingVars

-----------------------------------------------------------------------------
\* "A logout is recorded with the user who logged out" (README.md:371): the
\* row names the last user the request acted as, whoever logged it out.
LastUserRecorded == stage = "answered" => user_id = last
=============================================================================
