--------------------------- MODULE MCRequestLimits ---------------------------
(***************************************************************************)
(* Small instances of RequestLimits.  A time unit stands for minutes; the  *)
(* limits keep the order of the real ones (cooldown < window, an IP sees   *)
(* several emails) and are low enough for three requests to reach them.    *)
(***************************************************************************)
EXTENDS RequestLimits, TLC

CONSTANTS q1, q2, q3, e1, e2, i1, i2

RequestSymmetry == Permutations(Requests)

MCLimits ==
    [login |-> [email_ip_max_events |-> 1, email_ip_window_seconds |-> 3,
                ip_max_events |-> 2, ip_window_seconds |-> 3,
                email_max_events |-> 2, email_window_seconds |-> 3,
                email_backoff_seconds |-> 1],
     password_reset |-> [email_max_events |-> 2, email_window_seconds |-> 3,
                         email_cooldown_seconds |-> 1,
                         ip_max_events |-> 2, ip_window_seconds |-> 2],
     signup |-> [ip_max_events |-> 2, ip_window_seconds |-> 2],
     verification_email |-> [email_max_events |-> 2, email_window_seconds |-> 4,
                             email_cooldown_seconds |-> 2]]

ResetCalls ==
    [scope : {"password_reset"}, email : Emails, ip : {i1}, limited : {TRUE}]
    \union [scope : {"password_reset"}, email : {e1}, ip : {NoIP}, limited : {TRUE}]

\* Every page together: the resets, signups from two addresses, and
\* confirmation links of one email, limited and not.
AllCalls ==
    ResetCalls
    \union [scope : {"signup"}, email : {NoEmail}, ip : IPs, limited : {TRUE}]
    \union [scope : {"verification_email"}, email : {e1}, ip : {NoIP}, limited : BOOLEAN]
=============================================================================
