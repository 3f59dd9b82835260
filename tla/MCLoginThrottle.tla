--------------------------- MODULE MCLoginThrottle ---------------------------
(***************************************************************************)
(* Small instances of LoginThrottle: three attempts, limits of one or      *)
(* two events, and windows of different lengths for the three rules.       *)
(***************************************************************************)
EXTENDS LoginThrottle, TLC

CONSTANTS q1, q2, q3, e1, e2, e3, i1, i2

FullSymmetry ==
    Permutations(Requests) \union Permutations(Emails) \union Permutations(IPs)

WithAddress == [email : Emails, ip : IPs]
AnyLogin == [email : Emails, ip : IPs \union {NoIP}]

MCLimits ==
    [login |-> [email_ip_max_events |-> 1, email_ip_window_seconds |-> 2,
                ip_max_events |-> 2, ip_window_seconds |-> 2,
                email_max_events |-> 2, email_window_seconds |-> 3,
                email_backoff_seconds |-> 2],
     password_reset |-> [email_max_events |-> 2, email_window_seconds |-> 3,
                         email_cooldown_seconds |-> 1,
                         ip_max_events |-> 2, ip_window_seconds |-> 2],
     signup |-> [ip_max_events |-> 2, ip_window_seconds |-> 2],
     verification_email |-> [email_max_events |-> 2, email_window_seconds |-> 4,
                             email_cooldown_seconds |-> 2]]
=============================================================================
