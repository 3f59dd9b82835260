---------------------------- MODULE MCMailTasks ----------------------------
(***************************************************************************)
(* A small instance of MailTasks: the verification mail of one account,    *)
(* two workers, one retry, and two deliveries of a message.                *)
(***************************************************************************)
EXTENDS MailTasks, TLC
=============================================================================
