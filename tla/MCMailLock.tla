----------------------------- MODULE MCMailLock -----------------------------
(***************************************************************************)
(* MailLock for TLC: three processes, a lock that is stale after one tick  *)
(* and a stat() that may fail twice, so that a lock can be broken by two   *)
(* waiters at once and a waiter can give up.                               *)
(***************************************************************************)
EXTENDS MailLock
=============================================================================
