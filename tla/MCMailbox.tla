----------------------------- MODULE MCMailbox ------------------------------
(***************************************************************************)
(* Mailbox for TLC: two old letters, a delivery beside two sessions.        *)
(***************************************************************************)
EXTENDS Mailbox

CONSTANTS a, b

MCOldMail == <<a, b>>
=============================================================================
