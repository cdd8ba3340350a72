----------------------------- MODULE MailStore ------------------------------
(***************************************************************************)
(* What a mailbox promises: a letter that has been stored stays until its  *)
(* user throws it away, and one that was thrown away does not come back.   *)
(* Once the store is impaired it promises nothing.                         *)
(***************************************************************************)
CONSTANT Letter

VARIABLES
    stored,    \* the letters in the store
    gone,      \* the letters that have left it
    chosen,    \* the letters the user has chosen to throw away
    impaired

svars == <<stored, gone, chosen, impaired>>

Init ==
    /\ stored \subseteq Letter
    /\ gone = {}
    /\ chosen = {}
    /\ impaired = FALSE

\* A letter arrives, once.
Arrive ==
    /\ \E x \in Letter \ (stored \cup gone) : stored' = stored \cup {x}
    /\ UNCHANGED <<gone, chosen, impaired>>

\* The user chooses, or a session ends and its choice with it.
Choose ==
    /\ chosen' \in SUBSET Letter
    /\ UNCHANGED <<stored, gone, impaired>>

\* Some of the letters the user has chosen are thrown away.
Discard ==
    /\ \E S \in SUBSET (stored \cap chosen) :
         /\ stored' = stored \ S
         /\ gone' = gone \cup S
    /\ UNCHANGED <<chosen, impaired>>

\* From here on anything may happen.
Fail ==
    /\ impaired'
    /\ stored' \in SUBSET Letter
    /\ gone' \in SUBSET Letter
    /\ chosen' \in SUBSET Letter

Next == Arrive \/ Choose \/ Discard \/ Fail

Spec == Init /\ [][Next]_svars
=============================================================================
