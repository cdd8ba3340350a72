----------------------------- MODULE MoveStore -----------------------------
(***************************************************************************)
(* What mv promises of the data that it is given, whatever fails and       *)
(* whenever it is killed, while others come to the source or are taken     *)
(* from it: nothing of an operand is removed until all of it has arrived   *)
(* that mv was given to read.                                              *)
(***************************************************************************)
CONSTANTS
    Name,       \* names in the source; one that arrives has the same name in the target
    Trees       \* what belongs to each operand

VARIABLES
    there,      \* the names in the source
    whole,      \* the names in the target with all that belongs to them
    yet,        \* names that have not come to the source
    late,       \* names that came to a directory after mv had read it
    unread,     \* names that mv could not read
    taken       \* names that somebody else removed from the source

store == <<there, whole, yet, late, unread, taken>>

Init ==
    /\ there \subseteq Name /\ yet = Name \ there
    /\ whole = {} /\ late = {} /\ unread = {} /\ taken = {}

Come(n) ==
    /\ n \in yet /\ yet' = yet \ {n}
    /\ there' = there \cup {n} /\ late' \in {late, late \cup {n}}
    /\ UNCHANGED <<whole, unread, taken>>

Taken(n) ==
    /\ n \in there
    /\ there' = there \ {n} /\ taken' = taken \cup {n}
    /\ UNCHANGED <<whole, yet, late, unread>>

Arrive(n) ==
    /\ n \in there \cup taken /\ whole' = whole \cup {n}
    /\ UNCHANGED <<there, yet, late, unread, taken>>

\* What is made again, or replaced, is not lost.
Discard(n) ==
    /\ n \in there \cup taken
    /\ whole' = whole \ {n}
    /\ UNCHANGED <<there, yet, late, unread, taken>>

Rename(T) ==
    /\ there' = there \ T /\ whole' = whole \cup (there \cap T)
    /\ UNCHANGED <<yet, late, unread, taken>>

Remove(T, n) ==
    /\ n \in T /\ T \cap there \subseteq whole \cup late \cup unread
    /\ there' = there \ {n}
    /\ UNCHANGED <<whole, yet, late, unread, taken>>

\* A directory cannot be read to its end.
Miss == unread \subseteq unread' /\ unread' \subseteq Name /\ UNCHANGED <<there, whole, yet, late, taken>>

\* What is in the source when mv is started again is read again.
Again == /\ late' = late \ there /\ unread' = unread \ (there \cup yet)
         /\ UNCHANGED <<there, whole, yet, taken>>

Next == \/ \E n \in Name : Come(n) \/ Taken(n) \/ Arrive(n) \/ Discard(n)
        \/ \E T \in Trees : Rename(T) \/ \E n \in Name : Remove(T, n)
        \/ Miss \/ Again

Spec == Init /\ [][Next]_store

\* Nothing is lost but what came too late or could not be read.
Kept == Name \subseteq there \cup whole \cup yet \cup late \cup unread \cup taken

=============================================================================
