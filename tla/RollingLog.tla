----------------------------- MODULE RollingLog -----------------------------
(***************************************************************************)
(* What a rotated log file promises its reader, with the files forgotten:  *)
(* messages are numbered in the order they reach the disk, the newest ones *)
(* can be read back, and only the oldest ones are ever given up.           *)
(***************************************************************************)
EXTENDS Naturals

CONSTANT Enough(_)  \* whether a set of messages is large enough to be left

VARIABLES last,  \* number of the newest message on disk
          kept   \* numbers of the messages that can still be read

vars == <<last, kept>>

Init == last = 0 /\ kept = {}

\* The next message reaches the disk.
Append ==
    /\ last' = last + 1
    /\ kept' = kept \cup {last + 1}

\* Some of the oldest messages are given up; a gap never opens among the
\* messages that stay, and enough of them do stay.
Evict ==
    /\ last' = last
    /\ kept' \subseteq kept
    /\ \A m \in kept \ kept', n \in kept' : m < n
    /\ Enough(kept')

Next == Append \/ Evict

Spec == Init /\ [][Next]_vars
=============================================================================
