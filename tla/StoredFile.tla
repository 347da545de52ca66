----------------------------- MODULE StoredFile -----------------------------
(***************************************************************************)
(* What board_storage_write_atomic() promises of a file that is written     *)
(* whole, parsed back and believed: the real name only ever holds the old   *)
(* file, nothing, or the new file whole (board_storage.c:593).              *)
(***************************************************************************)
CONSTANT Absent

VARIABLES
    file,      \* what the name holds
    offered    \* the content being stored under it, if there is one

Init == file = Absent /\ offered = {}

\* A caller offers a content.
Offer ==
    /\ offered = {}
    /\ offered' # {} /\ UNCHANGED file

\* While it does, the name may hold nothing.
Vanish ==
    /\ offered # {}
    /\ file' = Absent /\ UNCHANGED offered

\* It is stored, or it is not: an error, or a power cut.
Settle ==
    /\ offered # {} /\ offered' = {}
    /\ file' \in {file} \cup offered

\* The user takes the card out, and puts in one that has no such file.
Swap ==
    /\ offered = {}
    /\ file' = Absent /\ UNCHANGED offered

Next == Offer \/ Vanish \/ Settle \/ Swap

Spec == Init /\ [][Next]_<<file, offered>>
=============================================================================
