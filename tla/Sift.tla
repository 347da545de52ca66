------------------------------- MODULE Sift -------------------------------
(***************************************************************************)
(* The loops that go through a table of records once and close it up over   *)
(* the ones they leave out: the folders of a catalogue                      *)
(* (src/src/core/smb_catalog.c), the index of a mirror.                     *)
(***************************************************************************)
EXTENDS Naturals, Sequences

\* The records that are in S, in the order they had.
Sifted(records, S) ==
    LET kept[n \in 0..Len(records)] ==
            IF n = 0 THEN <<>>
            ELSE IF records[n] \in S THEN Append(kept[n - 1], records[n]) ELSE kept[n - 1]
    IN  kept[Len(records)]
=============================================================================
