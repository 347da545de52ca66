---------------------------- MODULE AtomicWrite ----------------------------
(***************************************************************************)
(* board_storage_write_atomic() of src/src/board/board_storage.c, one       *)
(* directory operation at a time: FATFS refuses to rename onto a name that  *)
(* exists, so the old file goes first.  A content is a sequence of lines,   *)
(* and any part of it that was written ends at some line.                   *)
(***************************************************************************)
EXTENDS Sequences, Naturals

CONSTANT Absent    \* no file of that name

VARIABLES
    file,    \* the real name
    part,    \* the name with .part
    buf,     \* what is being stored
    step     \* how far the write has come

fileVars == <<file, part, buf, step>>

Steps == {"closed", "part", "unlink", "rename", "discard"}

Cuts(c) == {SubSeq(c, 1, k) : k \in 0..(Len(c) - 1)}

FileInit == file = Absent /\ part = Absent /\ buf = <<>> /\ step = "closed"

Store(c) ==
    /\ step = "closed"
    /\ buf' = c /\ step' = "part"
    /\ UNCHANGED <<file, part>>

Close == step' = "closed" /\ buf' = <<>>

WriteInPlace ==    \* mutant: fopen at the real name, as before ticket 78
    /\ step = "part"
    /\ file' \in Cuts(buf) \cup {buf} /\ step' = "discard"
    /\ UNCHANGED <<part, buf>>

\* The file cannot be opened, or is cut short, or is whole.
WritePart ==
    /\ step = "part"
    /\ \/ Close /\ UNCHANGED part
       \/ part' \in Cuts(buf) /\ step' = "discard" /\ UNCHANGED buf
       \/ part' = buf /\ step' = "unlink" /\ UNCHANGED buf
    /\ UNCHANGED file

Unlink ==
    /\ step = "unlink"
    /\ file' \in {file, Absent}
    /\ step' = "rename"
    /\ UNCHANGED <<part, buf>>

Rename ==
    /\ step = "rename"
    /\ \/ file = Absent /\ file' = part /\ part' = Absent /\ Close
       \/ step' = "discard" /\ UNCHANGED <<file, part, buf>>

Discard ==
    /\ step = "discard"
    /\ part' \in {part, Absent} /\ Close
    /\ UNCHANGED file

Write == WritePart \/ Unlink \/ Rename \/ Discard

\* Power fails: a part that was being written is left as far as it had come.
FileCut ==
    /\ part' \in IF step = "part" THEN {part} \cup Cuts(buf) ELSE {part}
    /\ Close
    /\ UNCHANGED file

\* Another card, with no such file on it; the lock is held while one is written.
CardSwapped ==
    /\ step = "closed"
    /\ file' = Absent /\ part' = Absent
    /\ UNCHANGED <<buf, step>>

-----------------------------------------------------------------------------
(* The promise. *)

Offered == IF step = "closed" THEN {} ELSE {buf}
Promise == INSTANCE StoredFile WITH offered <- Offered

\* Every step of the write is one the promise allows: whatever fails, and wherever the
\* power is cut, the real name holds the old file, nothing, or the new file whole, never
\* a prefix that happens to parse (board_storage.c:593).
OldNothingOrWhole == Promise!Spec
=============================================================================
