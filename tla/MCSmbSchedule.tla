--------------------------- MODULE MCSmbSchedule ---------------------------
(* Small instances of SmbSchedule for TLC. *)
EXTENDS SmbSchedule
=============================================================================
