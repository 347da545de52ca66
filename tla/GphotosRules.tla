---------------------------- MODULE GphotosRules ----------------------------
(***************************************************************************)
(* The scrape rules of src/src/app/app_gphotos_rules.c: which set of rules  *)
(* an album is read with.  A set is its sequence number, and a signed file  *)
(* is the number it carries, 0 when it does not decode.  A new set goes on  *)
(* trial, and the albums it reads decide whether it is adopted.             *)
(***************************************************************************)
EXTENDS Naturals

CONSTANTS
    Builtins,    \* GPHOTOS_RULES_BUILTIN_SEQ of the firmware images the frame may run
    Newest,      \* bound: the newest set there is
    Published,   \* what the rule URL may serve, and
    Uploaded     \* what a user may upload: numbers, 0 for a file that does not decode

ASSUME RulesAssumption ==
    /\ Newest \in Nat /\ Builtins # {} /\ Builtins \subseteq 1..Newest
    /\ Published \cup Uploaded \subseteq 0..Newest

VARIABLES
    builtin,      \* the set compiled into the firmware that runs
    adopted,      \* adopted_seq: the set in force
    rejected,     \* rejected_seq, 0 when none
    candidate,    \* candidate_seq: the set on trial, 0 when none
    upload,       \* what s_upload holds while s_upload_pending, 0 otherwise
    kept, bad,    \* in flash: the number in KEY_TEXT and KEY_BAD, 0 when there is none
    loaded,       \* s_loaded
    refused,      \* ghost: the sets refused, those of before a restart as far as flash kept them
    proven        \* ghost: the sets that found a photograph while on trial

rulesVars == <<builtin, adopted, rejected, candidate, upload, kept, bad, loaded, refused, proven>>

File == 0..Newest

RulesTypeOK ==
    /\ builtin \in Builtins /\ adopted \in 1..Newest /\ loaded \in BOOLEAN
    /\ {rejected, candidate, upload, kept, bad} \subseteq File
    /\ refused \subseteq 1..Newest /\ proven \subseteq 1..Newest

RulesInit ==
    /\ builtin \in Builtins /\ adopted = builtin /\ loaded = FALSE
    /\ rejected = 0 /\ candidate = 0 /\ upload = 0 /\ kept = 0 /\ bad = 0
    /\ refused = {} /\ proven = {}

\* app_gphotos_rules_load(), once: a stored set counts only above the built-in one.  Flash may
\* not open, or there is no memory for the set.
Load ==
    /\ loaded' = TRUE
    /\ \/ loaded /\ UNCHANGED <<adopted, rejected, refused>>
       \/ /\ ~loaded
          /\ \E set \in {kept, 0} : adopted' = IF set > builtin THEN set ELSE adopted
          /\ rejected' = bad /\ UNCHANGED refused
       \/ /\ ~loaded
          /\ rejected' = 0 /\ refused' = {} /\ UNCHANGED adopted
    /\ UNCHANGED <<builtin, candidate, upload, kept, bad, proven>>

\* app_gphotos_rules_submit(): the file waits for the task.
Submit(f) ==
    /\ upload' = f
    /\ UNCHANGED <<builtin, adopted, rejected, candidate, kept, bad, loaded, refused, proven>>

\* A file must be newer than the set in force, the one refused and the one on trial.
ConsideredAgain(c, f) == IF f > adopted /\ f > c THEN f ELSE c    \* mutant
Considered(c, f) == IF f > adopted /\ f > rejected /\ f > c THEN f ELSE c

\* check_rules(): the upload, if there is memory for it, then the file at the rule URL,
\* if it arrives.
CheckRules ==
    /\ \E published \in Published \cup {0} :
       \/ /\ candidate' = Considered(Considered(candidate, upload), published)
          /\ upload' = 0
       \/ /\ candidate' = Considered(candidate, published)
          /\ UNCHANGED upload
    /\ UNCHANGED <<builtin, adopted, rejected, kept, bad, loaded, refused, proven>>

\* app_gphotos_rules_verdict(), of a run that began with a set on trial: it is adopted
\* once it has found a photograph, refused once it found none in an album that came
\* whole; flash may not take either.
Verdict(anyWhole, anyOk) ==
    /\ CASE anyOk ->
              /\ adopted' = candidate /\ candidate' = 0
              /\ proven' = proven \cup {candidate}
              /\ kept' \in {kept, candidate}
              /\ UNCHANGED <<rejected, bad, refused>>
         [] ~anyOk /\ anyWhole ->
              /\ rejected' = candidate /\ candidate' = 0
              /\ refused' = refused \cup {candidate}
              /\ bad' \in {bad, candidate}
              /\ UNCHANGED <<adopted, kept, proven>>
         [] ~anyOk /\ ~anyWhole -> UNCHANGED <<adopted, rejected, candidate, kept, bad, refused, proven>>
    /\ UNCHANGED <<builtin, upload, loaded>>

\* The frame starts, perhaps with the firmware it was updated or rolled back to.
RulesBoot ==
    /\ builtin' \in Builtins /\ adopted' = builtin'
    /\ rejected' = 0 /\ candidate' = 0 /\ upload' = 0 /\ loaded' = FALSE
    /\ refused' = {s \in refused : s <= bad}
    /\ UNCHANGED <<kept, bad, proven>>

-----------------------------------------------------------------------------
(* Properties. *)

\* The set in force came with this firmware or has found a photograph while on trial, and
\* is not older than the firmware's.  A set that was refused is neither tried nor adopted
\* again, across restarts, updates and rollbacks, unless flash did not keep or give the
\* refusal (app_gphotos_rules_consider); it can be in force only as the firmware's own, or
\* as the set flash still keeps from a trial it won before (app_gphotos_rules_load asks
\* nothing but that it be above the firmware's).
OnlyProvenRules ==
    /\ adopted \in {builtin} \cup proven /\ adopted >= builtin
    /\ candidate \notin refused
    /\ adopted \in refused => adopted \in {builtin, kept}
=============================================================================
