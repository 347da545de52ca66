------------------------------ MODULE MCApply ------------------------------
(***************************************************************************)
(* A small instance of Apply for TLC, and beside it one of SmbMirror with   *)
(* two folders.  They share no state: a behaviour follows one of the two    *)
(* and leaves the other as it began.                                        *)
(***************************************************************************)
EXTENDS Apply, SmbMirror, TLC

VARIABLE followed

eitherVars == <<followed, vars, mirrorVars>>

EitherInit ==
    /\ followed \in {"settings", "mirror"}
    /\ ApplyInit /\ MirrorInit
    /\ followed # "settings" => shown = CHOOSE l \in Look : TRUE
    /\ followed # "mirror" =>
        /\ share = NoRecords /\ \A n \in Local : card[n] = Nothing
        /\ cfg = CHOOSE f \in Folder : TRUE

EitherNext ==
    \/ followed = "settings" /\ ApplyNext /\ UNCHANGED <<followed, mirrorVars>>
    \/ followed = "mirror" /\ MirrorNext /\ UNCHANGED <<followed, vars>>

EitherSpec == EitherInit /\ [][EitherNext]_eitherVars

\* Photographs of the share differ in nothing but their names.
Photographs == Permutations(Name)
=============================================================================
