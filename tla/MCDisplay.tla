----------------------------- MODULE MCDisplay -----------------------------
(***************************************************************************)
(* A small instance of Display for TLC, and beside it one of Pairing, which *)
(* has a panel of its own, and one of the button that asks for its card: a  *)
(* behaviour follows one of the three and leaves the others as they began.  *)
(***************************************************************************)
EXTENDS Display, Pairing, Buttons

VARIABLE followed

panelVars == <<followed, displayVars, pairVars, buttonVars>>

PanelInit ==
    /\ followed \in {"display", "card", "button"}
    /\ Init /\ PairingInit /\ ButtonsInit
    /\ followed # "card" => ~photos /\ paired
    /\ followed # "button" => ~pin
    /\ followed # "display" => shown = CHOOSE l \in Look : TRUE

PanelNext ==
    \/ followed = "display" /\ Next /\ UNCHANGED <<followed, pairVars, buttonVars>>
    \/ followed = "card" /\ PairingNext /\ UNCHANGED <<followed, displayVars, buttonVars>>
    \/ followed = "button" /\ ButtonsNext /\ UNCHANGED <<followed, displayVars, pairVars>>

\* The fairness of each, where it is followed.
PanelSpec ==
    /\ PanelInit /\ [][PanelNext]_panelVars
    /\ WF_displayVars(followed = "display" /\ DisplayTask)
    /\ \A c \in Caller : WF_displayVars(followed = "display" /\ (CopyCurrent(c) \/ PostRedraw(c)))
    /\ WF_pairVars(followed = "card" /\ MainLoop)
    /\ WF_pairVars(followed = "card" /\ (TakesRequest \/ Renders))
    /\ WF_pairVars(followed = "card" /\ CardComesDue)
=============================================================================
