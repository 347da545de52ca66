----------------------------- MODULE MCCatalog -----------------------------
(***************************************************************************)
(* A small instance of Catalog for TLC, two folders listed in two orders,   *)
(* one or none, beside it one of Album: other files of the same card, and   *)
(* one of CardSlot: which card that is.  A behaviour follows one of the     *)
(* three and leaves the others as they began.                               *)
(***************************************************************************)
EXTENDS Catalog, Album, CardSlot

VARIABLE followed

cardVars == <<followed, vars, albumVars, slotVars>>

SomeLists == {<<"f", "g">>, <<"g">>, <<>>}

CardInit ==
    /\ followed \in {"catalogue", "album", "slot"}
    /\ Init /\ AlbumInit /\ SlotInit /\ volume = "card"    \* the media are alike
    /\ followed # "album" => given = NoNumbers
    /\ followed # "slot" => inserted = 0
    /\ followed # "catalogue" => list = <<>> /\ \A f \in Folder : share[f] = {}

CardNext ==
    \/ followed = "catalogue" /\ Next /\ UNCHANGED <<followed, albumVars, slotVars>>
    \/ followed = "album" /\ AlbumNext /\ UNCHANGED <<followed, vars, slotVars>>
    \/ followed = "slot" /\ SlotNext /\ UNCHANGED <<followed, vars, albumVars>>

\* The fairness of FairSpec, where the catalogue is followed.
CardSpec ==
    /\ CardInit /\ [][CardNext]_cardVars
    /\ WF_vars(followed = "catalogue" /\ NextFolder)
    /\ WF_vars(followed = "catalogue" /\ (ListingFails \/ Refresh))
    /\ WF_vars(followed = "catalogue" /\ Storing) /\ WF_vars(followed = "catalogue" /\ Reload)
=============================================================================
