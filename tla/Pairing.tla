------------------------------ MODULE Pairing -------------------------------
(***************************************************************************)
(* The connect card and its code: src/src/app/app_auth.c with the part of   *)
(* entry/frame_main.c that draws the card and takes it off the glass again. *)
(* The main loop opens a window for a code and asks for the card, the web   *)
(* server's task compares what is typed with the code, without a lock, and  *)
(* the panel draws one request at a time beside the slideshow.              *)
(***************************************************************************)
EXTENDS Integers

CONSTANTS
    Attempts,      \* APP_AUTH_PAIR_ATTEMPTS
    Holds,         \* bound: how often the button is held, per boot
    PowerCuts      \* bound

ASSUME PairingAssumption == {Attempts, Holds, PowerCuts} \subseteq Nat /\ Attempts > 0

VARIABLES
    photos,                  \* /data holds photographs
    paired,                  \* paired_once in flash
    loopAt,                  \* where the main loop is
    holds, firstCard,        \* s_want_pairing, s_want_first_card
    timer,                   \* s_pairing_at_ms: none, fresh, or three minutes over
    code, lapsed, tries,     \* the window: s_pair_code, its deadline, s_pair_attempts_left
    claimAt, typed, read,    \* app_auth_pairing_claim(): where it is, its code, the count it read
    asked, drawing,          \* the display's slot, and what it renders
    onPanel, photoUp,        \* the panel, and whether s_current_path is set
    minted, held, cuts,      \* codes minted, and the bounds' counters
    met,                     \* ghost: a claim met the opening of this window
    over,                    \* ghost: this code's ten minutes went
    wrong,                   \* ghost: wrong guesses compared with this code
    given, again,            \* ghost: this code has given the token, and did so twice
    broken, stranded         \* ghost: since the card was asked for, a render failed; the power
                             \* went from a frame without photographs

codeVars == <<code, lapsed, tries>>
claimVars == <<claimAt, typed, read>>
panelTask == <<asked, drawing, onPanel, photoUp>>
boundVars == <<held, cuts>>
codeGhosts == <<met, over, wrong, given, again>>
cardGhosts == <<broken, stranded>>
pairVars == <<photos, paired, loopAt, holds, firstCard, timer, codeVars, claimVars, panelTask,
              minted, boundVars, codeGhosts, cardGhosts>>

NoCode == 0
Mixed == -1                \* some bytes of the new code, some of the old
Code == 1..(Holds + 1)

Plain(what) == [what |-> what, code |-> NoCode]
Nothing == Plain("nothing")
Photograph == Plain("photo")
Blank == Plain("blank")
Card(c) == [what |-> "card", code |-> c]
Shown == {Nothing, Photograph, Blank} \cup {Card(c) : c \in Code \cup {NoCode}}

PanelBusy == asked # Nothing \/ drawing # Nothing
IsOpen == code # NoCode /\ tries > 0

PairingTypeOK ==
    /\ {photos, paired, firstCard, lapsed, photoUp} \subseteq BOOLEAN
    /\ loopAt \in {"top", "mint", "mixed", "deadline", "tries", "card", "clearing"}
    /\ holds \in 0..Holds /\ timer \in {"none", "fresh", "over"}
    /\ code \in Code \cup {NoCode, Mixed} /\ {tries, read} \subseteq -1..Attempts
    /\ claimAt \in {"none", "compare", "won", "lost", "store", "close"}
    /\ typed \in Code \cup {NoCode} /\ minted \in Code \cup {NoCode}
    /\ {asked, drawing, onPanel} \subseteq Shown
    /\ held \in 0..Holds /\ cuts \in 0..PowerCuts
    /\ {met, over, given, again, broken, stranded} \subseteq BOOLEAN
    /\ wrong \in 0..(2 * Attempts)

\* app_main(), whose slideshow draws a photograph if there is one.
PairingInit ==
    /\ photos \in BOOLEAN /\ paired \in BOOLEAN
    /\ loopAt = "top" /\ holds = 0 /\ firstCard = ~paired /\ timer = "none"
    /\ code = NoCode /\ lapsed = TRUE /\ tries = 0
    /\ claimAt = "none" /\ typed = NoCode /\ read = 0
    /\ asked = IF photos THEN Photograph ELSE Nothing
    /\ drawing = Nothing /\ onPanel = Nothing /\ photoUp = FALSE
    /\ minted = NoCode /\ held = 0 /\ cuts = 0
    /\ met = FALSE /\ over = FALSE /\ wrong = 0 /\ given = FALSE /\ again = FALSE
    /\ broken = FALSE /\ stranded = FALSE

-----------------------------------------------------------------------------
(* The main loop: show_connect_card() and clear_pairing_if_due(). *)

ServeHold ==
    /\ loopAt = "top" /\ holds > 0
    /\ loopAt' = "mint" /\ holds' = holds - 1
    /\ UNCHANGED <<photos, paired, firstCard, timer, codeVars, claimVars, panelTask, minted,
                   boundVars, codeGhosts, cardGhosts>>

\* A frame nothing has paired with draws the card once, when the panel is free.
ServeFirstCard ==
    /\ loopAt = "top" /\ firstCard /\ ~PanelBusy
    /\ loopAt' = "mint" /\ firstCard' = FALSE
    /\ UNCHANGED <<photos, paired, holds, timer, codeVars, claimVars, panelTask, minted,
                   boundVars, codeGhosts, cardGhosts>>

\* app_auth_pairing_open(), write by write: the code, last byte first, then the rest.
Opening == loopAt \in {"mint", "mixed", "deadline", "tries"}
OpenStep(from, to) ==
    /\ loopAt = from /\ loopAt' = to
    /\ UNCHANGED <<photos, paired, holds, firstCard, timer, claimVars, panelTask, boundVars, again,
                   cardGhosts>>

MintBegins ==
    /\ OpenStep("mint", "mixed")
    /\ code' = IF code = NoCode THEN NoCode ELSE Mixed
    /\ met' = (claimAt # "none") /\ wrong' = 0
    /\ UNCHANGED <<lapsed, tries, minted, over, given>>
MintEnds ==
    /\ OpenStep("mixed", "deadline")
    /\ minted' = minted + 1 /\ code' = minted'
    /\ over' = FALSE /\ given' = FALSE
    /\ met' = (met \/ claimAt # "none")
    /\ UNCHANGED <<lapsed, tries, wrong>>
SetDeadline ==
    /\ OpenStep("deadline", "tries")
    /\ lapsed' = FALSE
    /\ met' = (met \/ claimAt # "none")
    /\ UNCHANGED <<code, tries, minted, over, wrong, given>>
SetTriesOnce ==                \* mutant: a window that is open keeps its count
    /\ OpenStep("tries", "card")
    /\ tries' = IF tries > 0 THEN tries ELSE Attempts
    /\ met' = (met \/ claimAt # "none")
    /\ UNCHANGED <<code, lapsed, minted, over, wrong, given>>
SetTries ==
    /\ OpenStep("tries", "card")
    /\ tries' = Attempts
    /\ met' = (met \/ claimAt # "none")
    /\ UNCHANGED <<code, lapsed, minted, over, wrong, given>>

\* The card carries the code if the window is still open.
AskForCard ==
    /\ loopAt = "card" /\ loopAt' = "top"
    /\ asked' = Card(IF IsOpen THEN code ELSE NoCode)
    /\ timer' = "fresh"
    /\ broken' = FALSE /\ stranded' = FALSE
    /\ UNCHANGED <<photos, paired, holds, firstCard, codeVars, claimVars, drawing, onPanel, photoUp,
                   minted, boundVars, codeGhosts>>

\* After three minutes, on a panel at rest: a current photograph says the card has gone;
\* otherwise white first, and the photograph when the white is up -- unless that took too long,
\* or the photograph has gone.
ClearCardIfIdle ==             \* mutant: a busy panel is taken for one that has drawn since
    /\ loopAt = "top" /\ timer = "over"
    /\ IF photoUp \/ PanelBusy
       THEN timer' = "none" /\ UNCHANGED <<loopAt, asked>>
       ELSE loopAt' = "clearing" /\ asked' = Blank /\ UNCHANGED timer
    /\ UNCHANGED <<photos, paired, holds, firstCard, codeVars, claimVars, drawing, onPanel, photoUp,
                   minted, boundVars, codeGhosts, cardGhosts>>
ClearCard ==
    /\ loopAt = "top" /\ timer = "over" /\ ~PanelBusy
    /\ IF photoUp
       THEN timer' = "none" /\ UNCHANGED <<loopAt, asked>>
       ELSE loopAt' = "clearing" /\ asked' = Blank /\ UNCHANGED timer
    /\ UNCHANGED <<photos, paired, holds, firstCard, codeVars, claimVars, drawing, onPanel, photoUp,
                   minted, boundVars, codeGhosts, cardGhosts>>
WaitEnds ==
    /\ loopAt = "clearing" /\ loopAt' = "top"
    /\ timer' = "none"
    /\ asked' \in {asked} \cup (IF ~PanelBusy /\ photos THEN {Photograph} ELSE {})
    /\ UNCHANGED <<photos, paired, holds, firstCard, codeVars, claimVars, drawing, onPanel, photoUp,
                   minted, boundVars, codeGhosts, cardGhosts>>

OpenWindow == MintBegins \/ MintEnds \/ SetDeadline \/ SetTries
MainLoop == ServeHold \/ ServeFirstCard \/ OpenWindow \/ AskForCard \/ ClearCard \/ WaitEnds

-----------------------------------------------------------------------------
(* The web server's task: app_auth_pairing_claim(), of the shape of a code. *)

ClaimStep(from, to) ==
    /\ claimAt = from /\ claimAt' = to
    /\ UNCHANGED <<photos, loopAt, holds, firstCard, timer, panelTask, minted, boundVars, over,
                   cardGhosts>>

\* app_auth_pairing_is_open(); one of the codes so far is typed, or none of them.
ClaimTests(c) ==
    /\ IsOpen
    /\ ClaimStep("none", IF lapsed THEN "close" ELSE "compare")
    /\ typed' = c
    /\ met' = (met \/ Opening)
    /\ UNCHANGED <<paired, codeVars, read, wrong, given, again>>
Compare ==
    /\ ClaimStep("compare", IF typed = code /\ typed # NoCode THEN "won" ELSE "lost")
    /\ wrong' = IF typed # code /\ code = minted THEN wrong + 1 ELSE wrong
    /\ UNCHANGED <<paired, codeVars, typed, read, met, given, again>>

\* s_pair_attempts_left--, and the window closes with the last.
ReadTries ==
    /\ ClaimStep("lost", "store")
    /\ read' = tries
    /\ UNCHANGED <<paired, codeVars, typed, met, wrong, given, again>>
StoreTries ==
    /\ ClaimStep("store", IF read <= 1 THEN "close" ELSE "none")
    /\ tries' = read - 1 /\ read' = 0
    /\ typed' = NoCode
    /\ UNCHANGED <<paired, code, lapsed, met, wrong, given, again>>

Closed == code' = NoCode /\ lapsed' = TRUE /\ tries' = 0
CloseWindow ==
    /\ ClaimStep("close", "none")
    /\ Closed /\ typed' = NoCode
    /\ UNCHANGED <<paired, read, met, wrong, given, again>>

\* The token is handed out, and the flag written, unless the write fails.
WinsAndStaysOpen ==            \* mutant: a window that has paired a browser pairs another
    /\ ClaimStep("won", "none")
    /\ typed' = NoCode
    /\ given' = (given \/ typed = minted) /\ again' = (again \/ (given /\ typed = minted))
    /\ paired' \in {paired, TRUE}
    /\ UNCHANGED <<codeVars, read, met, wrong>>
Wins ==
    /\ ClaimStep("won", "none")
    /\ Closed /\ typed' = NoCode
    /\ given' = (given \/ typed = minted) /\ again' = (again \/ (given /\ typed = minted))
    /\ paired' \in {paired, TRUE}
    /\ UNCHANGED <<read, met, wrong>>

Claim ==
    \/ \E c \in 0..minted : ClaimTests(c)
    \/ Compare \/ ReadTries \/ StoreTries \/ CloseWindow \/ Wins

-----------------------------------------------------------------------------
(* The panel, the clock, people and the power. *)

Shows ==
    /\ UNCHANGED <<photos, paired, loopAt, holds, firstCard, timer, codeVars, claimVars, minted,
                   boundVars, codeGhosts, stranded>>
TakesRequest ==
    /\ Shows
    /\ drawing = Nothing /\ asked # Nothing
    /\ drawing' = asked /\ asked' = Nothing
    /\ UNCHANGED <<onPanel, photoUp, broken>>

\* Only a photograph is remembered as current; a render that fails, before the waveform or
\* after it, changes nothing there.
Renders ==
    /\ Shows
    /\ drawing # Nothing /\ drawing' = Nothing
    /\ \/ onPanel' = drawing /\ photoUp' = (drawing = Photograph) /\ UNCHANGED broken
       \/ onPanel' \in {onPanel, drawing} /\ broken' = TRUE /\ UNCHANGED photoUp
    /\ UNCHANGED asked

\* The slideshow and the page draw photographs as they will, the page without any the white.
SomebodyDraws ==
    /\ Shows
    /\ asked' = IF photos THEN Photograph ELSE Blank
    /\ UNCHANGED <<drawing, onPanel, photoUp, broken>>

Turns ==
    /\ UNCHANGED <<photos, paired, loopAt, firstCard, claimVars, code, tries, panelTask, minted, cuts,
                   met, wrong, given, again, cardGhosts>>
CardComesDue ==
    /\ Turns
    /\ timer = "fresh" /\ timer' = "over"
    /\ UNCHANGED <<holds, lapsed, held, over>>

\* The code outlives the card on purpose: ten minutes to three.
CodeLapses ==
    /\ Turns
    /\ ~lapsed /\ loopAt \in {"top", "clearing"} /\ timer # "fresh"
    /\ lapsed' = TRUE /\ over' = TRUE
    /\ UNCHANGED <<holds, timer, held>>
HoldButton ==
    /\ Turns
    /\ held < Holds /\ held' = held + 1
    /\ holds' = holds + 1
    /\ UNCHANGED <<timer, lapsed, over>>

\* The glass keeps what it shows, a card with a code nobody knows any more; a frame without
\* photographs draws nothing at boot.  The page opened with the card's link writes the flag as a
\* claim does; only a boot reads it, so it is written here.
Kept(p) == IF p.what = "card" THEN Card(NoCode) ELSE p
PowerCut ==
    /\ cuts < PowerCuts /\ cuts' = cuts + 1
    /\ loopAt' = "top" /\ holds' = 0 /\ timer' = "none"
    /\ paired' \in {paired, TRUE} /\ firstCard' = ~paired'
    /\ Closed /\ claimAt' = "none" /\ typed' = NoCode /\ read' = 0
    /\ asked' = (IF photos THEN Photograph ELSE Nothing) /\ drawing' = Nothing
    /\ \E p \in {onPanel} \cup ({drawing} \ {Nothing}) : onPanel' = Kept(p)
    /\ photoUp' = FALSE
    /\ minted' = NoCode /\ held' = 0
    /\ met' = FALSE /\ over' = FALSE /\ wrong' = 0 /\ given' = FALSE
    /\ broken' = FALSE /\ stranded' = ~photos
    /\ UNCHANGED <<photos, again>>

PairingNext ==
    \/ MainLoop \/ Claim
    \/ TakesRequest \/ Renders \/ SomebodyDraws
    \/ CardComesDue \/ CodeLapses \/ HoldButton \/ PowerCut

\* The loop and the panel get on, and three minutes pass.
PairingFairness ==
    WF_pairVars(MainLoop) /\ WF_pairVars(TakesRequest \/ Renders) /\ WF_pairVars(CardComesDue)

PairingSpec == PairingInit /\ [][PairingNext]_pairVars /\ PairingFairness

-----------------------------------------------------------------------------
(* Properties. *)

\* The code on the card works for whoever types it first, until its ten minutes or its wrong
\* guesses are gone, whatever window was open before; but for a claim that meets the opening
\* (app_auth.c: "No mutex, and that is a decision").
Works ==
    LET c == onPanel.code IN
    c # NoCode /\ c = minted /\ loopAt \in {"top", "clearing"} =>
        (code = c /\ tries > 0) \/ given \/ wrong >= Attempts \/ over \/ met

\* One code, one browser, and no more wrong guesses than there are attempts; a claim that
\* meets the opening may have some of the old window's besides (app_auth_pairing_claim).
IsSpent == ~again /\ (wrong > Attempts => met /\ wrong < 2 * Attempts)

\* The code on the card works, and works once.
CodeWorksOnce == Works /\ IsSpent

\* The card leaves the glass, whoever else draws and restarts, unless a render fails or a
\* frame without photographs restarts under it (clear_pairing_if_due).
CardGoes == onPanel.what = "card" ~> onPanel.what # "card" \/ broken \/ stranded
=============================================================================
