------------------------------- MODULE Apply -------------------------------
(***************************************************************************)
(* src/src/app/app_apply.c: a change of settings as a transaction.  Each    *)
(* key is compared, persisted (app_settings.c) and pushed to the display,   *)
(* and the commit asks for one redraw.  Two tasks run transactions: the web *)
(* server and the application task, for the rotation button.                *)
(***************************************************************************)
EXTENDS Display

CONSTANT Button     \* the caller that is the application task

VARIABLES
    ram,     \* s_settings
    nvs,     \* what the flash holds
    body,    \* what each transaction has yet to set
    at,      \* where it stands: idle, between two keys, or about to push a key
    raced    \* ghost: keys two transactions were persisting and pushing at once

applyVars == <<ram, nvs, body, at, raced>>
vars == <<displayVars, applyVars>>

Body == UNION {[S -> Value] : S \in SUBSET Setting}

ApplyTypeOK ==
    /\ ram \in Look /\ nvs \in Look
    /\ body \in [Caller -> Body]
    /\ at \in [Caller -> {"idle", "set"} \cup Setting]
    /\ \A c \in Caller, k \in Setting : at[c] = k => k \in DOMAIN body[c]
    /\ raced \subseteq Setting

\* app_main(): the settings are loaded and the display is given them.
ApplyInit ==
    /\ Init
    /\ ram = shown /\ nvs = shown
    /\ body = [c \in Caller |-> <<>>]
    /\ at = [c \in Caller |-> "idle"]
    /\ raced = {}

\* h_mode_cfg_set() tries the rotation first.
Key(c) == IF "rotation" \in DOMAIN body[c] THEN "rotation" ELSE "palette"

Rest(c) == [body EXCEPT ![c] = [k \in DOMAIN body[c] \ {Key(c)} |-> body[c][k]]]

\* h_mode_cfg_set() with any of the keys; a click of the button with the next rotation.
Begin(c) ==
    /\ at[c] = "idle" /\ redrawing[c] = None
    /\ IF c = Button
       THEN \E v \in Value \ {ram["rotation"]} : body' = [body EXCEPT ![c] = [k \in {"rotation"} |-> v]]
       ELSE \E b \in Body : body' = [body EXCEPT ![c] = b]
    /\ at' = [at EXCEPT ![c] = "set"]
    /\ UNCHANGED <<displayVars, ram, nvs, raced>>

Sets(c) == at[c] = "set" /\ DOMAIN body[c] # {}

\* app_apply_set() when the value is the one in RAM.
Already(c) ==
    /\ Sets(c) /\ ram[Key(c)] = body[c][Key(c)]
    /\ body' = Rest(c)
    /\ UNCHANGED <<displayVars, ram, nvs, at, raced>>

\* The setter changes the copy in RAM and then writes it.
Persist(c) ==
    LET k == Key(c)  v == body[c][k]
    IN  /\ Sets(c) /\ ram[k] # v
        /\ ram' = [ram EXCEPT ![k] = v]
        /\ nvs' = [nvs EXCEPT ![k] = v]
        /\ at' = [at EXCEPT ![c] = k]
        /\ raced' = IF \E d \in Caller : at[d] = k THEN raced \cup {k} ELSE raced \ {k}
        /\ UNCHANGED <<displayVars, body>>

\* Mutant: the result of the write is not looked at.
PersistFailsUnseen(c) ==
    LET k == Key(c)  v == body[c][k]
    IN  /\ Sets(c) /\ ram[k] # v
        /\ ram' = [ram EXCEPT ![k] = v]
        /\ at' = [at EXCEPT ![c] = k]
        /\ UNCHANGED <<displayVars, body, nvs, raced>>

\* A write that fails: nothing is applied, and no redraw recorded.
PersistFails(c) ==
    /\ Sets(c) /\ ram[Key(c)] # body[c][Key(c)]
    /\ ram' = [ram EXCEPT ![Key(c)] = body[c][Key(c)]]
    /\ body' = Rest(c)
    /\ UNCHANGED <<displayVars, nvs, at, raced>>

\* push_display(), and the redraw recorded.
Push(c) ==
    /\ at[c] \in Setting
    /\ Set(c, at[c], body[c][at[c]])
    /\ body' = [body EXCEPT ![c] = [k \in DOMAIN body[c] \ {at[c]} |-> body[c][k]]]
    /\ at' = [at EXCEPT ![c] = "set"]
    /\ UNCHANGED <<ram, nvs, raced>>

\* app_apply_commit(): at most one redraw for the whole body.
Commit(c) ==
    /\ at[c] = "set" /\ DOMAIN body[c] = {}
    /\ at' = [at EXCEPT ![c] = "idle"]
    /\ IF c \in owes THEN CopyCurrent(c) ELSE UNCHANGED displayVars
    /\ UNCHANGED <<ram, nvs, body, raced>>

Redraw(c) == PostRedraw(c) /\ UNCHANGED applyVars

Transaction(c) ==
    Already(c) \/ Persist(c) \/ PersistFails(c) \/ Push(c) \/ Commit(c) \/ Redraw(c)

DisplayStep == (DisplayTask \/ \E r \in Picture : Request(r)) /\ UNCHANGED applyVars

ApplyNext == DisplayStep \/ \E c \in Caller : Begin(c) \/ Transaction(c)

ApplySpec == ApplyInit /\ [][ApplyNext]_vars

-----------------------------------------------------------------------------
(* Properties. *)

\* Whatever fails to be written, the display holds what the flash does once a key is set,
\* unless two transactions were setting that key at once (app_apply.h: the order it
\* removes leaves "a panel showing a rotation that NVS does not hold").
ShownIsStored ==
    \A k \in Setting : k \notin raced /\ (\A c \in Caller : at[c] # k) => shown[k] = nvs[k]
=============================================================================
