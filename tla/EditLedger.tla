----------------------------- MODULE EditLedger -----------------------------
(***************************************************************************)
(* What a conversation promises about edits.  The store keeps the time at  *)
(* which each message and each edit was first received, and never moves    *)
(* it.  An edit is granted when, in the store, it comes from the author of *)
(* its message and both its signed time and its receipt lie in the edit    *)
(* window.  What is on the screen was granted, and an edit on the screen   *)
(* stays there as long as its message does, until the process restarts.    *)
(***************************************************************************)
EXTENDS Integers

CONSTANTS
    Texts, Edits,
    Of,         \* per edit: the message it replaces the content of
    Chats,      \* which rumors may be the local user's, the others being the peer's
    Window      \* EDIT_WINDOW_SECS

VARIABLES
    mine,       \* messages and edits of the local user
    signed,     \* per rumor: created_at, 0 before it is written
    receipt,    \* per rumor: received_at of its row, 0 when it has none
    shown,      \* messages in memory
    applied,    \* per message in memory: the edits applied to it
    granted     \* edits that were authorised at some time

ledgerVars == <<mine, signed, receipt, shown, applied, granted>>

Rumors == Texts \cup Edits
EditsOf(t) == {e \in Edits : Of[e] = t}

\* edit_is_authorized and edit_received_in_time, over a store of receipts.
Authorized(e, s, rows) ==
    LET t == Of[e] IN
    /\ e \in mine <=> t \in mine
    /\ s[e] \in s[t] .. s[t] + Window
    /\ rows[t] > 0 /\ rows[e] > 0
    /\ rows[e] - rows[t] <= Window

Init ==
    /\ mine \in Chats
    /\ signed = [r \in Rumors |-> 0]
    /\ receipt = [r \in Rumors |-> 0]
    /\ shown = {} /\ applied = [t \in Texts |-> {}]
    /\ granted = {}

\* A rumor is written: its stamp is fixed.
Sign(r) ==
    /\ signed[r] = 0
    /\ signed'[r] \in Nat \ {0} /\ signed' = [signed EXCEPT ![r] = signed'[r]]
    /\ UNCHANGED <<mine, receipt, shown, applied, granted>>

\* A rumor is stored for the first time since the last deletion.
Store(r) ==
    /\ signed[r] > 0 /\ receipt[r] = 0
    /\ receipt'[r] \in Nat \ {0} /\ receipt' = [receipt EXCEPT ![r] = receipt'[r]]
    /\ granted' = granted \cup {e \in Edits : Authorized(e, signed, receipt')}
    /\ UNCHANGED <<mine, signed, shown, applied>>

\* Messages come to memory, leave it, or take more granted edits.
Display ==
    /\ shown' \subseteq Texts
    /\ \A t \in Texts :
        /\ applied'[t] \subseteq granted \cap EditsOf(t)
        /\ t \notin shown' => applied'[t] = {}
        /\ t \in shown \cap shown' => applied[t] \subseteq applied'[t]
    /\ UNCHANGED <<mine, signed, receipt, granted>>

\* The conversation is deleted from the store.
Purge ==
    /\ receipt' = [r \in Rumors |-> 0]
    /\ UNCHANGED <<mine, signed, shown, applied, granted>>

\* The process restarts and reads the screen from the store.
Reopen ==
    /\ shown' \subseteq {t \in Texts : receipt[t] > 0}
    /\ applied' = [t \in Texts |-> {e \in EditsOf(t) : t \in shown' /\ Authorized(e, signed, receipt)}]
    /\ UNCHANGED <<mine, signed, receipt, granted>>

Next == Display \/ Purge \/ Reopen \/ \E r \in Rumors : Sign(r) \/ Store(r)

Spec == Init /\ [][Next]_ledgerVars
=============================================================================
