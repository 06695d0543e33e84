---------------------------- MODULE OnceRegister ----------------------------
(***************************************************************************)
(* What an idempotency store promises, with no table, lease or SQL in it.  *)
(*                                                                         *)
(* Each key has one cell.  Opening a cell is the permission to run the     *)
(* operation of that key; it draws a token larger than every earlier one.  *)
(* An open cell is closed at most once, with one verdict, and the verdict  *)
(* then stands until the cell is forgotten.  A cell that was opened before *)
(* is opened again only after Retention units of time in which no opener   *)
(* was alive.                                                              *)
(***************************************************************************)
EXTENDS Naturals

CONSTANTS
    Key,        \* request identities
    Verdict,    \* what a closed cell can say
    Retention   \* how long a verdict stands

VARIABLES
    cell,       \* cell[k]: is key k open, closed, or unused
    quiet,      \* quiet[k]: time since an opener of k was last alive
    issued      \* the largest token drawn so far

vars == <<cell, quiet, issued>>

Free == [phase |-> "free", token |-> 0, verdict |-> "none"]

Opened(t) == [phase |-> "open", token |-> t, verdict |-> "none"]

Closed(t, v) == [phase |-> "closed", token |-> t, verdict |-> v]

Init ==
    /\ cell = [k \in Key |-> Free]
    /\ quiet = [k \in Key |-> Retention]
    /\ issued = 0

-----------------------------------------------------------------------------

Older(n) == IF n < Retention THEN n + 1 ELSE n

(* Nothing happens to k, except that time may pass. *)
Keep(k) ==
    /\ cell'[k] = cell[k]
    /\ quiet'[k] \in {quiet[k], Older(quiet[k])}

(* The opener of k, thought to be gone, shows that it is alive. *)
Revive(k) ==
    /\ cell[k].phase = "open"
    /\ cell'[k] = cell[k]
    /\ quiet'[k] = 0

(* The one answer of the open cell k is recorded. *)
Close(k) ==
    /\ cell[k].phase = "open"
    /\ \E v \in Verdict : cell'[k] = Closed(cell[k].token, v)
    /\ quiet'[k] = quiet[k]

(* The verdict of k has stood for long enough. *)
Forget(k) ==
    /\ cell[k].phase = "closed"
    /\ quiet[k] = Retention
    /\ cell'[k] = Free
    /\ quiet'[k] = quiet[k]

(* k may be run: for the first time, or Retention after its last opener. *)
Open(k) ==
    /\ cell[k].phase # "open"
    /\ quiet[k] = Retention
    /\ issued' > issued
    /\ cell'[k] = Opened(issued')
    /\ quiet'[k] = 0

Settle(k) == Keep(k) \/ Revive(k) \/ Close(k) \/ Forget(k)

(* One store transaction opens at most one key, and may close or forget    *)
(* any number of the others; a token may be drawn and never used.          *)
Next ==
    \/ \E k \in Key :
          /\ Open(k)
          /\ \A j \in Key \ {k} : Settle(j)
    \/ /\ issued' \in {issued, issued + 1}
       /\ \A k \in Key : Settle(k)

Spec == Init /\ [][Next]_vars
=============================================================================
