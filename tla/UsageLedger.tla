----------------------------- MODULE UsageLedger -----------------------------
(***************************************************************************)
(* What the panel promises about traffic accounting, without the handlers  *)
(* that implement it: a usage entry an agent sent is added to the user it  *)
(* names at most once and in one piece, and the counter otherwise moves    *)
(* only when an administrator zeroes it.  The panel does not look at the   *)
(* sign of an entry, so nothing is said of it here: a negative one lowers  *)
(* the counter.  AgentReport implements this ledger, one SQL statement at  *)
(* a time.                                                                 *)
(***************************************************************************)
EXTENDS Integers

CONSTANTS Users,     \* the accounts that have a counter
          Entries,   \* identities of the usage entries ever delivered
          Amounts    \* the byte counts an entry may carry, of either sign

VARIABLES used,      \* users.traffic_used
          charged    \* the entries already added to some counter

vars == <<used, charged>>

Init == /\ used = [u \in Users |-> 0]
        /\ charged = {}

Charge(u, e, n) == /\ e \notin charged
                   /\ charged' = charged \union {e}
                   /\ used' = [used EXCEPT ![u] = @ + n]

Reset(u) == /\ used' = [used EXCEPT ![u] = 0]
            /\ UNCHANGED charged

Next == \E u \in Users :
          \/ \E e \in Entries, n \in Amounts : Charge(u, e, n)
          \/ Reset(u)

Spec == Init /\ [][Next]_vars
==============================================================================
