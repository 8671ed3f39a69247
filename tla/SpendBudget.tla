---------------------------- MODULE SpendBudget ----------------------------
(***************************************************************************)
(* What admission under a monthly cap promises, with no lock, no queries   *)
(* and no ledger in sight: a call reserves its estimate in one step, and   *)
(* only if the account it is charged to has room; settling replaces the    *)
(* reserve by what the call cost.  An account is a project's month.        *)
(*                                                                         *)
(* GatewayLedger implements this: its check is four reads and its row a    *)
(* fifth step, and other calls open, settle and crash between them.        *)
(***************************************************************************)
EXTENDS Integers

CONSTANTS
  Calls,      \* the calls that may be charged
  Projects,
  Months,     \* a set of integers
  Amounts,    \* what a call may reserve or cost, a set of naturals
  Cap         \* [Projects -> Nat]

VARIABLES
  month,      \* the current month
  spent,      \* spent[<<p, m>>]: what the account is charged, reserves included
  excess,     \* excess[<<p, m>>]: the part of spent that no reservation covered
  charge      \* charge[c]: the state and the amount of c's charge

vars == <<month, spent, excess, charge>>

Charge(s, p, m, amount) == [state |-> s, project |-> p, month |-> m, amount |-> amount]

Init ==
  /\ month \in Months
  /\ spent = [k \in Projects \X Months |-> 0]
  /\ excess = [k \in Projects \X Months |-> 0]
  /\ charge = [c \in Calls |-> [state |-> "none"]]

NextMonth ==
  /\ month' \in {m \in Months : m > month}
  /\ UNCHANGED <<spent, excess, charge>>

\* A reservation in the current month fits under the cap, but for what earlier calls
\* cost beyond their own reservations.
Reserve(c, p, amount) ==
  /\ charge[c].state = "none"
  /\ spent[<<p, month>>] + amount <= Cap[p] + excess[<<p, month>>]
  /\ spent' = [spent EXCEPT ![<<p, month>>] = @ + amount]
  /\ charge' = [charge EXCEPT ![c] = Charge("open", p, month, amount)]
  /\ UNCHANGED <<month, excess>>

\* A call asked for before the month ended may still be charged to it, and was checked
\* against that month or the new one.
ReserveLate(c, p, m, amount) ==
  /\ charge[c].state = "none"
  /\ m < month
  /\ spent' = [spent EXCEPT ![<<p, m>>] = @ + amount]
  /\ \E uncovered \in {0, amount} :
       /\ excess' = [excess EXCEPT ![<<p, m>>] = @ + uncovered]
       /\ uncovered = 0 => spent[<<p, m>>] + amount <= Cap[p] + excess[<<p, m>>]
  /\ charge' = [charge EXCEPT ![c] = Charge("open", p, m, amount)]
  /\ UNCHANGED month

\* Opened with nothing reserved: nothing is checked.
Open(c, p, m) ==
  /\ charge[c].state = "none"
  /\ charge' = [charge EXCEPT ![c] = Charge("open", p, m, 0)]
  /\ UNCHANGED <<month, spent, excess>>

\* Once, and only for a charge that is open.
Settle(c, cost) ==
  /\ charge[c].state = "open"
  /\ LET k    == <<charge[c].project, charge[c].month>>
         over == cost - charge[c].amount
     IN  /\ spent' = [spent EXCEPT ![k] = @ + over]
         /\ excess' = [excess EXCEPT ![k] = @ + IF over > 0 THEN over ELSE 0]
  /\ charge' = [charge EXCEPT ![c].state = "settled", ![c].amount = cost]
  /\ UNCHANGED month

Next ==
  \/ NextMonth
  \/ \E c \in Calls, p \in Projects, amount \in Amounts :
       \/ Reserve(c, p, amount)
       \/ \E m \in Months : ReserveLate(c, p, m, amount)
  \/ \E c \in Calls, p \in Projects, m \in Months : Open(c, p, m)
  \/ \E c \in Calls, cost \in Amounts : Settle(c, cost)

Spec == Init /\ [][Next]_vars
=============================================================================
