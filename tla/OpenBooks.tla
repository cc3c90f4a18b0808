------------------------------- MODULE OpenBooks -------------------------------
(***************************************************************************)
(* What the ledger of one booking promises, without claims, sessions,       *)
(* notifications, couriers or statuses: a payment is entered once, and what *)
(* was paid in all is carried forward with each entry; a deposit is         *)
(* returned once, out of deposit that was entered; and the books close      *)
(* when all that is due was paid and no deposit is open.  What is due may   *)
(* change at any time.                                                      *)
(***************************************************************************)
EXTENDS Integers

CONSTANTS Payments, Items, ItemDeposit

VARIABLES
  entries,    \* entries [payment, amount, deposit]
  total,      \* what was paid in all, carried forward
  held,       \* deposit that was paid and not returned
  due,
  returned,   \* items whose deposit was settled
  closed

bookVars == <<entries, total, held, due, returned, closed>>

Entry(e) == e.payment \in Payments /\ e.amount \in Nat \ {0} /\ e.deposit \in 0..e.amount

(* The books are opened empty or with a first entry.                        *)
Init ==
  /\ \/ entries = {} /\ total = 0 /\ held = 0
     \/ \E e \in entries : Entry(e) /\ entries = {e} /\ total = e.amount /\ held = e.deposit
  /\ due \in Nat
  /\ returned = {} /\ closed = FALSE

Enter(e) ==
  /\ Entry(e)
  /\ \A f \in entries : f.payment # e.payment
  /\ entries' = entries \cup {e}
  /\ total' = total + e.amount
  /\ held' = held + e.deposit
  /\ UNCHANGED <<due, returned, closed>>

Charge ==
  /\ due' \in Nat
  /\ UNCHANGED <<total, returned, closed, entries, held>>

(* What is settled beyond the deposit is charged with it.                   *)
Return(i) ==
  /\ ~closed
  /\ i \notin returned
  /\ ItemDeposit[i] <= held
  /\ returned' = returned \cup {i}
  /\ held' = held - ItemDeposit[i]
  /\ due' \in Nat /\ due' >= due
  /\ UNCHANGED <<entries, total, closed>>

Close ==
  /\ ~closed
  /\ returned = Items
  /\ total >= due
  /\ closed' = TRUE
  /\ UNCHANGED <<entries, total, held, due, returned>>

(* An entry is of any amount: the new one is looked at, not enumerated.     *)
Next ==
  \/ Charge
  \/ \E e \in entries' \ entries : Enter(e)
  \/ \E i \in Items : Return(i)
  \/ Close

Spec == Init /\ [][Next]_bookVars
=============================================================================
