--------------------------- MODULE FundsContract ----------------------------
(***************************************************************************)
(* What reserving money for goals promises, with no locks and no statements*)
(* in it: a reservation happens at one instant, at which the goal and the  *)
(* wallet are active and the wallet's balance covers what its goals hold   *)
(* together with the new amount.  The balance itself goes where income,    *)
(* expenses and transfers take it.                                         *)
(***************************************************************************)
EXTENDS Integers

CONSTANTS Wallets, Currency, Goals, GoalCurrency, Amounts

VARIABLES
    status,           \* status[w]: "absent", "active" or "archived"
    goalStatus,       \* goalStatus[g]: the same for goals
    balance,          \* balance[w]: income less expenses and transfers
    reserved,         \* reserved[g][w]: what goal g holds of wallet w
    held              \* held[w]: what all goals hold of wallet w

vars == <<status, goalStatus, balance, reserved, held>>

Init ==
    /\ status = [w \in Wallets |-> "absent"]
    /\ goalStatus = [g \in Goals |-> "absent"]
    /\ balance = [w \in Wallets |-> 0]
    /\ reserved = [g \in Goals |-> [w \in Wallets |-> 0]]
    /\ held = [w \in Wallets |-> 0]

Change(g, w, d) ==
    /\ Currency[w] = GoalCurrency[g]
    /\ reserved' = [reserved EXCEPT ![g][w] = @ + d]
    /\ held' = [held EXCEPT ![w] = @ + d]
    /\ UNCHANGED <<status, goalStatus, balance>>

Reserve(g, w, a) ==
    /\ goalStatus[g] = "active" /\ status[w] = "active"
    /\ balance[w] - held[w] >= a
    /\ Change(g, w, a)

Release(g, w, a) ==
    /\ reserved[g][w] >= a
    /\ Change(g, w, -a)

MoveMoney ==
    /\ balance' \in [Wallets -> Int]
    /\ UNCHANGED <<status, goalStatus, reserved, held>>

\* A row is created active and archived once, for good.
Advances(old, new) == \/ old = "absent" /\ new = "active"
                      \/ old = "active" /\ new = "archived"

WalletLife(w) ==
    \E new \in {"active", "archived"} :
        /\ Advances(status[w], new)
        /\ status' = [status EXCEPT ![w] = new]
        /\ UNCHANGED <<goalStatus, balance, reserved, held>>

GoalLife(g) ==
    \E new \in {"active", "archived"} :
        /\ Advances(goalStatus[g], new)
        /\ goalStatus' = [goalStatus EXCEPT ![g] = new]
        /\ UNCHANGED <<status, balance, reserved, held>>

Next ==
    \/ \E g \in Goals, w \in Wallets, a \in Amounts : Reserve(g, w, a) \/ Release(g, w, a)
    \/ MoveMoney
    \/ \E w \in Wallets : WalletLife(w)
    \/ \E g \in Goals : GoalLife(g)

Spec == Init /\ [][Next]_vars
=============================================================================
