------------------------------ MODULE GoalPage ------------------------------
(***************************************************************************)
(* The goals page: GoalMount.tsx, GoalPanel.tsx, useGoals.ts, and one goal *)
(* card with its wallet.  Nothing on it is disabled while a call is under  *)
(* way.                                                                    *)
(***************************************************************************)
EXTENDS PageFrame

GoalsShown == Shown("goals")
CardShown == GoalsShown /\ items # NoHousehold

\* The buttons Reserve and Release are disabled without a wallet.
CanReserve == CardShown /\ choice # NoHousehold

AddGoal ==
    /\ GoalsShown /\ Room
    /\ Starts(Call("createGoal", prop, NoHousehold, NoHousehold))
    /\ UNCHANGED <<frameVars, loadedVars, formVars, flagVars>>

ActOnGoal ==
    /\ Room
    /\ \/ /\ CanReserve
          /\ \E c \in {"reserveGoal", "releaseGoal"} : Starts(Call(c, prop, items, choice))
       \/ CardShown /\ Starts(Call("archiveGoal", prop, items, NoHousehold))
    /\ UNCHANGED <<frameVars, loadedVars, formVars, flagVars>>

\* The select of the card.
ChooseWallet ==
    /\ CardShown
    /\ wallets # NoHousehold
    /\ choice' = wallets
    /\ UNCHANGED <<frameVars, loadedVars, second, review, flagVars, jobs>>

\* The goals are listed again, or the card or the panel shows the error.
GoalCallEnds(j) ==
    /\ j.live /\ j.call \in GoalWrites
    /\ \/ Served(j) /\ GoesOn(j, {Read("items", j.household)})
       \/ Done(j)
    /\ UNCHANGED <<frameVars, loadedVars, formVars, flagVars>>

\* A card that is mounted holds the first wallet there is at that time; the
\* card of a goal that was listed before keeps its own.
GoalsListed(j) ==
    /\ route = "goals"
    /\ j.live /\ j.call = "items"
    /\ items' = j.household
    /\ choice' \in {wallets} \cup (IF items = j.household THEN {choice} ELSE {})
    /\ Late(j.household)
    /\ Done(j)
    /\ UNCHANGED <<frameVars, wallets, budgets, second, review, busy, switching>>

GoalsNotListed(j) ==
    /\ route = "goals"
    /\ j.live /\ j.call = "items"
    /\ stale' = TRUE
    /\ Done(j)
    /\ UNCHANGED <<frameVars, loadedVars, formVars, busy, switching>>

GoalEnds(j) == GoalCallEnds(j) \/ GoalsListed(j) \/ GoalsNotListed(j)
GoalNext == AddGoal \/ ActOnGoal \/ ChooseWallet \/ \E j \in jobs : GoalEnds(j)
=============================================================================
