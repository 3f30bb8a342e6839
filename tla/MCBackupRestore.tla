--------------------------- MODULE MCBackupRestore ---------------------------
(* A household with a wallet, a goal and a budget, and room for a capture, a *)
(* reservation and a transaction.                                            *)
EXTENDS BackupRestore, TLC

Table == 0 :> "households" @@ 1 :> "wallets" @@ 2 :> "financial_goals"
      @@ 3 :> "transaction_captures" @@ 4 :> "budgets"
      @@ 5 :> "goal_reservation_events" @@ 6 :> "transactions"
First == {0, 1, 2, 4}
MCIds == DOMAIN Table
=============================================================================
