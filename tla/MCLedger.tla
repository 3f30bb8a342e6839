------------------------------ MODULE MCLedger ------------------------------
(***************************************************************************)
(* Small instances of Ledger: wallets in two currencies, two requests at a *)
(* time.                                                                   *)
(***************************************************************************)
EXTENDS Ledger, TLC

CONSTANTS w1, w2, w3, r1, r2

MCCurrency == [w \in Wallets |-> IF w = w3 THEN "USD" ELSE "IDR"]
MCSymmetry == Permutations(LedgerRequests) \cup Permutations({w1, w2})
=============================================================================
