---------------------------- MODULE MCWebClient -----------------------------
(***************************************************************************)
(* Small instances of WebClient: two users who share one household, and a  *)
(* household of the first one alone.                                       *)
(***************************************************************************)
EXTENDS WebClient, TLC

CONSTANTS alice, bob, h1, h2

TwoFamilies == (alice :> {h1, h2}) @@ (bob :> {h2})
=============================================================================
