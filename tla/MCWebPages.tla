----------------------------- MODULE MCWebPages -----------------------------
(***************************************************************************)
(* Small instances of WebPages: a user of two households.                  *)
(***************************************************************************)
EXTENDS WebPages

CONSTANTS h1, h2
=============================================================================
