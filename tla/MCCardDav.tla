----------------------------- MODULE MCCardDav -----------------------------
(* Small instances of CardDav. *)
EXTENDS CardDav

CONSTANTS c1, c2
=============================================================================
