----------------------------- MODULE MCSmtpPool -----------------------------
(* Small instances of SmtpPool. *)
EXTENDS SmtpPool, TLC

CONSTANTS m1, m2, m3

Symmetric == Permutations(Sends)
=============================================================================
