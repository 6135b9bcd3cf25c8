----------------------------- MODULE MCAccounts -----------------------------
(* Small instances of Accounts for TLC.                                    *)
EXTENDS Accounts

CONSTANTS c1, c2, b1, b2
=============================================================================
