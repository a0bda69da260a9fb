------------------------------- MODULE MCUpgrade -------------------------------
(***************************************************************************)
(* Small instances of Upgrade: the built-in generation and candidates.     *)
(***************************************************************************)
EXTENDS Upgrade

CONSTANTS old, new, newer

Old         == old
Generations == {old, new, newer}
===============================================================================
