------------------------------- MODULE MCDataplane -------------------------------
(***************************************************************************)
(* Small instances of Dataplane: the unit and a loader started by hand.    *)
(***************************************************************************)
EXTENDS Dataplane

CONSTANTS unit, hand

Both == {unit, hand}
===============================================================================
