------------------------------ MODULE MCCtlServer ------------------------------
(***************************************************************************)
(* Small instances of CtlServer.                                           *)
(***************************************************************************)
EXTENDS CtlServer

CONSTANTS l1, l2, c1, mute

TwoLoaders == {l1, l2}
TwoClients == {c1, mute}
OnlyMute   == {mute}
===============================================================================
