--------------------------- MODULE MCListenHealth ---------------------------
(***************************************************************************)
(* Small instances of ListenHealth: two sockets for each target, so that a *)
(* replacement can listen while the loader still holds the old one.        *)
(***************************************************************************)
EXTENDS ListenHealth

CONSTANTS s1, s2, t1, t2

BothTargets == [s \in {s1, s2, t1, t2} |-> IF s \in {s1, s2} THEN "primary" ELSE "tls"]
HttpTarget  == [s \in {s1, s2} |-> "primary"]
AllSockets  == DOMAIN BothTargets
HttpSockets == DOMAIN HttpTarget
=============================================================================
