------------------------------ MODULE DesiredState ------------------------------
(***************************************************************************)
(* What the product interface of the control plane promises.               *)
(*                                                                         *)
(* There is one saved desired state.  While the loader serves it changes   *)
(* by whole requests, each applied to the state the one before it left,    *)
(* and only after the live map has caught up with it.  The map moves port  *)
(* by port and always straight to what is saved: a port that is bound      *)
(* before and after a change is never closed in between, and one that no   *)
(* request names is never touched.  The loader may stop anywhere; it       *)
(* serves again when the map is what is saved.                             *)
(*                                                                         *)
(* There is no mutex here, no job, no copy of the file and no plan.        *)
(***************************************************************************)
EXTENDS PortPolicy

CONSTANTS
  Policies,   \* contents policy.conf may have
  Seed        \* what is saved when nothing is

VARIABLES
  saved, have,   \* the desired state, and whether there is one
  live,          \* the slot of every port, or Closed
  serving

promised == <<saved, have, live, serving>>

Init ==
  /\ saved = Nothing /\ have = FALSE
  /\ live = [p \in Ports |-> Closed] /\ serving = FALSE

CaughtUp == \A p \in Ports : live[p] = SlotOf(saved, p)

Save(d) == saved' = d /\ have' = TRUE /\ UNCHANGED <<live, serving>>

Admitted(d) == \E pol \in Policies : Valid(d, pol)

SaveSeed == ~serving /\ ~have /\ Admitted(Seed) /\ Save(Seed)

OpenPorts(ports, b) ==
  /\ serving /\ CaughtUp
  /\ Admitted(Overlay(saved, Ask(ports, b)))
  /\ Save(Overlay(saved, Ask(ports, b)))

ClosePorts(ports) ==
  /\ serving /\ CaughtUp
  /\ Save(Without(saved, ports))

MovePort(p) ==
  /\ live' = [live EXCEPT ![p] = SlotOf(saved, p)]
  /\ UNCHANGED <<saved, have, serving>>

BeginServing ==
  /\ ~serving /\ have /\ CaughtUp
  /\ serving' = TRUE /\ UNCHANGED <<saved, have, live>>

StopServing ==
  /\ serving
  /\ serving' = FALSE /\ UNCHANGED <<saved, have, live>>

Next ==
  \/ SaveSeed
  \/ \E ports \in SUBSET Ports : ClosePorts(ports) \/ \E b \in Binding : OpenPorts(ports, b)
  \/ \E p \in Ports : MovePort(p)
  \/ BeginServing \/ StopServing

Spec == Init /\ [][Next]_promised
===============================================================================
