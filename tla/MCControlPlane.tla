---------------------------- MODULE MCControlPlane ----------------------------
(***************************************************************************)
(* Small instances of ControlPlane for TLC.                                *)
(*                                                                         *)
(* a and b are ordinary ports, d is a privileged one.                      *)
(***************************************************************************)
EXTENDS ControlPlane

CONSTANTS a, b, d, t, u

Rules(deny, allow, perTenant, perMachine) ==
  [deny |-> deny, reserve |-> {}, allow |-> allow,
   perTenant |-> perTenant, perMachine |-> perMachine]

OnlyB    == {b}
OnlyD    == {d}
PortsAB  == {a, b}
PortsAD  == {a, d}
AllPorts == {a, b, d}
OneTenant  == {t}
TwoTenants == {t, u}

\* Roomy: both ordinary ports fit.  Single and Other: neither admits what the other
\* does: one ordinary port, or one port for each tenant, privileged or not, but not a.
Roomy  == Rules({}, {}, 2, 2)
Single == Rules({}, {}, 1, 1)
Other  == Rules({a}, Privileged, 1, 2)
OnePolicy   == {Roomy}
TwoPolicies == {Roomy, Rules({a}, {}, 1, 1)}
Rivals      == {Single, Other}

NoReal  == {{}}
RealB   == {{b}}
RealMaybeB == {{}, {b}}

One(p, slot) == [Nothing EXCEPT ![p] = [slot |-> slot, tenant |-> t]]

SeedA == One(a, "primary")

\* Hand edits: move everything to b, or bind both; a file that names d.
EditsAB   == {One(b, "tls"), Overlay(One(a, "tls"), One(b, "primary"))}
EditsD    == {One(d, "primary"), One(a, "tls")}
CentralA  == {One(a, "tls")}
CentralB  == {One(b, "tls")}
===============================================================================
