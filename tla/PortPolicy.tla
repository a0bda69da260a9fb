------------------------------ MODULE PortPolicy ------------------------------
(***************************************************************************)
(* Desired port sets and the policy that admits them: rust/loader/src/     *)
(* policy.rs and the pure parts of desired.rs, ctl.rs and nginx_listen.rs. *)
(*                                                                         *)
(* A desired state binds some ports; a port that is not in the BTreeMap is *)
(* Unbound.  Of a PortBinding only the slot and the tenant are kept: they  *)
(* are all that the policy and the map look at (site, cert and policy ids  *)
(* are carried along and compared, never decided on).                      *)
(***************************************************************************)
EXTENDS Naturals, FiniteSets

CONSTANTS
  Ports,        \* the TCP ports of the instance, 1..65535 in the code
  Privileged,   \* those at or below 1023
  Tenants,
  Unbound       \* "no binding": not a member of Binding

Slots   == {"primary", "tls"}          \* REDIR_PRIMARY, REDIR_TLS
Closed  == "closed"                    \* the key is absent from open_ports
Binding == [slot : Slots, tenant : Tenants]
Desired == [Ports -> Binding \cup {Unbound}]

Policy == [deny       : SUBSET Ports,
           reserve    : SUBSET Ports,
           allow      : SUBSET Ports,      \* allow_privileged
           perTenant  : Nat,               \* max_ports_per_tenant
           perMachine : Nat]               \* max_ports_per_machine

ASSUME PortsAssumption ==
  /\ IsFiniteSet(Ports)
  /\ Privileged \subseteq Ports
  /\ Unbound \notin Binding

Nothing == [p \in Ports |-> Unbound]

Bound(d) == {p \in Ports : d[p] # Unbound}

OwnedBy(d, t) == {p \in Bound(d) : d[p].tenant = t}

\* The slot a desired state gives a port, Closed when it gives none.
SlotOf(d, p) == IF d[p] = Unbound THEN Closed ELSE d[p].slot

\* Ports no binding may use: validate_binding refuses them one by one.
Refused(pol) == pol.deny \cup pol.reserve \cup (Privileged \ pol.allow)

Valid(d, pol) ==
  /\ Bound(d) \cap Refused(pol) = {}
  /\ Cardinality(Bound(d)) <= pol.perMachine
  /\ \A t \in Tenants : Cardinality(OwnedBy(d, t)) <= pol.perTenant

\* reserve_listen_target for both listens of the long-running loader.
WithReserve(pol, targets) == [pol EXCEPT !.reserve = @ \cup targets]

\* desired.insert for every port `ask' binds, desired.remove for a set.
Overlay(d, ask)   == [p \in Ports |-> IF ask[p] # Unbound THEN ask[p] ELSE d[p]]
Without(d, ports) == [p \in Ports |-> IF p \in ports THEN Unbound ELSE d[p]]

\* The request that binds every port of a set in the same way.
Ask(ports, b) == [p \in Ports |-> IF p \in ports THEN b ELSE Unbound]

\* The keys of an open_ports map.
Open(map) == {p \in Ports : map[p] # Closed}

\* ReconcilePlan: keys to (re)write, keys to delete.
PlanPuts(d, map) == {p \in Bound(d) : map[p] # d[p].slot}
PlanDels(d, map) == Open(map) \ Bound(d)

\* The nginx listens import-listens takes over: not refused, not skipped.
Importable(real, pol, skip) == real \ (Refused(pol) \cup skip)
===============================================================================
