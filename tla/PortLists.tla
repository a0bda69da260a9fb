-------------------------------- MODULE PortLists --------------------------------
(***************************************************************************)
(* The port lists of one command (ports.rs): the ports a `bulk fill' picks *)
(* (generate_fill_ports) and the ports that ranges and single ports of a   *)
(* `bulk' command name (parse_port_range, collect_bulk_ports), one step    *)
(* per turn of their loops.                                                *)
(*                                                                         *)
(* A port is a u16: adding one to the last of them wraps.  A specification *)
(* START-END is a pair, a single port p the pair <<p, p>>.                 *)
(***************************************************************************)
EXTENDS FiniteSets, Naturals, Sequences

CONSTANTS
  MaxPort,   \* u16::MAX
  Capacity   \* OPEN_PORTS_MAX_ENTRIES

ASSUME ListsAssumption == MaxPort \in Nat \ {0} /\ Capacity \in Nat

U16 == 0..MaxPort

Fill == [op : {"fill"}, start : U16, count : Nat, skip : SUBSET U16]
Bulk == [op : {"bulk"}, specs : Seq(U16 \X U16)]

VARIABLES
  request,
  list,     \* where the command is
  k,        \* the specification that is being expanded
  p,        \* the port the loop is at
  named,    \* the ports of the specifications, with duplicates
  out       \* the list so far

listVars == <<request, list, k, p, named, out>>

ListTypeOK ==
  /\ request \in Fill \cup Bulk
  /\ list \in {"check", "fill", "next", "range", "unique", "ok", "error"}
  /\ k \in Nat \ {0} /\ p \in U16
  /\ named \in Seq(U16 \ {0}) /\ out \in Seq(U16 \ {0})

ListInit(requests) ==
  /\ request \in requests
  /\ list = "check" /\ k = 1 /\ p = 0 /\ named = <<>> /\ out = <<>>

\* Wrapping, as in a release build.
Inc(x) == (x + 1) % (MaxPort + 1)

Elements(s) == {s[i] : i \in DOMAIN s}

-------------------------------------------------------------------------------
(* generate_fill_ports.                                                    *)

FillCheck ==
  /\ list = "check" /\ request \in Fill
  /\ IF request.count = 0 \/ request.count > Capacity \/ request.start = 0
     THEN list' = "error" /\ UNCHANGED p
     ELSE list' = "fill"  /\ p' = request.start
  /\ UNCHANGED <<request, k, named, out>>

\* Mutant: no look at the last port before one is added.
MutFillStep ==
  /\ list = "fill"
  /\ out' = IF p \in request.skip THEN out ELSE Append(out, p)
  /\ IF Len(out') = request.count THEN list' = "ok" /\ UNCHANGED p
     ELSE p' = Inc(p) /\ UNCHANGED list
  /\ UNCHANGED <<request, k, named>>

\* Mutant: the last port is not taken any more.
MutFillStepWithoutLast ==
  /\ list = "fill"
  /\ IF p = MaxPort THEN list' = "error" /\ UNCHANGED <<p, out>>
     ELSE /\ out' = IF p \in request.skip THEN out ELSE Append(out, p)
          /\ IF Len(out') = request.count THEN list' = "ok" /\ UNCHANGED p
             ELSE p' = Inc(p) /\ UNCHANGED list
  /\ UNCHANGED <<request, k, named>>

\* Mutant: the ports that are skipped count.
MutFillStepCountsSkipped ==
  /\ list = "fill"
  /\ out' = IF p \in request.skip THEN out ELSE Append(out, p)
  /\ IF p + 1 = request.start + request.count THEN list' = "ok" /\ UNCHANGED p
     ELSE IF p = MaxPort THEN list' = "error" /\ UNCHANGED p
     ELSE p' = Inc(p) /\ UNCHANGED list
  /\ UNCHANGED <<request, k, named>>

FillStep ==
  /\ list = "fill"
  /\ out' = IF p \in request.skip THEN out ELSE Append(out, p)
  /\ IF Len(out') = request.count THEN list' = "ok" /\ UNCHANGED p
     ELSE IF p = MaxPort THEN list' = "error" /\ UNCHANGED p
     ELSE p' = Inc(p) /\ UNCHANGED list
  /\ UNCHANGED <<request, k, named>>

-------------------------------------------------------------------------------
(* collect_bulk_ports.                                                     *)

BulkCheck ==
  /\ list = "check" /\ request \in Bulk
  /\ list' = "next" /\ UNCHANGED <<request, k, p, named, out>>

\* parse_port_range: 0 is not a port and END may not come before START.
NextSpec ==
  /\ list = "next"
  /\ IF k > Len(request.specs) THEN list' = "unique" /\ UNCHANGED p
     ELSE IF request.specs[k][1] = 0 \/ request.specs[k][2] < request.specs[k][1]
     THEN list' = "error" /\ UNCHANGED p
     ELSE list' = "range" /\ p' = request.specs[k][1]
  /\ UNCHANGED <<request, k, named, out>>

\* Mutant: END is not part of the range.
MutRangeStep ==
  /\ list = "range"
  /\ IF p = request.specs[k][2] THEN list' = "next" /\ k' = k + 1 /\ UNCHANGED <<p, named>>
     ELSE named' = Append(named, p) /\ p' = Inc(p) /\ UNCHANGED <<list, k>>
  /\ UNCHANGED <<request, out>>

RangeStep ==
  /\ list = "range"
  /\ named' = Append(named, p)
  /\ IF p = request.specs[k][2] THEN list' = "next" /\ k' = k + 1 /\ UNCHANGED p
     ELSE p' = Inc(p) /\ UNCHANGED <<list, k>>
  /\ UNCHANGED <<request, out>>

\* unique_ports: a port is taken the first time it comes.
UniqueStep ==
  /\ list = "unique" /\ named # <<>>
  /\ named' = Tail(named)
  /\ out' = IF Head(named) \in Elements(out) THEN out ELSE Append(out, Head(named))
  /\ UNCHANGED <<request, list, k, p>>

\* An empty list is refused, and one that does not fit into open_ports.
Collected ==
  /\ list = "unique" /\ named = <<>>
  /\ list' = IF out = <<>> \/ Len(out) > Capacity THEN "error" ELSE "ok"
  /\ UNCHANGED <<request, k, p, named, out>>

ListNext == FillCheck \/ FillStep \/ BulkCheck \/ NextSpec \/ RangeStep \/ UniqueStep \/ Collected

ListSpec == ListInit(Fill \cup Bulk) /\ [][ListNext]_listVars

-------------------------------------------------------------------------------
(* Properties.                                                             *)

\* The ports a fill may pick, up to q.
Free(q) == {x \in request.start..q : x \notin request.skip}

\* A fill that succeeds has the first `count' ports from `start' on that are not
\* skipped, in ascending order, and never one below `start' (ports.rs
\* generate_fill_ports at the end of the u16 range).
FillExact ==
  list = "ok" /\ request \in Fill =>
    /\ Len(out) = request.count
    /\ Elements(out) = Free(p)
    /\ \A i, j \in DOMAIN out : i < j => out[i] < out[j]

\* A fill that is refused could not have been granted: the count or the start is out
\* of range, or fewer ports are left than it wants (ports.rs generate_fill_ports).
FillRefused ==
  list = "error" /\ request \in Fill =>
    \/ request.count = 0 \/ request.count > Capacity \/ request.start = 0
    \/ Elements(out) = Free(MaxPort) /\ Len(out) < request.count

\* A bulk list that is accepted has exactly the ports the specifications name, each
\* once, also when a range ends at the last port (ports.rs parse_port_range,
\* unique_ports).
BulkExact ==
  list = "ok" /\ request \in Bulk =>
    /\ Elements(out) = UNION {s[1]..s[2] : s \in Elements(request.specs)}
    /\ \A i, j \in DOMAIN out : out[i] = out[j] => i = j
===============================================================================
