--------------------------- MODULE BulkPrepare_proofs ---------------------------
(***************************************************************************)
(* Machine-checked proofs about BulkPrepare: a fill and a bulk list are    *)
(* exact for every width of a port, every capacity and every request; the  *)
(* walk of the include tree reads each file once and misses none, for any  *)
(* tree, links, cycles and patterns.                                       *)
(***************************************************************************)
EXTENDS BulkPrepare, TLAPS, WellFoundedInduction

(***************************************************************************)
(* Sequences.                                                              *)
(***************************************************************************)

Ascending(s) == \A i, j \in DOMAIN s : i < j => s[i] < s[j]
Distinct(s)  == \A i, j \in DOMAIN s : s[i] = s[j] => i = j

LEMMA AppendElements ==
  ASSUME NEW S, NEW s \in Seq(S), NEW x \in S
  PROVE  /\ Append(s, x) \in Seq(S)
         /\ Len(Append(s, x)) = Len(s) + 1
         /\ Elements(Append(s, x)) = Elements(s) \cup {x}
<1>1. DOMAIN Append(s, x) = 1..(Len(s) + 1) /\ DOMAIN s = 1..Len(s) /\ Len(s) \in Nat
  OBVIOUS
<1>2. \A i \in DOMAIN s : Append(s, x)[i] = s[i]
  OBVIOUS
<1>3. Append(s, x)[Len(s) + 1] = x
  OBVIOUS
<1>4. DOMAIN Append(s, x) = DOMAIN s \cup {Len(s) + 1}
  BY <1>1
<1>5. Elements(Append(s, x)) = Elements(s) \cup {x}
  BY <1>2, <1>3, <1>4 DEF Elements
<1> QED BY <1>5

LEMMA AppendAscending ==
  ASSUME NEW s \in Seq(Nat), NEW x \in Nat, Ascending(s), \A y \in Elements(s) : y < x
  PROVE  Ascending(Append(s, x))
<1>1. DOMAIN Append(s, x) = 1..(Len(s) + 1) /\ DOMAIN s = 1..Len(s) /\ Len(s) \in Nat
  OBVIOUS
<1>2. \A i \in DOMAIN s : Append(s, x)[i] = s[i] /\ s[i] < x
  BY DEF Elements
<1>3. Append(s, x)[Len(s) + 1] = x
  OBVIOUS
<1> QED BY <1>1, <1>2, <1>3 DEF Ascending

LEMMA TailElements ==
  ASSUME NEW S, NEW s \in Seq(S), s # <<>>
  PROVE  /\ Head(s) \in S /\ Tail(s) \in Seq(S)
         /\ Elements(s) = {Head(s)} \cup Elements(Tail(s))
<1>1. /\ DOMAIN s = 1..Len(s) /\ Len(s) \in Nat \ {0} /\ Head(s) = s[1]
      /\ DOMAIN Tail(s) = 1..(Len(s) - 1)
  OBVIOUS
<1>2. \A i \in 1..(Len(s) - 1) : Tail(s)[i] = s[i + 1]
  OBVIOUS
<1>3. \A i \in 2..Len(s) : i - 1 \in 1..(Len(s) - 1) /\ Tail(s)[i - 1] = s[i]
  BY <1>1, <1>2
<1>4. 1..Len(s) = {1} \cup 2..Len(s) /\ \A i \in 1..(Len(s) - 1) : i + 1 \in 2..Len(s)
  BY <1>1
<1>5. Elements(Tail(s)) = {s[i] : i \in 2..Len(s)}
  <2>1. \A x \in Elements(Tail(s)) : x \in {s[i] : i \in 2..Len(s)}
    BY <1>1, <1>2, <1>4 DEF Elements
  <2>2. \A i \in 2..Len(s) : s[i] \in Elements(Tail(s))
    BY <1>1, <1>3 DEF Elements
  <2> QED BY <2>1, <2>2
<1>6. Elements(s) = {s[1]} \cup {s[i] : i \in 2..Len(s)}
  BY <1>1, <1>4 DEF Elements
<1> QED BY <1>1, <1>5, <1>6

\* A list without duplicates stays one when something new is appended.
LEMMA AppendDistinct ==
  ASSUME NEW S, NEW s \in Seq(S), NEW x \in S, Distinct(s), x \notin Elements(s)
  PROVE  Distinct(Append(s, x))
<1>1. DOMAIN Append(s, x) = DOMAIN s \cup {Len(s) + 1} /\ Len(s) + 1 \notin DOMAIN s
  OBVIOUS
<1>2. \A i \in DOMAIN s : Append(s, x)[i] = s[i] /\ s[i] # x
  BY DEF Elements
<1>3. Append(s, x)[Len(s) + 1] = x
  OBVIOUS
<1> QED BY <1>1, <1>2, <1>3 DEF Distinct

LEMMA EmptyList ==
  /\ \A S : <<>> \in Seq(S)
  /\ Len(<<>>) = 0 /\ Elements(<<>>) = {} /\ Ascending(<<>>) /\ Distinct(<<>>)
  BY DEF Elements, Ascending, Distinct

(***************************************************************************)
(* The inductive invariant: what the loop has picked is all that is free   *)
(* below the port it is at, and it still wants more.                       *)
(***************************************************************************)

Stages == {"check", "fill", "ok", "error"}

Picked(q) == Elements(out) = Free(q) /\ Ascending(out)

FillInv ==
  request \in Fill =>
    /\ list \in Stages /\ out \in Seq(Nat)
    /\ list = "check" => out = <<>>
    /\ list = "fill" => /\ request.start # 0 /\ p \in request.start..MaxPort
                        /\ Picked(p - 1) /\ Len(out) < request.count
    /\ FillExact /\ FillRefused

\* One more port, or none when it is skipped.
LEMMA PickOne ==
  ASSUME request \in Fill, out \in Seq(Nat), request.start # 0, p \in request.start..MaxPort,
         Picked(p - 1), request' = request,
         out' = IF p \in request.skip THEN out ELSE Append(out, p)
  PROVE  /\ out' \in Seq(Nat) /\ Elements(out') = Free(p) /\ Ascending(out')
         /\ Len(out') <= Len(out) + 1
<1>0. /\ request.start \in Nat /\ p \in Nat /\ MaxPort \in Nat /\ Len(out) \in Nat
      /\ request.start..p = (request.start..(p - 1)) \cup {p}
  BY ListsAssumption DEF Fill, U16
<1>1. CASE p \in request.skip
  <2>1. Free(p) = Free(p - 1)
    BY <1>0, <1>1 DEF Free
  <2> QED BY <1>0, <1>1, <2>1 DEF Picked
<1>2. CASE p \notin request.skip
  <2>1. Free(p) = Free(p - 1) \cup {p}
    BY <1>0, <1>2 DEF Free
  <2>2. \A y \in Elements(out) : y < p
    BY <1>0 DEF Picked, Free
  <2> QED BY <1>0, <1>2, <2>1, <2>2, AppendElements, AppendAscending DEF Picked
<1> QED BY <1>1, <1>2

LEMMA FillStart ==
  ASSUME request \in Fill, list = "check", out = <<>>, FillCheck
  PROVE  FillInv'
<1>0. /\ request.start \in Nat /\ request.count \in Nat /\ request.start <= MaxPort /\ MaxPort \in Nat
      /\ request' = request /\ out' = out /\ out \in Seq(Nat) /\ Len(out) = 0 /\ Elements(out) = {}
      /\ Ascending(out)
  BY EmptyList, ListsAssumption DEF FillCheck, Fill, U16
<1>1. CASE list' = "error"
  BY <1>0, <1>1 DEF FillCheck, FillInv, Stages, FillExact, FillRefused
<1>2. CASE list' = "fill"
  <2>1. p' = request.start /\ request.count # 0 /\ request.start # 0
    BY <1>2 DEF FillCheck
  <2>2. request.start..(request.start - 1) = {}
    BY <1>0
  <2>3. Free(p - 1)' = {}
    BY <1>0, <2>1, <2>2 DEF Free
  <2> QED BY <1>0, <1>2, <2>1, <2>3
          DEF FillInv, Stages, Picked, FillExact, FillRefused, Ascending, Elements
<1> QED BY <1>1, <1>2 DEF FillCheck

LEMMA FillTurn ==
  ASSUME request \in Fill, FillInv, FillStep
  PROVE  FillInv'
<1>0. /\ request.start \in Nat /\ request.start # 0 /\ request.count \in Nat /\ MaxPort \in Nat
      /\ p \in request.start..MaxPort /\ out \in Seq(Nat) /\ Len(out) < request.count
      /\ Len(out) \in Nat /\ request' = request
  BY ListsAssumption DEF FillStep, FillInv, Fill, U16
<1>1. /\ out' \in Seq(Nat) /\ Elements(out') = Free(p) /\ Ascending(out')
      /\ Len(out') <= Len(out) + 1 /\ Len(out') \in Nat
  BY <1>0, PickOne DEF FillStep, FillInv
<1>2. CASE Len(out') = request.count
  <2>1. list' = "ok" /\ p' = p
    BY <1>2 DEF FillStep
  <2> QED BY <1>0, <1>1, <1>2, <2>1
          DEF FillInv, Stages, FillExact, FillRefused, Free, Ascending, Elements
<1>3. CASE Len(out') # request.count /\ p = MaxPort
  <2>1. list' = "error" /\ p' = p /\ Len(out') < request.count
    BY <1>0, <1>1, <1>3 DEF FillStep
  <2> QED BY <1>0, <1>1, <1>3, <2>1
          DEF FillInv, Stages, FillExact, FillRefused, Free, Elements
<1>4. CASE Len(out') # request.count /\ p # MaxPort
  <2>1. list' = "fill" /\ p' = Inc(p) /\ Len(out') < request.count
    BY <1>0, <1>1, <1>4 DEF FillStep
  <2>2. Inc(p) = p + 1
    BY <1>0, <1>4 DEF Inc
  <2>3. p' \in request.start..MaxPort /\ p' - 1 = p
    BY <1>0, <1>4, <2>1, <2>2
  <2> QED BY <1>0, <1>1, <2>1, <2>3
          DEF FillInv, Stages, Picked, FillExact, FillRefused, Free, Ascending, Elements
<1> QED BY <1>2, <1>3, <1>4

LEMMA FillInvInit == ListInit(Fill \cup Bulk) => FillInv
  BY EmptyList DEF ListInit, FillInv, Stages, FillExact, FillRefused

LEMMA FillInvStep == FillInv /\ [ListNext]_listVars => FillInv'
<1> SUFFICES ASSUME FillInv, [ListNext]_listVars PROVE FillInv'
  OBVIOUS
<1>1. CASE UNCHANGED listVars
  BY <1>1 DEF listVars, FillInv, Picked, Free, FillExact, FillRefused
<1>2. CASE FillCheck
  BY <1>2, FillStart DEF FillInv, FillCheck
<1>3. CASE FillStep
  <2>1. CASE request \in Fill
    BY <1>3, <2>1, FillTurn
  <2>2. CASE request \notin Fill
    BY <1>3, <2>2 DEF FillStep, FillInv
  <2> QED BY <2>1, <2>2
<1>4. CASE BulkCheck
  <2>1. request \notin Fill
    BY <1>4 DEF BulkCheck, Fill, Bulk
  <2> QED BY <1>4, <2>1 DEF BulkCheck, FillInv
<1>5. CASE NextSpec \/ RangeStep \/ UniqueStep \/ Collected
  <2>1. request \notin Fill /\ request' = request
    BY <1>5 DEF NextSpec, RangeStep, UniqueStep, Collected, FillInv, Stages
  <2> QED BY <2>1 DEF FillInv
<1> QED BY <1>1, <1>2, <1>3, <1>4, <1>5 DEF ListNext

\* A fill that succeeds has exactly the first `count' ports from `start' on that are
\* not skipped, in ascending order, for every width of a port and every request
\* (ports.rs generate_fill_ports).
THEOREM FillIsExact == ListSpec => []FillExact
<1>1. FillInv => FillExact
  BY DEF FillInv, FillExact
<1> QED BY <1>1, FillInvInit, FillInvStep, PTL DEF ListSpec

\* A fill that is refused could not have been granted, also when it ends at the last
\* port of the range (ports.rs generate_fill_ports).
THEOREM FillRefusesRightly == ListSpec => []FillRefused
<1>1. FillInv => FillRefused
  BY DEF FillInv, FillRefused
<1> QED BY <1>1, FillInvInit, FillInvStep, PTL DEF ListSpec

(***************************************************************************)
(* Lists.  What is typed: a step of a loop belongs to its kind of request, *)
(* and the port it is at is not 0.                                         *)
(***************************************************************************)

ListsTyped ==
  /\ ListTypeOK
  /\ list = "fill" => request \in Fill /\ p # 0
  /\ list \in {"next", "range", "unique"} => request \in Bulk
  /\ list = "range" => /\ k \in DOMAIN request.specs /\ p # 0
                       /\ p \in request.specs[k][1]..request.specs[k][2]

LEMMA U16Facts ==
  /\ MaxPort \in Nat /\ MaxPort # 0 /\ 0 \in U16
  /\ \A x \in U16 : x \in Nat /\ x <= MaxPort /\ Inc(x) \in U16
  /\ \A x \in U16 : x < MaxPort => Inc(x) = x + 1
  BY ListsAssumption DEF U16, Inc

LEMMA SpecIn ==
  ASSUME NEW r \in Bulk, NEW i \in DOMAIN r.specs
  PROVE  /\ r.specs[i][1] \in U16 /\ r.specs[i][1] \in Nat
         /\ r.specs[i][2] \in U16 /\ r.specs[i][2] \in Nat /\ r.specs[i][2] <= MaxPort
<1>1. r.specs \in Seq(U16 \X U16)
  BY DEF Bulk
<1>2. r.specs[i] \in U16 \X U16
  BY <1>1
<1> QED BY <1>2, U16Facts

LEMMA ListsTypedInit ==
  ASSUME NEW requests, requests \subseteq Fill \cup Bulk, ListInit(requests) PROVE ListsTyped
  BY U16Facts, EmptyList DEF ListInit, ListsTyped, ListTypeOK

LEMMA ListsTypedStep == ListsTyped /\ [ListNext]_listVars => ListsTyped'
<1> SUFFICES ASSUME ListsTyped, [ListNext]_listVars PROVE ListsTyped'
  OBVIOUS
<1>0. /\ request \in Fill \cup Bulk /\ k \in Nat \ {0} /\ p \in U16
      /\ named \in Seq(U16 \ {0}) /\ out \in Seq(U16 \ {0})
  BY DEF ListsTyped, ListTypeOK
<1>1. CASE UNCHANGED listVars
  BY <1>1 DEF listVars, ListsTyped, ListTypeOK
<1>2. CASE FillCheck
  <2>1. request.start \in U16
    BY <1>2 DEF FillCheck, Fill
  <2> QED BY <1>0, <1>2, <2>1 DEF FillCheck, ListsTyped, ListTypeOK
<1>3. CASE FillStep
  <2>1. p \in U16 \ {0} /\ Inc(p) \in U16 /\ (p # MaxPort => Inc(p) # 0)
    BY <1>0, <1>3, U16Facts DEF FillStep, ListsTyped
  <2>2. out' \in Seq(U16 \ {0})
    BY <1>0, <1>3, <2>1, AppendElements DEF FillStep
  <2>3. list' \in {"ok", "error", "fill"} /\ request \in Fill /\ p' \in U16 /\ (list' = "fill" => p' # 0)
    BY <1>0, <1>3, <2>1 DEF FillStep, ListsTyped
  <2> QED BY <1>0, <1>3, <2>2, <2>3 DEF FillStep, ListsTyped, ListTypeOK
<1>4. CASE BulkCheck
  BY <1>0, <1>4 DEF BulkCheck, ListsTyped, ListTypeOK
<1>5. CASE NextSpec
  <2>1. request \in Bulk /\ request' = request
    BY <1>5 DEF NextSpec, ListsTyped
  <2>2. CASE list' = "range"
    <3>1. k \in DOMAIN request.specs
      BY <1>0, <1>5, <2>1, <2>2 DEF NextSpec, Bulk
    <3>2. /\ p' = request.specs[k][1] /\ request.specs[k][1] # 0
          /\ ~(request.specs[k][2] < request.specs[k][1])
      BY <1>5, <2>2 DEF NextSpec
    <3>3. p' \in U16 /\ p' \in request.specs[k][1]..request.specs[k][2]
      BY <2>1, <3>1, <3>2, SpecIn
    <3> QED BY <1>0, <1>5, <2>1, <2>2, <3>1, <3>2, <3>3 DEF NextSpec, ListsTyped, ListTypeOK
  <2>3. CASE list' # "range"
    BY <1>0, <1>5, <2>1, <2>3 DEF NextSpec, ListsTyped, ListTypeOK
  <2> QED BY <2>2, <2>3
<1>6. CASE RangeStep
  <2>1. /\ request \in Bulk /\ k \in DOMAIN request.specs /\ p # 0
        /\ p \in request.specs[k][1]..request.specs[k][2]
    BY <1>6 DEF RangeStep, ListsTyped
  <2>2. named' \in Seq(U16 \ {0})
    BY <1>0, <1>6, <2>1, AppendElements DEF RangeStep
  <2>3. CASE p = request.specs[k][2]
    BY <1>0, <1>6, <2>1, <2>2, <2>3 DEF RangeStep, ListsTyped, ListTypeOK
  <2>4. CASE p # request.specs[k][2]
    <3>1. p < MaxPort /\ p + 1 \in request.specs[k][1]..request.specs[k][2] /\ p \in Nat
      <4>1. p \in Nat /\ MaxPort \in Nat
        BY <1>0, U16Facts
      <4> QED BY <2>1, <2>4, <4>1, SpecIn
    <3>2. p' = p + 1 /\ p' \in U16 /\ p' # 0
      BY <1>0, <1>6, <2>4, <3>1, U16Facts DEF RangeStep
    <3> QED BY <1>0, <1>6, <2>1, <2>2, <2>4, <3>1, <3>2 DEF RangeStep, ListsTyped, ListTypeOK
  <2> QED BY <2>3, <2>4
<1>7. CASE UniqueStep
  <2>1. Head(named) \in U16 \ {0} /\ Tail(named) \in Seq(U16 \ {0})
    BY <1>0, <1>7, TailElements DEF UniqueStep
  <2>2. out' \in Seq(U16 \ {0})
    BY <1>0, <1>7, <2>1, AppendElements DEF UniqueStep
  <2> QED BY <1>0, <1>7, <2>1, <2>2 DEF UniqueStep, ListsTyped, ListTypeOK
<1>8. CASE Collected
  BY <1>0, <1>8 DEF Collected, ListsTyped, ListTypeOK
<1> QED BY <1>1, <1>2, <1>3, <1>4, <1>5, <1>6, <1>7, <1>8 DEF ListNext

(***************************************************************************)
(* A bulk list: the ports of the specifications so far are named, and      *)
(* unique_ports moves them to the list without losing or repeating one.    *)
(***************************************************************************)

Names(i) == UNION {request.specs[n][1]..request.specs[n][2] : n \in 1..i}

BulkInv ==
  /\ ListsTyped
  /\ request \in Bulk =>
       /\ list # "fill"
       /\ list = "check" => k = 1 /\ named = <<>>
       /\ list \in {"check", "next", "range"} => out = <<>>
       /\ list = "next" => k <= Len(request.specs) + 1 /\ Elements(named) = Names(k - 1)
       /\ list = "range" =>
            Elements(named) = Names(k - 1) \cup request.specs[k][1]..(p - 1)
       /\ list = "unique" =>
            Elements(out) \cup Elements(named) = Names(Len(request.specs)) /\ Distinct(out)
       /\ list = "ok" => Elements(out) = Names(Len(request.specs)) /\ Distinct(out)

LEMMA NamesGrow ==
  ASSUME request \in Bulk, NEW i \in DOMAIN request.specs
  PROVE  Names(i) = Names(i - 1) \cup request.specs[i][1]..request.specs[i][2]
<1>1. i \in Nat /\ i >= 1
  BY DEF Bulk
<1>2. 1..i = 1..(i - 1) \cup {i}
  BY <1>1
<1> QED BY <1>2 DEF Names

LEMMA BulkInvInit == ListInit(Fill \cup Bulk) => BulkInv
  BY ListsTypedInit DEF ListInit, BulkInv

LEMMA BulkInvStep == BulkInv /\ [ListNext]_listVars => BulkInv'
<1> SUFFICES ASSUME BulkInv, [ListNext]_listVars PROVE BulkInv'
  OBVIOUS
<1>0. ListsTyped /\ ListsTyped' /\ request' = request
  BY ListsTypedStep
     DEF BulkInv, ListNext, listVars, FillCheck, FillStep, BulkCheck, NextSpec, RangeStep, UniqueStep,
         Collected
<1>1. \A i : Names(i)' = Names(i)
  BY <1>0 DEF Names
<1>2. CASE request \notin Bulk
  BY <1>0, <1>2 DEF BulkInv
<1>3. CASE request \in Bulk
  <2>0. /\ request \notin Fill /\ Len(request.specs) \in Nat
        /\ DOMAIN request.specs = 1..Len(request.specs) /\ k \in Nat /\ k # 0
    BY <1>0, <1>3 DEF Fill, Bulk, ListsTyped, ListTypeOK
  <2>1. CASE UNCHANGED listVars
    BY <1>0, <1>1, <2>1 DEF listVars, BulkInv
  <2>2. CASE FillCheck \/ FillStep
    BY <2>0, <2>2 DEF FillCheck, FillStep, BulkInv, ListsTyped
  <2>3. CASE BulkCheck
    <3>1. Names(0) = {} /\ Elements(<<>>) = {}
      BY EmptyList DEF Names
    <3>2. k' = 1 /\ named' = <<>> /\ out' = <<>> /\ list' = "next" /\ k' - 1 = 0
      BY <1>3, <2>3 DEF BulkCheck, BulkInv
    <3>3. k' <= Len(request.specs) + 1
      BY <2>0, <3>2
    <3>4. Elements(named') = Names(k - 1)'
      BY <3>1, <3>2 DEF Names
    <3> QED BY <1>0, <3>2, <3>3, <3>4 DEF BulkInv
  <2>4. CASE NextSpec
    <3>0. /\ list = "next" /\ k <= Len(request.specs) + 1 /\ Elements(named) = Names(k - 1)
          /\ out = <<>> /\ UNCHANGED <<k, named, out>>
      BY <1>3, <2>4 DEF NextSpec, BulkInv
    <3>1. CASE list' = "unique"
      <4>1. k - 1 = Len(request.specs)
        BY <2>0, <2>4, <3>0, <3>1 DEF NextSpec
      <4> QED BY <1>0, <1>1, <3>0, <3>1, <4>1, EmptyList DEF BulkInv
    <3>2. CASE list' = "error"
      BY <1>0, <3>2 DEF BulkInv
    <3>3. CASE list' = "range"
      <4>1. p' = request.specs[k][1]
        BY <2>4, <3>3 DEF NextSpec
      <4>2. k \in DOMAIN request.specs
        BY <1>0, <3>0, <3>3 DEF ListsTyped
      <4>3. request.specs[k][1]..(request.specs[k][1] - 1) = {}
        BY <1>3, <4>2, SpecIn
      <4> QED BY <1>0, <1>1, <3>0, <3>3, <4>1, <4>3 DEF BulkInv
    <3> QED BY <2>4, <3>1, <3>2, <3>3 DEF NextSpec
  <2>5. CASE RangeStep
    <3>0. /\ k \in DOMAIN request.specs /\ p \in request.specs[k][1]..request.specs[k][2]
          /\ Elements(named) = Names(k - 1) \cup request.specs[k][1]..(p - 1)
          /\ out = <<>> /\ p \in U16 \ {0} /\ named \in Seq(U16 \ {0}) /\ UNCHANGED out
      BY <1>0, <1>3, <2>5 DEF RangeStep, BulkInv, ListsTyped, ListTypeOK
    <3>1. request.specs[k][1] \in Nat /\ request.specs[k][2] \in Nat /\ p \in Nat /\ p <= MaxPort
      BY <1>3, <3>0, SpecIn, U16Facts
    <3>2. request.specs[k][1]..p = request.specs[k][1]..(p - 1) \cup {p}
      BY <3>0, <3>1
    <3>3. Elements(named') = Names(k - 1) \cup request.specs[k][1]..p
      BY <2>5, <3>0, <3>2, AppendElements DEF RangeStep
    <3>4. CASE p = request.specs[k][2]
      <4>1. list' = "next" /\ k' = k + 1 /\ k' - 1 = k /\ k' <= Len(request.specs) + 1
        BY <2>0, <2>5, <3>0, <3>4 DEF RangeStep
      <4>2. Elements(named') = Names(k)
        BY <1>3, <3>0, <3>3, <3>4, NamesGrow
      <4> QED BY <1>0, <1>1, <3>0, <4>1, <4>2 DEF BulkInv
    <3>5. CASE p # request.specs[k][2]
      <4>1. p < MaxPort
        BY <1>3, <3>0, <3>1, <3>5, SpecIn, ListsAssumption
      <4>2. list' = "range" /\ p' = p + 1 /\ k' = k /\ p' - 1 = p
        BY <2>5, <3>0, <3>1, <3>5, <4>1, U16Facts DEF RangeStep
      <4> QED BY <1>0, <1>1, <3>0, <3>3, <4>2 DEF BulkInv
    <3> QED BY <3>4, <3>5
  <2>6. CASE UniqueStep
    <3>0. /\ list' = "unique" /\ named # <<>> /\ named' = Tail(named) /\ Distinct(out)
          /\ Elements(out) \cup Elements(named) = Names(Len(request.specs))
          /\ named \in Seq(U16 \ {0}) /\ out \in Seq(U16 \ {0})
      BY <1>0, <1>3, <2>6 DEF UniqueStep, BulkInv, ListsTyped, ListTypeOK
    <3>1. /\ Head(named) \in U16 \ {0}
          /\ Elements(named) = {Head(named)} \cup Elements(named')
      BY <3>0, TailElements
    <3>2. Elements(out') = Elements(out) \cup {Head(named)} /\ Distinct(out')
      <4>1. CASE Head(named) \in Elements(out)
        BY <2>6, <3>0, <4>1 DEF UniqueStep
      <4>2. CASE Head(named) \notin Elements(out)
        BY <2>6, <3>0, <3>1, <4>2, AppendElements, AppendDistinct DEF UniqueStep
      <4> QED BY <4>1, <4>2
    <3> QED BY <1>0, <1>1, <3>0, <3>1, <3>2 DEF BulkInv
  <2>7. CASE Collected
    BY <1>0, <1>1, <1>3, <2>7, EmptyList DEF Collected, BulkInv
  <2> QED BY <2>1, <2>2, <2>3, <2>4, <2>5, <2>6, <2>7 DEF ListNext
<1> QED BY <1>2, <1>3

\* A bulk list that is accepted has exactly the ports the specifications name, each
\* once, for every width of a port and every list of ranges, also when a range ends at
\* the last port (ports.rs parse_port_range, unique_ports, collect_bulk_ports).
THEOREM BulkIsExact == ListSpec => []BulkExact
<1>1. ASSUME BulkInv PROVE BulkExact
  <2>1. SUFFICES ASSUME list = "ok", request \in Bulk
                 PROVE  /\ Elements(out) = UNION {s[1]..s[2] : s \in Elements(request.specs)}
                        /\ Distinct(out)
    BY DEF BulkExact, Distinct
  <2>2. DOMAIN request.specs = 1..Len(request.specs)
    BY <2>1 DEF Bulk
  <2>3. UNION {s[1]..s[2] : s \in Elements(request.specs)} = Names(Len(request.specs))
    BY <2>2 DEF Elements, Names
  <2> QED BY <1>1, <2>1, <2>3 DEF BulkInv
<1> QED BY <1>1, BulkInvInit, BulkInvStep, PTL DEF ListSpec

(***************************************************************************)
(* The walk: types.                                                        *)
(***************************************************************************)

LEMMA ConcatElements ==
  ASSUME NEW S, NEW s \in Seq(S), NEW t \in Seq(S)
  PROVE  s \o t \in Seq(S) /\ Elements(s \o t) = Elements(s) \cup Elements(t)
<1>1. /\ DOMAIN (s \o t) = 1..(Len(s) + Len(t)) /\ Len(s) \in Nat /\ Len(t) \in Nat
      /\ DOMAIN s = 1..Len(s) /\ DOMAIN t = 1..Len(t)
  OBVIOUS
<1>2. \A i \in DOMAIN s : (s \o t)[i] = s[i]
  OBVIOUS
<1>3. \A i \in DOMAIN t : (s \o t)[Len(s) + i] = t[i]
  OBVIOUS
<1>4. \A i \in DOMAIN (s \o t) : i \in DOMAIN s \/ i - Len(s) \in DOMAIN t
  BY <1>1
<1>5. \A i \in DOMAIN (s \o t) : (s \o t)[i] \in Elements(s) \cup Elements(t)
  <2>1. SUFFICES ASSUME NEW i \in DOMAIN (s \o t), i \notin DOMAIN s
                 PROVE  (s \o t)[i] \in Elements(t)
    BY <1>2 DEF Elements
  <2>2. i - Len(s) \in DOMAIN t /\ i = Len(s) + (i - Len(s))
    BY <1>1, <1>4, <2>1
  <2> QED BY <1>3, <2>2 DEF Elements
<1>6. \A i \in DOMAIN s : i \in DOMAIN (s \o t)
  BY <1>1
<1>7. \A i \in DOMAIN t : Len(s) + i \in DOMAIN (s \o t)
  BY <1>1
<1>8. Elements(s) \subseteq Elements(s \o t)
  BY <1>2, <1>6 DEF Elements
<1>9. Elements(t) \subseteq Elements(s \o t)
  BY <1>3, <1>7 DEF Elements
<1>10. Elements(s \o t) \subseteq Elements(s) \cup Elements(t)
  BY <1>5 DEF Elements
<1>11. s \o t \in Seq(S)
  OBVIOUS
<1> QED BY <1>8, <1>9, <1>10, <1>11

LEMMA OneElement ==
  ASSUME NEW S, NEW x \in S
  PROVE  <<x>> \in Seq(S) /\ Elements(<<x>>) = {x}
  BY DEF Elements

\* The first loop of what is still to do is exchanged.
LEMMA HeadReplaced ==
  ASSUME NEW S, NEW s \in Seq(S), s # <<>>, NEW x \in S
  PROVE  /\ <<x>> \o Tail(s) \in Seq(S)
         /\ Elements(<<x>> \o Tail(s)) = {x} \cup Elements(Tail(s))
<1>1. Tail(s) \in Seq(S) /\ <<x>> \in Seq(S) /\ Elements(<<x>>) = {x}
  BY TailElements, OneElement
<1> DEFINE one == <<x>>
<1> DEFINE rest == Tail(s)
<1>2. one \in Seq(S) /\ rest \in Seq(S) /\ Elements(one) = {x}
  BY <1>1
<1> HIDE DEF one, rest
<1>3. one \o rest \in Seq(S) /\ Elements(one \o rest) = {x} \cup Elements(rest)
  BY <1>2, ConcatElements
<1> QED BY <1>3 DEF one, rest

Items == Loops \cup Looks

LEMMA LookElements ==
  ASSUME NEW contents \in Found, NEW dir \in Dirs
  PROVE  /\ Look(dir, contents.includes) \in Seq(Items)
         /\ \A spec \in Elements(contents.includes) :
              [do |-> "look", dir |-> dir, spec |-> spec] \in Elements(Look(dir, contents.includes))
<1> DEFINE incs == contents.includes
<1>1. incs \in Seq(Elements(incs)) /\ Elements(incs) \subseteq Specs
  BY BulkAssumption DEF Found, Specs
<1>2. DOMAIN incs = 1..Len(incs) /\ Len(incs) \in Nat
  BY <1>1
<1>3. \A i \in DOMAIN incs : incs[i] \in Specs
  BY <1>1 DEF Elements
<1>4. \A i \in DOMAIN incs : [do |-> "look", dir |-> dir, spec |-> incs[i]] \in Items
  BY <1>3 DEF Items, Looks
<1>5. Look(dir, incs) = [i \in 1..Len(incs) |-> [do |-> "look", dir |-> dir, spec |-> incs[i]]]
  BY <1>2 DEF Look
<1> HIDE DEF incs
<1>6. Look(dir, incs) \in Seq(Items)
  BY <1>2, <1>4, <1>5
<1>7. \A spec \in Elements(incs) :
        [do |-> "look", dir |-> dir, spec |-> spec] \in Elements(Look(dir, incs))
  BY <1>2, <1>5 DEF Elements
<1> QED BY <1>6, <1>7 DEF incs

ReadTyped == read \in Seq([path : Paths, contents : Found])

WalkTyped ==
  /\ text \in Trees
  /\ walk \in {"idle", "walk", "done", "error"}
  /\ todo \in Seq(Items)
  /\ ReadTyped
  /\ visited = {Canon(read[i].path) : i \in DOMAIN read}
  /\ ReadOnce

\* What a step reads is new, so the files it has read stay different ones.
LEMMA ReadIsNew ==
  ASSUME WalkTyped, NEW path \in Paths, NEW rest \in Seq(Items), Readable(path),
         Canon(path) \notin visited, ReadFile(path, rest), text' = text
  PROVE  WalkTyped'
<1> DEFINE c == text[Canon(path)]
<1> DEFINE entry == [path |-> path, contents |-> c]
<1>1. c \in Found
  BY DEF Readable, Found, WalkTyped, Files
<1>2. path.dir \in Dirs
  BY DEF Dirs
<1>3. todo' \in Seq(Items)
  BY <1>1, <1>2, LookElements, ConcatElements DEF ReadFile
<1>4. entry \in [path : Paths, contents : Found] /\ read' = Append(read, entry)
  BY <1>1 DEF ReadFile
<1>5. read \in Seq([path : Paths, contents : Found])
  BY DEF WalkTyped, ReadTyped
<1> HIDE DEF entry
<1>6. /\ read' \in Seq([path : Paths, contents : Found])
      /\ DOMAIN read' = DOMAIN read \cup {Len(read) + 1} /\ Len(read) + 1 \notin DOMAIN read
      /\ \A i \in DOMAIN read : read'[i] = read[i]
      /\ read'[Len(read) + 1] = entry
  BY <1>4, <1>5
<1>7. entry.path = path
  BY DEF entry
<1>8. visited' = visited \cup {Canon(path)}
  BY DEF ReadFile
<1>9. \A i \in DOMAIN read : Canon(read[i].path) \in visited
  BY DEF WalkTyped
<1>10. visited' = {Canon(read[i].path) : i \in DOMAIN read}'
  BY <1>6, <1>7, <1>8 DEF WalkTyped
<1>11. ReadOnce'
  BY <1>6, <1>7, <1>9 DEF WalkTyped, ReadOnce
<1> QED BY <1>3, <1>6, <1>10, <1>11 DEF WalkTyped, ReadTyped, ReadFile

LEMMA VisitsTyped ==
  ASSUME NEW paths \in SUBSET Includable PROVE Visits(paths) \in Items
  BY DEF Visits, Items, Loops

LEMMA WalkTypedInit == WalkInit(Trees) => WalkTyped
  BY DEF WalkInit, WalkTyped, ReadTyped, ReadOnce

\* Nothing new was read.
LEMMA TodoTyped ==
  ASSUME WalkTyped, todo' \in Seq(Items), walk' \in {"idle", "walk", "done", "error"},
         UNCHANGED <<text, visited, read>>
  PROVE  WalkTyped'
  BY DEF WalkTyped, ReadTyped, ReadOnce

LEMMA HeadTyped ==
  ASSUME WalkTyped, todo # <<>>
  PROVE  /\ Head(todo) \in Items /\ Tail(todo) \in Seq(Items)
         /\ Head(todo).do = "visit" => Head(todo) \in Loops /\ Head(todo).paths \in SUBSET Includable
         /\ Head(todo).do = "look" => Head(todo).dir \in Dirs /\ Head(todo).spec \in Specs
<1>1. Head(todo) \in Items /\ Tail(todo) \in Seq(Items)
  BY TailElements DEF WalkTyped
<1>2. Head(todo) \in Loops \/ Head(todo) \in Looks
  BY <1>1 DEF Items
<1> QED BY <1>1, <1>2 DEF Loops, Looks

LEMMA ExpandTyped ==
  ASSUME NEW dir \in Dirs, NEW spec \in Specs PROVE Expand(dir, spec) \in SUBSET Includable
  BY DEF Expand, Includable

LEMMA WalkTypedStep == WalkTyped /\ WalkNext => WalkTyped'
<1> SUFFICES ASSUME WalkTyped, WalkNext PROVE WalkTyped'
  OBVIOUS
<1>1. CASE BeginWalk
  <2>1. Visits({Root}) \in Items
    BY PathsAssumption, VisitsTyped DEF Includable
  <2>2. todo' \in Seq(Items)
    BY <1>1, <2>1, OneElement DEF BeginWalk
  <2> QED BY <1>1, <2>2, TodoTyped DEF BeginWalk
<1>2. CASE VisitPath
  <2> DEFINE path == First(Head(todo).paths)
  <2> DEFINE rest == <<Visits(Head(todo).paths \ {path})>> \o Tail(todo)
  <2>1. todo # <<>> /\ Head(todo).do = "visit" /\ walk = "walk" /\ text' = text
    BY <1>2 DEF VisitPath, Visiting
  <2>2. Visits(Head(todo).paths \ {path}) \in Items
    BY <2>1, HeadTyped, VisitsTyped
  <2>3. rest \in Seq(Items)
    BY <2>1, <2>2, HeadReplaced DEF WalkTyped
  <2>4. \/ path \in Paths /\ Canon(path) \in visited /\ Pass(rest)
        \/ Readable(path) /\ Canon(path) \notin visited /\ ReadFile(path, rest)
        \/ Fail
    BY <1>2 DEF VisitPath, Readable
  <2> HIDE DEF path, rest
  <2>5. CASE Pass(rest)
    BY <2>1, <2>3, <2>5, TodoTyped DEF Pass
  <2>6. CASE Readable(path) /\ Canon(path) \notin visited /\ ReadFile(path, rest)
    BY <2>1, <2>3, <2>6, ReadIsNew DEF Readable
  <2>7. CASE Fail
    <3>1. todo' \in Seq(Items)
      BY <2>7, EmptyList DEF Fail
    <3> QED BY <2>1, <2>7, <3>1, TodoTyped DEF Fail
  <2> QED BY <2>4, <2>5, <2>6, <2>7
<1>3. CASE EndLoop
  BY <1>3, HeadTyped, TodoTyped DEF EndLoop, Visiting, Pass
<1>4. CASE LookAtInclude
  <2>1. todo # <<>> /\ Head(todo).dir \in Dirs /\ Head(todo).spec \in Specs
    BY <1>4, HeadTyped DEF LookAtInclude
  <2>2. Visits(Expand(Head(todo).dir, Head(todo).spec)) \in Items
    BY <2>1, ExpandTyped, VisitsTyped
  <2>3. todo' \in Seq(Items)
    BY <1>4, <2>1, <2>2, HeadReplaced DEF LookAtInclude, WalkTyped
  <2> QED BY <1>4, <2>3, TodoTyped DEF LookAtInclude
<1>5. CASE EndWalk
  BY <1>5, TodoTyped DEF EndWalk, WalkTyped
<1> QED BY <1>1, <1>2, <1>3, <1>4, <1>5 DEF WalkNext

BulkTyped == BulkInv /\ WalkTyped /\ outcome \in {"none", "accepted", "refused"} /\ edits \in 0..MaxEdits

LEMMA BulkTypedInit == Init => BulkTyped
<1> SUFFICES ASSUME Init PROVE BulkTyped
  OBVIOUS
<1>1. ListInit(Fill \cup Bulk)
  BY BulkAssumption DEF Init, ListInit
<1> QED BY <1>1, BulkInvInit, WalkTypedInit, BulkAssumption DEF Init, BulkTyped

LEMMA BulkTypedStep == BulkTyped /\ [Next]_vars => BulkTyped'
<1> SUFFICES ASSUME BulkTyped, [Next]_vars PROVE BulkTyped'
  OBVIOUS
<1>1. [ListNext]_listVars
  BY DEF Next, Command, MakeList, DecideWithoutConf, Walk, DecideWithConf, Refuse, Edit, vars
<1>2. BulkInv'
  BY <1>1, BulkInvStep DEF BulkTyped
<1>3. WalkTyped'
  <2>1. CASE WalkNext
    BY <2>1, WalkTypedStep DEF BulkTyped
  <2>2. CASE UNCHANGED walkVars
    BY <2>2, TodoTyped DEF walkVars, BulkTyped, WalkTyped, ReadTyped, ReadOnce
  <2>3. CASE Edit
    BY <2>3 DEF Edit, BulkTyped, WalkTyped, ReadTyped, ReadOnce
  <2> QED BY <2>1, <2>2, <2>3
          DEF Next, Command, MakeList, DecideWithoutConf, Walk, DecideWithConf, Refuse, vars
<1>4. outcome' \in {"none", "accepted", "refused"}
  BY DEF Next, Command, MakeList, DecideWithoutConf, Walk, DecideWithConf, Refuse, Edit, vars,
         BulkTyped, Decide
<1>5. edits' \in 0..MaxEdits
  BY BulkAssumption
     DEF Next, Command, MakeList, DecideWithoutConf, Walk, DecideWithConf, Refuse, Edit, vars, BulkTyped
<1> QED BY <1>2, <1>3, <1>4, <1>5 DEF BulkTyped

\* Every state of a bulk command is well typed, for any requests and any configurations,
\* edited at any moment: no list has port 0, and the walk has to do only with paths that
\* exist or that an include it has read names (ports.rs, nginx_listen.rs).
THEOREM BulkIsTyped == Spec => []TypeOK
<1>1. BulkTyped => TypeOK
  BY DEF BulkTyped, BulkInv, ListsTyped, WalkTyped, ReadTyped, TypeOK, Items
<1> QED BY <1>1, BulkTypedInit, BulkTypedStep, PTL DEF Spec

\* No file is read twice, whatever links and cycles there are and whatever is edited
\* meanwhile: a path is read only if its canonical name was not visited
\* (nginx_listen.rs walk_includes, visit_key).
THEOREM EachFileOnce == Spec => []ReadOnce
<1>1. BulkTyped => ReadOnce
  BY DEF BulkTyped, WalkTyped
<1> QED BY <1>1, BulkTypedInit, BulkTypedStep, PTL DEF Spec

(***************************************************************************)
(* Patterns.  Fits and Accepts are tables whose row i is made from row     *)
(* i + 1, for any length of pattern and name; the library's least-element  *)
(* principle for sets gives induction over the rows.                       *)
(***************************************************************************)

\* Induction over the natural numbers, for sets.
LEMMA SetInduction ==
  ASSUME NEW S, 0 \in S, \A n \in Nat : n \in S => n + 1 \in S
  PROVE  Nat \subseteq S
<1> DEFINE R == OpToRel(<, Nat)
<1> DEFINE T == Nat \ S
<1>1. IsWellFoundedOn(R, Nat)
  BY NatLessThanWellFounded
<1>2. SUFFICES ASSUME T # {} PROVE FALSE
  OBVIOUS
<1>3. PICK x \in T : \A y \in T : ~(<<y, x>> \in R)
  <2> HIDE DEF R
  <2> QED BY <1>1, <1>2, WFMin
<1>4. x \in Nat /\ x # 0
  OBVIOUS
<1>5. x - 1 \in Nat /\ (x - 1) + 1 = x
  BY <1>4
<1>6. x - 1 \notin S
  BY <1>4, <1>5
<1>7. <<x - 1, x>> \in R
  BY <1>4, <1>5 DEF OpToRel
<1> QED BY <1>3, <1>5, <1>6, <1>7

\* A table whose last row is given and whose other rows are made from the next one exists.
RowByRow(f, P, V, last, G) ==
  /\ f \in [1..(P + 1) -> V]
  /\ f[P + 1] = last /\ \A i \in 1..P : f[i] = G[<<i, f[i + 1]>>]

LEMMA TableExists ==
  ASSUME NEW P \in Nat, NEW V, NEW last \in V, NEW G \in [(1..P) \X V -> V]
  PROVE  \E f : RowByRow(f, P, V, last, G)
<1> DEFINE Table(n, f) == f[P + 1] = last /\ \A i \in (P + 1 - n)..P : f[i] = G[<<i, f[i + 1]>>]
<1> DEFINE S == {n \in Nat : n <= P => \E f \in [(P + 1 - n)..(P + 1) -> V] : Table(n, f)}
<1>1. 0 \in S
  <2> DEFINE f == [i \in (P + 1)..(P + 1) |-> last]
  <2>1. f \in [(P + 1)..(P + 1) -> V] /\ f[P + 1] = last
    OBVIOUS
  <2>2. P + 1 - 0 = P + 1 /\ (P + 1 - 0)..P = {}
    OBVIOUS
  <2> QED BY <2>1, <2>2
<1>2. ASSUME NEW n \in Nat, n \in S PROVE n + 1 \in S
  <2>1. SUFFICES ASSUME n + 1 <= P
                 PROVE  \E f \in [(P + 1 - (n + 1))..(P + 1) -> V] : Table(n + 1, f)
    OBVIOUS
  <2>2. PICK g \in [(P + 1 - n)..(P + 1) -> V] : Table(n, g)
    BY <1>2, <2>1
  <2> DEFINE m == P - n
  <2>3. /\ m \in 1..P /\ m + 1 = P + 1 - n /\ P + 1 - (n + 1) = m
        /\ m..(P + 1) = {m} \cup (m + 1)..(P + 1) /\ m \notin (m + 1)..(P + 1)
        /\ m..P = {m} \cup (m + 1)..P
    BY <2>1
  <2> HIDE DEF m
  <2> DEFINE f == [i \in m..(P + 1) |-> IF i = m THEN G[<<m, g[m + 1]>>] ELSE g[i]]
  <2>4. g[m + 1] \in V /\ m + 1 \in m..(P + 1)
    BY <2>2, <2>3
  <2>5. G[<<m, g[m + 1]>>] \in V
    BY <2>3, <2>4
  <2>6. f \in [m..(P + 1) -> V]
    BY <2>2, <2>3, <2>5
  <2>7. f[m] = G[<<m, f[m + 1]>>]
    BY <2>3, <2>4
  <2>8. \A i \in (m + 1)..(P + 1) : f[i] = g[i]
    BY <2>3
  <2>9. \A i \in (m + 1)..P : i \in (m + 1)..(P + 1) /\ i + 1 \in (m + 1)..(P + 1)
    BY <2>3
  <2>10. P + 1 \in (m + 1)..(P + 1)
    BY <2>3
  <2> HIDE DEF f
  <2>11. f[P + 1] = last
    BY <2>2, <2>8, <2>10
  <2>12. \A i \in (m + 1)..P : f[i] = G[<<i, f[i + 1]>>]
    BY <2>2, <2>3, <2>8, <2>9
  <2>13. Table(n + 1, f)
    BY <2>3, <2>7, <2>11, <2>12
  <2> QED BY <2>3, <2>6, <2>13
<1> HIDE DEF S
<1>3. P \in S
  BY <1>1, <1>2, SetInduction
<1>4. PICK f \in [(P + 1 - P)..(P + 1) -> V] : Table(P, f)
  BY <1>3 DEF S
<1>5. P + 1 - P = 1
  OBVIOUS
<1> QED BY <1>4, <1>5 DEF RowByRow

\* Recursive definitions of a table have the value they spell out.
LEMMA FitsRow ==
  ASSUME NEW C, NEW D, NEW pattern \in Seq(C), NEW name \in Seq(D), NEW i \in 1..(Len(pattern) + 1)
  PROVE  Fits(pattern, name)[i] =
           {j \in 1..(Len(name) + 1) :
              IF i > Len(pattern) THEN j > Len(name)
              ELSE IF pattern[i] = "*"
              THEN \E l \in j..(Len(name) + 1) : l \in Fits(pattern, name)[i + 1]
              ELSE j <= Len(name) /\ pattern[i] \in {"?", name[j]}
                   /\ j + 1 \in Fits(pattern, name)[i + 1]}
<1> DEFINE P == Len(pattern)
<1> DEFINE N == Len(name)
<1> DEFINE Row(n, next) ==
      {j \in 1..(N + 1) :
         IF pattern[n] = "*" THEN \E l \in j..(N + 1) : l \in next
         ELSE j <= N /\ pattern[n] \in {"?", name[j]} /\ j + 1 \in next}
<1> DEFINE Rows(f) ==
      [n \in 1..(P + 1) |->
         {j \in 1..(N + 1) :
            IF n > P THEN j > N
            ELSE IF pattern[n] = "*" THEN \E l \in j..(N + 1) : l \in f[n + 1]
            ELSE j <= N /\ pattern[n] \in {"?", name[j]} /\ j + 1 \in f[n + 1]}]
<1> DEFINE V == SUBSET (1..(N + 1))
<1> DEFINE G == [e \in (1..P) \X V |-> Row(e[1], e[2])]
<1> DEFINE last == {j \in 1..(N + 1) : j > N}
<1>1. P \in Nat /\ N \in Nat
  OBVIOUS
<1>2. G \in [(1..P) \X V -> V] /\ last \in V
  OBVIOUS
<1>3. \A n \in 1..P, v \in V : G[<<n, v>>] = Row(n, v)
  OBVIOUS
<1> HIDE DEF P, N, G
<1>4. PICK f : RowByRow(f, P, V, last, G)
  <2> HIDE DEF V, last
  <2> QED BY <1>1, <1>2, TableExists
<1> USE DEF RowByRow
<1>5. ASSUME NEW n \in 1..(P + 1) PROVE f[n] = Rows(f)[n]
  <2>1. CASE n = P + 1
    BY <1>1, <1>4, <2>1
  <2>2. CASE n # P + 1
    <3>1. n \in 1..P /\ n + 1 \in 1..(P + 1) /\ ~(n > P)
      BY <1>1, <2>2
    <3>2. f[n + 1] \in V
      BY <1>4, <3>1
    <3>3. f[n] = Row(n, f[n + 1])
      BY <1>3, <1>4, <3>1, <3>2
    <3> QED BY <3>1, <3>3
  <2> QED BY <2>1, <2>2
<1>6. f = Rows(f)
  <2>1. DOMAIN f = 1..(P + 1) /\ DOMAIN Rows(f) = 1..(P + 1)
    BY <1>4
  <2> QED BY <1>4, <1>5, <2>1
<1>7. Fits(pattern, name) = CHOOSE g : g = Rows(g)
  BY DEF Fits, P, N
<1> HIDE DEF Rows
<1>8. Fits(pattern, name) = Rows(Fits(pattern, name))
  BY <1>6, <1>7
<1> QED BY <1>8 DEF Rows, P, N

LEMMA AcceptsPlace ==
  ASSUME NEW C, NEW D, NEW pattern \in Seq(C), NEW name \in Seq(D), NEW i \in 1..(Len(pattern) + 1),
         NEW j \in 1..(Len(name) + 1), NEW from \in 1..(Len(name) + 1)
  PROVE  <<j, from>> \in Accepts(pattern, name)[i] <=>
           IF i > Len(pattern) THEN j > Len(name)
           ELSE IF pattern[i] = "*"
           THEN i = Len(pattern)
                \/ \E at \in from..Len(name) : <<at, at>> \in Accepts(pattern, name)[i + 1]
           ELSE j <= Len(name) /\ pattern[i] \in {"?", name[j]}
                /\ <<j + 1, from>> \in Accepts(pattern, name)[i + 1]
<1> DEFINE P == Len(pattern)
<1> DEFINE N == Len(name)
<1> DEFINE Pairs == (1..(N + 1)) \X (1..(N + 1))
<1> DEFINE Row(n, next) ==
      {e \in Pairs :
         IF pattern[n] = "*" THEN n = P \/ \E at \in e[2]..N : <<at, at>> \in next
         ELSE e[1] <= N /\ pattern[n] \in {"?", name[e[1]]} /\ <<e[1] + 1, e[2]>> \in next}
<1> DEFINE Rows(f) ==
      [n \in 1..(P + 1) |->
         {e \in Pairs :
            IF n > P THEN e[1] > N
            ELSE IF pattern[n] = "*" THEN n = P \/ \E at \in e[2]..N : <<at, at>> \in f[n + 1]
            ELSE e[1] <= N /\ pattern[n] \in {"?", name[e[1]]} /\ <<e[1] + 1, e[2]>> \in f[n + 1]}]
<1> DEFINE V == SUBSET Pairs
<1> DEFINE G == [e \in (1..P) \X V |-> Row(e[1], e[2])]
<1> DEFINE last == {e \in Pairs : e[1] > N}
<1>1. P \in Nat /\ N \in Nat
  OBVIOUS
<1>7. Accepts(pattern, name) = CHOOSE g : g = Rows(g)
  BY DEF Accepts
<1> HIDE DEF P, N, Pairs
<1>2. G \in [(1..P) \X V -> V] /\ last \in V
  OBVIOUS
<1>3. \A n \in 1..P, v \in V : G[<<n, v>>] = Row(n, v)
  OBVIOUS
<1> HIDE DEF G
<1>4. PICK f : RowByRow(f, P, V, last, G)
  <2> HIDE DEF V, last
  <2> QED BY <1>1, <1>2, TableExists
<1> USE DEF RowByRow
<1>5. ASSUME NEW n \in 1..(P + 1) PROVE f[n] = Rows(f)[n]
  <2>1. CASE n = P + 1
    BY <1>1, <1>4, <2>1
  <2>2. CASE n # P + 1
    <3>1. n \in 1..P /\ n + 1 \in 1..(P + 1) /\ ~(n > P)
      BY <1>1, <2>2
    <3>2. f[n + 1] \in V
      BY <1>4, <3>1
    <3>3. f[n] = Row(n, f[n + 1])
      BY <1>3, <1>4, <3>1, <3>2
    <3> QED BY <3>1, <3>3
  <2> QED BY <2>1, <2>2
<1>6. f = Rows(f)
  <2>1. DOMAIN f = 1..(P + 1) /\ DOMAIN Rows(f) = 1..(P + 1)
    BY <1>4
  <2> QED BY <1>4, <1>5, <2>1
<1> HIDE DEF Rows
<1>8. Accepts(pattern, name) = Rows(Accepts(pattern, name))
  BY <1>6, <1>7
<1>9. i \in 1..(P + 1)
  BY DEF P
<1> HIDE DEF RowByRow
<1> DEFINE here == <<j, from>>
<1>10. here \in Pairs /\ here[1] = j /\ here[2] = from
  BY DEF Pairs, N
<1> HIDE DEF here
<1>11. here \in Rows(Accepts(pattern, name))[i] <=>
         IF i > P THEN here[1] > N
         ELSE IF pattern[i] = "*"
         THEN i = P \/ \E at \in here[2]..N : <<at, at>> \in Accepts(pattern, name)[i + 1]
         ELSE here[1] <= N /\ pattern[i] \in {"?", name[here[1]]}
              /\ <<here[1] + 1, here[2]>> \in Accepts(pattern, name)[i + 1]
  BY <1>9, <1>10 DEF Rows
<1>12. here \in Accepts(pattern, name)[i] <=>
         IF i > P THEN j > N
         ELSE IF pattern[i] = "*"
         THEN i = P \/ \E at \in from..N : <<at, at>> \in Accepts(pattern, name)[i + 1]
         ELSE j <= N /\ pattern[i] \in {"?", name[j]}
              /\ <<j + 1, from>> \in Accepts(pattern, name)[i + 1]
  BY <1>8, <1>10, <1>11
<1> QED BY <1>12 DEF P, N, here

\* Whatever a pattern means to nginx, glob_matches accepts: a name is never overlooked,
\* though one too many may be taken (nginx_listen.rs glob_matches).
THEOREM GlobMissesNothing ==
  ASSUME NEW C, NEW D, NEW pattern \in Seq(C), NEW name \in Seq(D), name # <<>>, Matches(pattern, name)
  PROVE  glob_matches(pattern, name)
<1> DEFINE P == Len(pattern)
<1> DEFINE N == Len(name)
<1> DEFINE fits == Fits(pattern, name)
<1> DEFINE glob == Accepts(pattern, name)
<1> DEFINE Places == 1..(N + 1)
<1>1. P \in Nat /\ N \in Nat \ {0}
  OBVIOUS
<1>2. \A i \in 1..(P + 1) : fits[i] =
        {j \in Places :
           IF i > P THEN j > N
           ELSE IF pattern[i] = "*" THEN \E l \in j..(N + 1) : l \in fits[i + 1]
           ELSE j <= N /\ pattern[i] \in {"?", name[j]} /\ j + 1 \in fits[i + 1]}
  BY FitsRow
<1>3. \A i \in 1..(P + 1), j \in Places, from \in Places : <<j, from>> \in glob[i] <=>
        IF i > P THEN j > N
        ELSE IF pattern[i] = "*" THEN i = P \/ \E at \in from..N : <<at, at>> \in glob[i + 1]
        ELSE j <= N /\ pattern[i] \in {"?", name[j]} /\ <<j + 1, from>> \in glob[i + 1]
  BY AcceptsPlace
<1>4. 1 \in fits[1]
  BY DEF Matches
<1>5. SUFFICES <<1, 1>> \in glob[1]
  BY DEF glob_matches
<1> HIDE DEF P, N, fits, glob
\* What fits behind the end of the name is stars only, and fits everywhere.
<1>6. ASSUME NEW i \in 1..P, N + 1 \in fits[i] PROVE \A j \in Places : j \in fits[i]
  <2>1. i \in 1..(P + 1) /\ ~(i > P) /\ ~(N + 1 <= N)
    BY <1>1
  <2>2. pattern[i] = "*" /\ \E l \in (N + 1)..(N + 1) : l \in fits[i + 1]
    BY <1>2, <1>6, <2>1
  <2>3. N + 1 \in fits[i + 1]
    BY <1>1, <2>2
  <2>4. \A j \in Places : N + 1 \in j..(N + 1)
    BY <1>1
  <2> QED BY <1>2, <2>1, <2>2, <2>3, <2>4
<1> DEFINE Within(i) == \A j \in fits[i] : \A from \in 1..N : from <= j => <<j, from>> \in glob[i]
<1> DEFINE S == {n \in Nat : n <= P => Within(P + 1 - n)}
<1>7. 0 \in S
  <2>1. P + 1 - 0 = P + 1 /\ P + 1 \in 1..(P + 1) /\ P + 1 > P
    BY <1>1
  <2>2. \A j \in fits[P + 1] : j \in Places /\ j > N
    BY <1>2, <2>1
  <2>3. \A from \in 1..N : from \in Places
    BY <1>1
  <2>4. Within(P + 1)
    BY <1>3, <2>1, <2>2, <2>3
  <2> QED BY <2>1, <2>4
<1>8. ASSUME NEW n \in Nat, n \in S PROVE n + 1 \in S
  <2>1. SUFFICES ASSUME n + 1 <= P PROVE Within(P + 1 - (n + 1))
    OBVIOUS
  <2> DEFINE i == P + 1 - (n + 1)
  <2>2. /\ i \in 1..P /\ i \in 1..(P + 1) /\ ~(i > P) /\ i + 1 = P + 1 - n
        /\ i + 1 \in 1..(P + 1)
    BY <1>1, <2>1
  <2>3. Within(i + 1)
    BY <1>1, <1>8, <2>1, <2>2
  <2> HIDE DEF i
  <2>4. SUFFICES ASSUME NEW j \in fits[i], NEW from \in 1..N, from <= j PROVE <<j, from>> \in glob[i]
    BY DEF i
  <2>5. j \in Places /\ from \in Places /\ j \in Nat /\ from \in Nat
    BY <1>1, <1>2, <2>2
  <2>6. CASE pattern[i] = "*"
    <3>1. CASE i = P
      BY <1>3, <2>2, <2>5, <2>6, <3>1
    <3>2. CASE i # P
      <4>1. i + 1 \in 1..P
        BY <1>1, <2>2, <3>2
      <4>2. PICK l \in j..(N + 1) : l \in fits[i + 1]
        BY <1>2, <2>2, <2>6
      <4>3. \E at \in from..N : at \in fits[i + 1]
        <5>1. CASE l <= N
          BY <1>1, <2>4, <2>5, <4>2, <5>1
        <5>2. CASE ~(l <= N)
          <6>1. N + 1 \in fits[i + 1] /\ N \in Places /\ N \in from..N
            BY <1>1, <2>4, <2>5, <4>2, <5>2
          <6> QED BY <1>6, <4>1, <6>1
        <5> QED BY <5>1, <5>2
      <4>4. PICK at \in from..N : at \in fits[i + 1]
        BY <4>3
      <4>5. at \in 1..N /\ at <= at
        BY <1>1, <2>5, <4>4
      <4>6. <<at, at>> \in glob[i + 1]
        BY <2>3, <4>4, <4>5
      <4> QED BY <1>3, <2>2, <2>5, <2>6, <4>4, <4>6
    <3> QED BY <3>1, <3>2
  <2>7. CASE pattern[i] # "*"
    <3>1. j <= N /\ pattern[i] \in {"?", name[j]} /\ j + 1 \in fits[i + 1]
      BY <1>2, <2>2, <2>7
    <3>2. from <= j + 1
      BY <2>4, <2>5
    <3>3. <<j + 1, from>> \in glob[i + 1]
      BY <2>3, <3>1, <3>2
    <3> QED BY <1>3, <2>2, <2>5, <2>7, <3>1, <3>3
  <2> QED BY <2>6, <2>7
<1> HIDE DEF S
<1>9. P \in S
  BY <1>1, <1>7, <1>8, SetInduction
<1>10. Within(P + 1 - P) /\ P + 1 - P = 1
  BY <1>1, <1>9 DEF S
<1>11. 1 \in 1..N /\ 1 <= 1
  BY <1>1
<1> QED BY <1>4, <1>10, <1>11

\* With its stars at the ends only, as in *.conf or sites/*, a pattern means to glob_matches
\* what it means to nginx: no file too many is read (nginx_listen.rs glob_matches).
THEOREM GlobIsExact ==
  ASSUME NEW C, NEW D, NEW pattern \in Seq(C), NEW name \in Seq(D), name # <<>>,
         \A i \in DOMAIN pattern : pattern[i] = "*" => i \in {1, Len(pattern)}
  PROVE  glob_matches(pattern, name) <=> Matches(pattern, name)
<1> DEFINE P == Len(pattern)
<1> DEFINE N == Len(name)
<1> DEFINE fits == Fits(pattern, name)
<1> DEFINE glob == Accepts(pattern, name)
<1> DEFINE Places == 1..(N + 1)
<1>1. P \in Nat /\ N \in Nat \ {0}
  OBVIOUS
<1>2. \A i \in 1..(P + 1) : fits[i] =
        {j \in Places :
           IF i > P THEN j > N
           ELSE IF pattern[i] = "*" THEN \E l \in j..(N + 1) : l \in fits[i + 1]
           ELSE j <= N /\ pattern[i] \in {"?", name[j]} /\ j + 1 \in fits[i + 1]}
  BY FitsRow
<1>3. \A i \in 1..(P + 1), j \in Places, from \in Places : <<j, from>> \in glob[i] <=>
        IF i > P THEN j > N
        ELSE IF pattern[i] = "*" THEN i = P \/ \E at \in from..N : <<at, at>> \in glob[i + 1]
        ELSE j <= N /\ pattern[i] \in {"?", name[j]} /\ <<j + 1, from>> \in glob[i + 1]
  BY AcceptsPlace
<1>4. \A i \in 1..P : pattern[i] = "*" => i \in {1, P}
  OBVIOUS
<1>5. SUFFICES ASSUME <<1, 1>> \in glob[1] PROVE 1 \in fits[1]
  BY GlobMissesNothing DEF glob_matches, Matches
<1> HIDE DEF P, N, fits, glob
<1>6. N + 1 \in fits[P + 1]
  <2>1. P + 1 \in 1..(P + 1) /\ P + 1 > P /\ N + 1 \in Places /\ N + 1 > N
    BY <1>1
  <2> QED BY <1>2, <2>1
\* A last star fits everywhere.
<1>7. ASSUME P >= 1, pattern[P] = "*" PROVE \A j \in Places : j \in fits[P]
  <2>1. P \in 1..(P + 1) /\ ~(P > P) /\ \A j \in Places : N + 1 \in j..(N + 1)
    BY <1>1, <1>7
  <2> QED BY <1>2, <1>6, <1>7, <2>1
<1> DEFINE Agrees(i) == \A j, from \in Places : <<j, from>> \in glob[i] => j \in fits[i]
<1> DEFINE S == {n \in Nat : n < P => Agrees(P + 1 - n)}
<1>8. 0 \in S
  <2>1. P + 1 - 0 = P + 1 /\ P + 1 \in 1..(P + 1) /\ P + 1 > P
    BY <1>1
  <2>2. Agrees(P + 1)
    BY <1>2, <1>3, <2>1
  <2> QED BY <2>1, <2>2
<1>9. ASSUME NEW n \in Nat, n \in S PROVE n + 1 \in S
  <2>1. SUFFICES ASSUME n + 1 < P PROVE Agrees(P + 1 - (n + 1))
    OBVIOUS
  <2> DEFINE i == P + 1 - (n + 1)
  <2>2. /\ i \in 2..P /\ i \in 1..P /\ i \in 1..(P + 1) /\ ~(i > P) /\ i + 1 = P + 1 - n /\ i # 1
        /\ P >= 1
    BY <1>1, <2>1
  <2>3. Agrees(i + 1)
    BY <1>1, <1>9, <2>1, <2>2
  <2> HIDE DEF i
  <2>4. SUFFICES ASSUME NEW j \in Places, NEW from \in Places, <<j, from>> \in glob[i]
                 PROVE  j \in fits[i]
    BY DEF i
  <2>5. CASE pattern[i] = "*"
    <3>1. i = P
      BY <1>4, <2>2, <2>5
    <3> QED BY <1>7, <2>2, <2>4, <2>5, <3>1
  <2>6. CASE pattern[i] # "*"
    <3>1. j <= N /\ pattern[i] \in {"?", name[j]} /\ <<j + 1, from>> \in glob[i + 1]
      BY <1>3, <2>2, <2>4, <2>6
    <3>2. j + 1 \in Places
      BY <1>1, <3>1
    <3>3. j + 1 \in fits[i + 1]
      BY <2>3, <2>4, <3>1, <3>2
    <3> QED BY <1>2, <2>2, <2>4, <2>6, <3>1, <3>3
  <2> QED BY <2>5, <2>6
<1> HIDE DEF S
<1>10. ASSUME P >= 1 PROVE Agrees(2)
  <2>1. P - 1 \in Nat /\ P - 1 < P /\ P + 1 - (P - 1) = 2
    BY <1>1, <1>10
  <2>2. P - 1 \in S
    BY <1>8, <1>9, <2>1, SetInduction
  <2> QED BY <2>1, <2>2 DEF S
<1>11. 1 \in Places /\ 1 \in 1..(P + 1) /\ \A at \in 1..N : at \in Places /\ at \in 1..(N + 1)
  BY <1>1
<1>12. CASE P = 0
  BY <1>2, <1>3, <1>5, <1>11, <1>12
<1>13. CASE P >= 1
  <2>1. ~(1 > P) /\ 1 + 1 = 2
    BY <1>1, <1>13
  <2>2. Agrees(2)
    BY <1>10, <1>13
  <2>3. CASE pattern[1] = "*" /\ P = 1
    BY <1>7, <1>11, <1>13, <2>3
  <2>4. CASE pattern[1] = "*" /\ P # 1
    <3>1. PICK at \in 1..N : <<at, at>> \in glob[2]
      BY <1>3, <1>5, <1>11, <2>1, <2>4
    <3>2. at \in fits[2]
      BY <1>11, <2>2, <3>1
    <3> QED BY <1>2, <1>11, <2>1, <2>4, <3>1, <3>2
  <2>5. CASE pattern[1] # "*"
    <3>1. 1 <= N /\ pattern[1] \in {"?", name[1]} /\ <<2, 1>> \in glob[2]
      BY <1>3, <1>5, <1>11, <2>1, <2>5
    <3>2. 2 \in Places
      BY <1>1
    <3>3. 2 \in fits[2]
      BY <1>11, <2>2, <3>1, <3>2
    <3> QED BY <1>2, <1>11, <2>1, <2>5, <3>1, <3>3
  <2> QED BY <2>3, <2>4, <2>5
<1> QED BY <1>1, <1>12, <1>13

(***************************************************************************)
(* The walk: nothing is missed.  While nobody edits, what a file that was  *)
(* read includes was visited or is still to come, and so is Root; when     *)
(* nothing is to come any more, what was visited is closed under includes. *)
(***************************************************************************)

\* The paths of one file lie in one directory, so it includes the same files under all
\* of them.
OneDir == \A x, y \in Paths : Canon(x) = Canon(y) => x.dir = y.dir

Covers(item, q) ==
  \/ item.do = "visit" /\ q \in item.paths
  \/ item.do = "look" /\ q \in Includes(item.dir, item.spec)

ToCome(q) == \E item \in Elements(todo) : Covers(item, q)

Handled(q) == Canon(q) \in visited \/ ToCome(q)

Complete ==
  /\ Handled(Root)
  /\ \A i \in DOMAIN read :
       /\ read[i].contents = text[Canon(read[i].path)]
       /\ \A q \in IncludedBy(read[i].path) : Handled(q)

Unedited ==
  /\ walk = "idle" => todo = <<>> /\ read = <<>>
  /\ walk \in {"walk", "done"} => Complete
  /\ walk = "done" => todo = <<>>
  /\ AcceptedIsFree

Misses ==
  /\ BulkTyped
  /\ walk # "idle" => list = "ok"
  /\ outcome # "none" => list \in {"ok", "error"}
  /\ edits = 0 => Unedited

LEMMA CoversSame ==
  ASSUME text' = text PROVE \A item, q : Covers(item, q)' <=> Covers(item, q)
<1>1. \A dir, spec : Includes(dir, spec)' = Includes(dir, spec)
  BY DEF Includes, Listed, Readable
<1> QED BY <1>1 DEF Covers

\* What is handled stays handled when the head of todo is worked off.
LEMMA HandledStays ==
  ASSUME WalkTyped, todo # <<>>, text' = text, visited \subseteq visited',
         Elements(Tail(todo)) \subseteq Elements(todo'),
         \A q \in Paths : Covers(Head(todo), q) => Handled(q)',
         NEW q \in Paths, Handled(q)
  PROVE  Handled(q)'
<1>1. Elements(todo) = {Head(todo)} \cup Elements(Tail(todo))
  BY TailElements DEF WalkTyped
<1> QED BY <1>1, CoversSame DEF Handled, ToCome

LEMMA IncludedPaths ==
  ASSUME NEW path PROVE IncludedBy(path) \subseteq Paths
  BY DEF IncludedBy, Includes

LEMMA IncludedSame ==
  ASSUME text' = text, NEW path
  PROVE  IncludedBy(path)' = IncludedBy(path) /\ Readable(path)' = Readable(path)
  BY DEF IncludedBy, Includes, Readable, Listed

\* Nothing was read and nothing is lost.
LEMMA CompleteStays ==
  ASSUME WalkTyped, Complete, UNCHANGED <<text, read>>,
         \A q \in Paths : Handled(q) => Handled(q)'
  PROVE  Complete'
<1>1. Root \in Paths
  BY PathsAssumption
<1> QED BY <1>1, IncludedPaths, IncludedSame DEF Complete

LEMMA ExpandCovers ==
  ASSUME NEW dir \in Dirs, NEW spec \in Specs, NEW q \in Includes(dir, spec)
  PROVE  q \in Expand(dir, spec)
<1>1. q \in Paths /\ q = [dir |-> q.dir, name |-> q.name] /\ q.dir = Join(dir, spec.in)
  BY PathsAssumption DEF Includes
<1>2. CASE IsPattern(spec.name)
  <2>1. /\ q.name \in Seq({q.name[i] : i \in DOMAIN q.name}) /\ q.name # <<>>
        /\ spec.name \in Seq(Elements(spec.name))
    BY <1>1, PathsAssumption, BulkAssumption
  <2>2. Matches(spec.name, q.name) /\ Listed(q)
    BY <1>2 DEF Includes
  <2>3. glob_matches(spec.name, q.name)
    BY <2>1, <2>2, GlobMissesNothing
  <2> QED BY <1>1, <1>2, <2>2, <2>3 DEF Expand
<1>3. CASE ~IsPattern(spec.name)
  BY <1>1, <1>3 DEF Includes, Expand
<1> QED BY <1>2, <1>3

LEMMA VisitComplete ==
  ASSUME WalkTyped, Complete, VisitPath, walk' = "walk"
  PROVE  Complete'
<1> DEFINE paths == Head(todo).paths
<1> DEFINE path == First(paths)
<1> DEFINE item == Visits(paths \ {path})
<1> DEFINE rest == <<item>> \o Tail(todo)
<1>1. todo # <<>> /\ Head(todo).do = "visit" /\ text' = text
  BY DEF VisitPath, Visiting
<1>2. \/ path \in Paths /\ Canon(path) \in visited /\ Pass(rest)
      \/ Readable(path) /\ Canon(path) \notin visited /\ ReadFile(path, rest)
  BY DEF VisitPath, Readable, Fail
<1>3. item \in Items
  BY <1>1, HeadTyped, VisitsTyped
<1>4. rest \in Seq(Items) /\ Elements(rest) = {item} \cup Elements(Tail(todo))
  BY <1>1, <1>3, HeadReplaced DEF WalkTyped
<1>5. item.do = "visit" /\ item.paths = paths \ {path}
  BY DEF Visits
<1>6. \A q : Covers(Head(todo), q) => q = path \/ Covers(item, q)
  BY <1>1, <1>5 DEF Covers
<1> HIDE DEF path, rest, item
<1>7. CASE path \in Paths /\ Canon(path) \in visited /\ Pass(rest)
  <2>1. todo' = rest /\ UNCHANGED <<visited, read>>
    BY <1>7 DEF Pass
  <2>2. \A q \in Paths : Covers(Head(todo), q) => Handled(q)'
    BY <1>1, <1>4, <1>6, <1>7, <2>1, CoversSame DEF Handled, ToCome
  <2>3. \A q \in Paths : Handled(q) => Handled(q)'
    BY <1>1, <1>4, <2>1, <2>2, HandledStays
  <2> QED BY <1>1, <2>1, <2>3, CompleteStays
<1>8. CASE Readable(path) /\ Canon(path) \notin visited /\ ReadFile(path, rest)
  <2> DEFINE c == text[Canon(path)]
  <2>0. path \in Paths /\ path.dir \in Dirs /\ c \in Found
    BY <1>8 DEF Readable, Dirs, Found, WalkTyped, Files
  <2> HIDE DEF c
  <2>1. /\ visited' = visited \cup {Canon(path)}
        /\ todo' = Look(path.dir, c.includes) \o rest
        /\ read' = Append(read, [path |-> path, contents |-> c])
    BY <1>8 DEF ReadFile, c
  <2>2. /\ Elements(todo') = Elements(Look(path.dir, c.includes)) \cup Elements(rest)
        /\ \A spec \in Elements(c.includes) :
             [do |-> "look", dir |-> path.dir, spec |-> spec] \in Elements(todo')
    BY <1>4, <2>0, <2>1, LookElements, ConcatElements
  <2>3. \A q \in Paths : Covers(Head(todo), q) => Handled(q)'
    BY <1>1, <1>4, <1>6, <2>1, <2>2, CoversSame DEF Handled, ToCome
  <2>4. \A q \in Paths : Handled(q) => Handled(q)'
    BY <1>1, <1>4, <2>1, <2>2, <2>3, HandledStays
  <2>5. \A q \in IncludedBy(path) : Handled(q)'
    <3>1. SUFFICES ASSUME NEW q \in IncludedBy(path) PROVE ToCome(q)'
      BY DEF Handled
    <3>2. PICK spec \in Elements(c.includes) : q \in Includes(path.dir, spec)
      BY <1>8, <3>1 DEF IncludedBy, Elements, c
    <3> DEFINE look == [do |-> "look", dir |-> path.dir, spec |-> spec]
    <3>3. look \in Elements(todo') /\ Covers(look, q)
      BY <2>2, <3>2 DEF Covers
    <3> HIDE DEF look
    <3> QED BY <1>1, <3>3, CoversSame DEF ToCome
  <2>6. /\ DOMAIN read' = DOMAIN read \cup {Len(read) + 1}
        /\ \A i \in DOMAIN read : read'[i] = read[i]
        /\ read'[Len(read) + 1] = [path |-> path, contents |-> c]
    BY <2>1 DEF WalkTyped, ReadTyped
  <2>7. Handled(Root)'
    BY <2>4, PathsAssumption DEF Complete
  <2>8. ASSUME NEW i \in DOMAIN read
        PROVE  /\ read'[i].contents = text[Canon(read'[i].path)]
               /\ \A q \in IncludedBy(read'[i].path) : Handled(q)'
    BY <2>4, <2>6, <2>8, IncludedPaths DEF Complete
  <2>9. LET e == read'[Len(read) + 1]
        IN  e.contents = text[Canon(e.path)] /\ \A q \in IncludedBy(e.path) : Handled(q)'
    BY <2>5, <2>6 DEF c
  <2> QED BY <1>1, <2>6, <2>7, <2>8, <2>9, IncludedSame DEF Complete
<1> QED BY <1>2, <1>7, <1>8

LEMMA WalkComplete ==
  ASSUME WalkTyped, WalkNext,
         walk = "idle" => read = <<>>, walk \in {"walk", "done"} => Complete
  PROVE  walk' \in {"walk", "done"} => Complete'
<1>1. CASE BeginWalk
  <2>1. Elements(todo') = {Visits({Root})}
    BY <1>1, OneElement DEF BeginWalk
  <2>2. DOMAIN read' = {}
    BY <1>1 DEF BeginWalk
  <2>3. Covers(Visits({Root}), Root)'
    BY DEF Covers, Visits
  <2>4. Handled(Root)'
    BY <2>1, <2>3 DEF Handled, ToCome
  <2> QED BY <2>2, <2>4 DEF Complete
<1>2. CASE VisitPath
  BY <1>2, VisitComplete DEF VisitPath, Visiting, ReadFile, Pass, Fail
<1>3. CASE EndLoop
  <2>1. /\ todo # <<>> /\ walk = "walk" /\ UNCHANGED <<text, visited, read>> /\ todo' = Tail(todo)
        /\ \A q : ~Covers(Head(todo), q)
    BY <1>3 DEF EndLoop, Visiting, Pass, Covers
  <2>2. \A q \in Paths : Handled(q) => Handled(q)'
    BY <2>1, HandledStays
  <2> QED BY <2>1, <2>2, CompleteStays
<1>4. CASE LookAtInclude
  <2> DEFINE dir == Head(todo).dir
  <2> DEFINE spec == Head(todo).spec
  <2> DEFINE item == Visits(Expand(dir, spec))
  <2>1. /\ todo # <<>> /\ walk = "walk" /\ UNCHANGED <<text, visited, read>>
        /\ Head(todo).do = "look" /\ todo' = <<item>> \o Tail(todo)
    BY <1>4 DEF LookAtInclude
  <2>2. dir \in Dirs /\ spec \in Specs
    BY <2>1, HeadTyped
  <2>3. item \in Items
    BY <2>2, ExpandTyped, VisitsTyped
  <2>4. Elements(todo') = {item} \cup Elements(Tail(todo))
    BY <2>1, <2>3, HeadReplaced DEF WalkTyped
  <2>5. \A q : Covers(Head(todo), q) => q \in Expand(dir, spec)
    BY <2>1, <2>2, ExpandCovers DEF Covers
  <2>6. item.do = "visit" /\ item.paths = Expand(dir, spec)
    BY DEF Visits
  <2> HIDE DEF item
  <2>7. \A q \in Paths : Covers(Head(todo), q) => Handled(q)'
    BY <2>4, <2>5, <2>6 DEF Handled, ToCome, Covers
  <2>8. \A q \in Paths : Handled(q) => Handled(q)'
    BY <2>1, <2>4, <2>7, HandledStays
  <2> QED BY <2>1, <2>8, CompleteStays
<1>5. CASE EndWalk
  <2>1. \A q \in Paths : Handled(q) => Handled(q)'
    BY <1>5, CoversSame DEF EndWalk, Handled, ToCome
  <2> QED BY <1>5, <2>1, CompleteStays DEF EndWalk
<1> QED BY <1>1, <1>2, <1>3, <1>4, <1>5 DEF WalkNext

\* What a complete walk has visited is closed under includes and contains Root.
LEMMA NothingMissed ==
  ASSUME OneDir, WalkTyped, Complete, todo = <<>>
  PROVE  NginxListensOn \subseteq FoundPorts
<1> DEFINE seen == {q \in Paths : Canon(q) \in visited}
<1>1. \A q : Handled(q) => Canon(q) \in visited
  BY EmptyList DEF Handled, ToCome
<1>2. Root \in seen
  BY <1>1, PathsAssumption DEF Complete
<1>3. \A q \in seen : \E i \in DOMAIN read :
        Canon(q) = Canon(read[i].path) /\ read[i].path \in Paths
  <2> DEFINE Entries == [path : Paths, contents : Found]
  <2>0. read \in Seq(Entries)
    BY DEF WalkTyped, ReadTyped
  <2>1. \A i \in DOMAIN read : read[i].path \in Paths
    <3>1. SUFFICES ASSUME NEW i \in DOMAIN read PROVE read[i].path \in Paths
      OBVIOUS
    <3>2. read[i] \in Entries
      <4> HIDE DEF Entries
      <4> QED BY <2>0, <3>1
    <3> QED BY <3>2
  <2> QED BY <2>1 DEF WalkTyped
<1>4. ASSUME NEW q \in seen PROVE IncludedBy(q) \subseteq seen
  <2>1. PICK i \in DOMAIN read : Canon(q) = Canon(read[i].path) /\ read[i].path \in Paths
    BY <1>3, <1>4
  <2>2. q.dir = read[i].path.dir
    BY <1>4, <2>1 DEF OneDir
  <2>3. IncludedBy(q) = IncludedBy(read[i].path)
    BY <1>4, <2>1, <2>2 DEF IncludedBy, Readable
  <2> QED BY <1>1, <2>1, <2>3, IncludedPaths DEF Complete
<1>5. NginxReads \subseteq seen
  BY <1>2, <1>4 DEF NginxReads, FollowsIncludes
<1>6. \A q \in seen : text[Canon(q)].ports \subseteq FoundPorts
  BY <1>3 DEF FoundPorts, Complete
<1> QED BY <1>5, <1>6 DEF NginxListensOn

LEMMA MissesInit == Init => Misses
  BY BulkTypedInit DEF Init, ListInit, WalkInit, Misses, Unedited, AcceptedIsFree

LEMMA MissesStep ==
  ASSUME OneDir, Misses, [Next]_vars PROVE Misses'
<1>0. BulkTyped /\ BulkTyped' /\ WalkTyped
  BY BulkTypedStep DEF Misses, BulkTyped
<1>1. CASE UNCHANGED vars
  <2>1. Complete => Complete'
    BY <1>1 DEF vars, walkVars, Complete, Handled, ToCome, Covers, IncludedBy, Includes, Readable, Listed
  <2>2. AcceptedIsFree => AcceptedIsFree'
    BY <1>1 DEF vars, walkVars, listVars, AcceptedIsFree, IncludedBy, Includes, Readable, Listed,
                NginxListensOn, NginxReads, FollowsIncludes
  <2>3. Unedited => Unedited'
    BY <1>1, <2>1, <2>2 DEF vars, walkVars, Unedited
  <2> QED BY <1>0, <1>1, <2>3 DEF vars, walkVars, listVars, Misses
<1>2. CASE MakeList
  <2>1. list \notin {"ok", "error"} /\ UNCHANGED <<walkVars, outcome, edits>>
    BY <1>2 DEF MakeList, ListNext, FillCheck, FillStep, BulkCheck, NextSpec, RangeStep, UniqueStep, Collected
  <2>2. walk = "idle" /\ outcome = "none"
    BY <2>1 DEF Misses
  <2>3. Unedited => Unedited'
    BY <2>1, <2>2 DEF walkVars, Unedited, AcceptedIsFree
  <2> QED BY <1>0, <2>1, <2>2, <2>3 DEF walkVars, Misses
<1>3. CASE DecideWithoutConf
  <2>1. /\ list = "ok" /\ walk = "idle" /\ ~Readable(Root) /\ Decide(Inner)
        /\ UNCHANGED <<listVars, walkVars, edits>>
    BY <1>3 DEF DecideWithoutConf
  <2>2. FollowsIncludes({Root}) /\ {Root} \in SUBSET Paths
    BY <2>1, PathsAssumption DEF FollowsIncludes, IncludedBy
  <2>3. NginxReads \subseteq {Root}
    BY <2>2 DEF NginxReads
  <2>4. NginxListensOn = {}
    BY <2>1, <2>3 DEF NginxListensOn
  <2>5. (NginxListensOn = {})'
    BY <2>1, <2>4 DEF walkVars, NginxListensOn, NginxReads, FollowsIncludes, IncludedBy, Includes, Readable,
                      Listed
  <2>6. AcceptedIsFree'
    BY <2>1, <2>5 DEF AcceptedIsFree, Decide, listVars
  <2>7. Unedited => Unedited'
    BY <2>1, <2>6 DEF Unedited, walkVars
  <2> QED BY <1>0, <2>1, <2>7 DEF walkVars, listVars, Misses
<1>4. CASE Walk
  <2>1. /\ list = "ok" /\ WalkNext /\ UNCHANGED <<listVars, outcome, edits>>
        /\ walk = "idle" => outcome = "none"
    BY <1>4 DEF Walk
  <2>2. text' = text
    BY <2>1 DEF WalkNext, BeginWalk, VisitPath, EndLoop, LookAtInclude, EndWalk
  <2>3. AcceptedIsFree => AcceptedIsFree'
    BY <2>1, <2>2 DEF AcceptedIsFree, listVars, NginxListensOn, NginxReads, FollowsIncludes, IncludedBy,
                      Includes, Readable, Listed
  <2>4. walk' # "idle" /\ (walk' = "done" => todo' = <<>>)
    BY <2>1 DEF WalkNext, BeginWalk, VisitPath, Visiting, EndLoop, LookAtInclude, EndWalk, ReadFile, Pass, Fail
  <2>5. Unedited => Unedited'
    BY <1>0, <2>1, <2>3, <2>4, WalkComplete DEF Unedited
  <2> QED BY <1>0, <2>1, <2>5 DEF listVars, Misses
<1>5. CASE DecideWithConf
  <2>1. walk = "done" /\ Decide(FoundPorts \cup Inner) /\ UNCHANGED <<listVars, walkVars, edits>>
    BY <1>5 DEF DecideWithConf
  <2>2. Unedited => NginxListensOn \subseteq FoundPorts
    BY <1>0, <2>1, NothingMissed DEF Unedited
  <2>3. NginxListensOn' = NginxListensOn /\ out' = out
    BY <2>1 DEF walkVars, listVars, NginxListensOn, NginxReads, FollowsIncludes, IncludedBy, Includes,
                Readable, Listed
  <2>4. Unedited => AcceptedIsFree'
    BY <2>1, <2>2, <2>3 DEF AcceptedIsFree, Decide
  <2>5. Complete => Complete'
    BY <2>1 DEF walkVars, Complete, Handled, ToCome, Covers, IncludedBy, Includes, Readable, Listed
  <2>6. Unedited => Unedited'
    BY <2>1, <2>4, <2>5 DEF Unedited, walkVars
  <2> QED BY <1>0, <2>1, <2>6 DEF walkVars, listVars, Misses
<1>6. CASE Refuse
  <2>1. /\ UNCHANGED <<listVars, walkVars, edits>> /\ outcome' = "refused"
        /\ list = "error" \/ walk = "error"
    BY <1>6 DEF Refuse
  <2>2. Complete => Complete'
    BY <2>1 DEF walkVars, Complete, Handled, ToCome, Covers, IncludedBy, Includes, Readable, Listed
  <2>3. Unedited => Unedited'
    BY <2>1, <2>2 DEF Unedited, AcceptedIsFree, walkVars
  <2> QED BY <1>0, <2>1, <2>3 DEF walkVars, listVars, Misses
<1>7. CASE Edit
  <2>1. edits' # 0 /\ UNCHANGED <<listVars, walk, outcome>>
    BY <1>0, <1>7, BulkAssumption DEF Edit, BulkTyped
  <2> QED BY <1>0, <2>1 DEF listVars, Misses
<1> QED BY <1>1, <1>2, <1>3, <1>4, <1>5, <1>6, <1>7 DEF Next, Command

\* No port is accepted that nginx listens on, in whatever file, included through whatever
\* pattern, link or cycle, as long as nobody edits meanwhile and the paths of one file
\* lie in one directory (ctl.rs apply_add, nginx_listen.rs walk_includes).
THEOREM AcceptedAreFree ==
  ASSUME OneDir PROVE Spec => []AcceptedIsFree
<1>1. Misses => AcceptedIsFree
  BY DEF Misses, Unedited, AcceptedIsFree
<1>2. Misses /\ [Next]_vars => Misses'
  BY MissesStep
<1> QED BY <1>1, <1>2, MissesInit, PTL DEF Spec
===============================================================================
