---------------------------- MODULE Dataplane_proofs ----------------------------
(***************************************************************************)
(* Machine-checked proofs about Dataplane, for any number of ports, map    *)
(* instances, loaders and kills.                                           *)
(***************************************************************************)
EXTENDS Dataplane, TLAPS

(***************************************************************************)
(* Type correctness.                                                       *)
(***************************************************************************)

LEMMA LinkFacts ==
  /\ Gone \in Link /\ ~Gone.on /\ Dead \in Link /\ ~Dead.on
  /\ \A m \in Maps : /\ Attached(m) \in Link /\ Attached(m).on /\ Attached(m).pin
                     /\ Attached(m).open = m.open /\ Attached(m).redir = m.redir
<1>1. Gone \in Link /\ ~Gone.on
  BY DEF Gone, Link
<1>2. Dead \in Link /\ ~Dead.on
  BY DEF Dead, Gone, Link
<1>3. ASSUME NEW m \in Maps
      PROVE  /\ Attached(m) \in Link /\ Attached(m).on /\ Attached(m).pin
             /\ Attached(m).open = m.open /\ Attached(m).redir = m.redir
  BY <1>3 DEF Attached, Link, Maps
<1> QED BY <1>1, <1>2, <1>3

LEMMA TearFacts ==
  /\ NoTear \in Tear /\ NoTear.at = "idle" /\ NoTear.op = "none"
  /\ \A k \in Links : [op |-> "unpin", link |-> k, at |-> "detach"] \in Tear
  /\ [op |-> "detach", link |-> "primary", at |-> "detach"] \in Tear
  BY DEF NoTear, Tear, Links

\* A loader that has its maps has both of them.
Loaded == {"backup", "primary", "pin", "pin2", "http", "tls", "reconcile", "serving"}

Owns(l) == pc[l] \in Loaded => own[l].open \in Inst /\ own[l].redir \in Inst

Typed == TypeOK /\ \A l \in Loaders : Owns(l)

LEMMA TypedInit == Init => Typed
<1> SUFFICES ASSUME Init PROVE Typed
  OBVIOUS
<1>1. Nothing \in Desired /\ NoMaps \in Maps
  BY DEF Nothing, Desired, NoMaps, Maps
<1>2. kills \in 0..MaxKills
  BY DataplaneAssumption DEF Init
<1> QED BY <1>1, <1>2, LinkFacts, TearFacts DEF Init, Typed, TypeOK, Owns, Loaded

\* The end of a process.
LEMMA EndedTyped ==
  ASSUME Typed, NEW l \in Loaders, Ended(l)
  PROVE  /\ pc' \in [Loaders -> Starting \cup {"down", "serving"}]
         /\ own' \in [Loaders -> Maps] /\ locked' \subseteq Loaders
         /\ pc'[l] = "down" /\ \A v \in Loaders \ {l} : pc'[v] = pc[v] /\ own'[v] = own[v]
  BY DEF Ended, Typed, TypeOK, NoMaps, Maps

\* A loader that goes on.
LEMMA GoesTyped ==
  ASSUME Typed, NEW l \in Loaders, NEW place \in Starting \cup {"serving"}, Goes(l, place)
  PROVE  /\ pc' \in [Loaders -> Starting \cup {"down", "serving"}]
         /\ pc'[l] = place /\ \A v \in Loaders \ {l} : pc'[v] = pc[v]
  BY DEF Goes, Typed, TypeOK

LEMMA StepTyped ==
  ASSUME Typed, NEW l \in Loaders, Step(l)
  PROVE  Typed'
<1>0. TypeOK /\ Owns(l) /\ own[l] \in Maps /\ None \notin Inst
  BY DataplaneAssumption DEF Typed, TypeOK
<1>1. ASSUME NEW new \in Inst, pc[l] = "load",
             own' = [own EXCEPT ![l] =
                       [open  |-> IF pinOpen  # None THEN pinOpen  ELSE new,
                        redir |-> IF pinRedir # None THEN pinRedir ELSE new]],
             ports' = [ports EXCEPT ![new] = Nothing], slots' = [slots EXCEPT ![new] = {}],
             Goes(l, "backup"), UNCHANGED <<file, pins, links, locked, tear, kills>>
      PROVE  Typed'
  <2>1. PICK m : m = [open  |-> IF pinOpen  # None THEN pinOpen  ELSE new,
                      redir |-> IF pinRedir # None THEN pinRedir ELSE new]
    OBVIOUS
  <2>2. m \in Maps /\ m.open \in Inst /\ m.redir \in Inst
    BY <1>0, <1>1, <2>1 DEF TypeOK, Maps
  <2>3. /\ own' \in [Loaders -> Maps] /\ own'[l] = m
        /\ \A v \in Loaders \ {l} : own'[v] = own[v]
    BY <1>0, <1>1, <2>1, <2>2 DEF TypeOK
  <2>4. Nothing \in Desired
    BY DEF Nothing, Desired
  <2>5. TypeOK'
    BY <1>0, <1>1, <2>3, <2>4, GoesTyped DEF TypeOK, pins, Starting
  <2> QED BY <1>1, <2>2, <2>3, <2>5, GoesTyped DEF Typed, Owns, Starting
<1>2. CASE EnsureBackup(l)
  <2>1. own[l].open # None /\ own[l].redir # None
    BY <1>0, <1>2 DEF EnsureBackup, Owns, Loaded
  <2>2. /\ links' \in [Links -> Link]
        /\ \A k \in Links :
             links'[k].on => links'[k].pin /\ None \notin {links'[k].open, links'[k].redir}
    BY <1>0, <1>2, <2>1, LinkFacts DEF EnsureBackup, TypeOK, Links
  <2>3. Goes(l, "primary") /\ UNCHANGED <<file, maps, pins, own, locked, tear, kills>>
    BY <1>2 DEF EnsureBackup
  <2> QED BY <1>0, <1>2, <2>2, <2>3, GoesTyped
          DEF EnsureBackup, Typed, TypeOK, Owns, Loaded, Starting, maps, pins
<1>3. CASE AttachOrUpgrade(l)
  <2>1. own[l].open # None /\ own[l].redir # None
    BY <1>0, <1>3 DEF AttachOrUpgrade, Owns, Loaded
  <2>2. CASE Ended(l) /\ UNCHANGED links
    BY <1>0, <1>3, <2>2, EndedTyped
       DEF AttachOrUpgrade, Typed, TypeOK, Owns, Loaded, maps, pins
  <2>3. CASE /\ links' = [links EXCEPT !["primary"] = Attached(own[l])]
             /\ Goes(l, "pin") /\ UNCHANGED <<own, locked>>
    <3>1. /\ links' \in [Links -> Link]
          /\ \A k \in Links :
               links'[k].on => links'[k].pin /\ None \notin {links'[k].open, links'[k].redir}
      BY <1>0, <2>1, <2>3, LinkFacts DEF TypeOK, Links
    <3> QED BY <1>0, <1>3, <2>3, <3>1, GoesTyped
            DEF AttachOrUpgrade, Typed, TypeOK, Owns, Loaded, Starting, maps, pins
  <2> QED BY <1>3, <2>2, <2>3 DEF AttachOrUpgrade
<1>4. CASE PinOpenPorts(l)
  BY <1>0, <1>4, GoesTyped DEF PinOpenPorts, Typed, TypeOK, Owns, Loaded, Starting, Maps, maps
<1>5. CASE PinRedirSocket(l)
  BY <1>0, <1>5, GoesTyped DEF PinRedirSocket, Typed, TypeOK, Owns, Loaded, Starting, Maps, maps
<1>6. ASSUME NEW slot \in Slots, Register(l, slot), pc[l] \in Loaded
      PROVE  ports' \in [Inst -> Desired] /\ slots' \in [Inst -> SUBSET Slots]
  BY <1>0, <1>6 DEF Register, Typed, TypeOK, Owns, Desired, Of
<1>7. CASE RegisterHttp(l)
  BY <1>0, <1>6, <1>7, GoesTyped
     DEF RegisterHttp, Typed, TypeOK, Owns, Loaded, Starting, Slots, pins
<1>8. CASE RegisterTls(l)
  <2>1. ports' \in [Inst -> Desired] /\ slots' \in [Inst -> SUBSET Slots]
    BY <1>0, <1>6, <1>8 DEF RegisterTls, TypeOK, Loaded, Slots, maps
  <2> QED BY <1>0, <1>8, <2>1, GoesTyped
          DEF RegisterTls, Typed, TypeOK, Owns, Loaded, Starting, pins
<1>9. CASE ReconcileAndServe(l)
  BY <1>0, <1>9, GoesTyped
     DEF ReconcileAndServe, Typed, TypeOK, Owns, Loaded, Starting, pins
<1> QED BY <1>1, <1>2, <1>3, <1>4, <1>5, <1>7, <1>8, <1>9 DEF Step, Load

LEMMA ServeTyped ==
  ASSUME Typed, NEW l \in Loaders,
         \/ Start(l) \/ Reload(l) \/ Exit(l)
         \/ \E p \in Ports, slot \in Slots \cup {Closed} : Change(l, p, slot)
  PROVE  Typed'
<1>0. TypeOK /\ Owns(l)
  BY DEF Typed
<1>1. CASE Start(l)
  <2>1. CASE Ended(l)
    BY <1>0, <1>1, <2>1, EndedTyped DEF Start, Typed, TypeOK, Owns, Loaded, maps, pins
  <2>2. CASE Goes(l, "load") /\ locked' = {l} /\ UNCHANGED own
    BY <1>0, <1>1, <2>2, GoesTyped DEF Start, Typed, TypeOK, Owns, Loaded, Starting, maps, pins
  <2> QED BY <1>1, <2>1, <2>2 DEF Start
<1>2. CASE Reload(l)
  BY <1>0, <1>2 DEF Reload, Typed, TypeOK, Owns, Loaded, procs, pins
<1>3. CASE Exit(l)
  <2>1. kills' \in 0..MaxKills
    <3>1. kills \in 0..MaxKills /\ kills < MaxKills /\ kills' = kills + 1
      BY <1>0, <1>3 DEF Exit, TypeOK
    <3> QED BY <3>1, DataplaneAssumption
  <2>2. Ended(l) /\ UNCHANGED <<file, maps, pins, links, tear>>
    BY <1>3 DEF Exit
  <2> QED BY <1>0, <2>1, <2>2, EndedTyped DEF Typed, TypeOK, Owns, Loaded, maps, pins
<1>4. ASSUME NEW p \in Ports, NEW slot \in Slots \cup {Closed}, Change(l, p, slot) PROVE Typed'
  <2>1. file' \in Desired
    BY <1>0, <1>4 DEF Change, TypeOK, Desired
  <2>2. ports' = [ports EXCEPT ![pinOpen] = [ports[pinOpen] EXCEPT ![p] = slot]] /\ pinOpen \in Inst
    BY <1>0, <1>4 DEF Change, TypeOK
  <2>3. [ports[pinOpen] EXCEPT ![p] = slot] \in Desired
    BY <1>0, <2>2 DEF TypeOK, Desired
  <2>4. ports' \in [Inst -> Desired]
    BY <1>0, <2>2, <2>3 DEF TypeOK
  <2> QED BY <1>0, <1>4, <2>1, <2>4 DEF Change, Typed, TypeOK, Owns, procs, pins
<1> QED BY <1>1, <1>2, <1>3, <1>4

LEMMA TearTyped ==
  ASSUME Typed, BeginUnpin \/ BeginDetachPrimary \/ TearStep \/ KillTear
  PROVE  Typed'
<1>0. TypeOK /\ tear \in Tear /\ tear.link \in Links
  BY DEF Typed, TypeOK, Tear
<1>1. NextLink \in Tear
  BY <1>0, TearFacts DEF NextLink, Tear, Links
<1>2. CASE BeginUnpin \/ BeginDetachPrimary
  BY <1>0, <1>2, TearFacts
     DEF BeginUnpin, BeginDetachPrimary, Typed, TypeOK, Owns, maps, pins, procs, Links
<1>3. ASSUME tear' \in Tear, NEW x \in {Dead, Gone},
             links' \in {links, [links EXCEPT ![tear.link] = x]},
             UNCHANGED <<file, maps, pins, procs, kills>>
      PROVE  Typed'
  <2>1. /\ links' \in [Links -> Link]
        /\ \A k \in Links :
             links'[k].on => links'[k].pin /\ None \notin {links'[k].open, links'[k].redir}
    BY <1>0, <1>3, LinkFacts DEF TypeOK
  <2> QED BY <1>0, <1>3, <2>1 DEF Typed, TypeOK, Owns, maps, pins, procs
<1>4. CASE DetachLink
  <2>1. [tear EXCEPT !.at = "unpin"] \in Tear
    BY <1>0 DEF Tear
  <2> QED BY <1>1, <1>3, <1>4, <2>1 DEF DetachLink
<1>5. CASE RemoveLink
  <2>1. [tear EXCEPT !.at = "remove"] \in Tear
    BY <1>0 DEF Tear
  <2> QED BY <1>1, <1>3, <1>5, <2>1 DEF RemoveLink
<1>6. CASE RemoveMapPin
  <2>1. [tear EXCEPT !.at = "redir"] \in Tear
    BY <1>0 DEF Tear
  <2> QED BY <1>0, <1>6, <2>1, TearFacts DEF RemoveMapPin, Typed, TypeOK, Owns, maps, procs
<1>7. CASE KillTear
  <2>1. kills' \in 0..MaxKills
    <3>1. kills \in 0..MaxKills /\ kills < MaxKills /\ kills' = kills + 1
      BY <1>0, <1>7 DEF KillTear, TypeOK
    <3> QED BY <3>1, DataplaneAssumption
  <2> QED BY <1>0, <1>7, <2>1, TearFacts DEF KillTear, Typed, TypeOK, Owns, maps, pins, procs
<1> QED BY <1>2, <1>4, <1>5, <1>6, <1>7 DEF TearStep

LEMMA TypedStep == Typed /\ [Next]_vars => Typed'
<1> SUFFICES ASSUME Typed, [Next]_vars PROVE Typed'
  OBVIOUS
<1>1. CASE UNCHANGED vars
  BY <1>1 DEF vars, Typed, TypeOK, Owns
<1>2. CASE Next
  BY <1>2, StepTyped, ServeTyped, TearTyped DEF Next
<1> QED BY <1>1, <1>2

\* Every state of the dataplane is well typed.
THEOREM DataplaneTyped == Spec => []TypeOK
<1>1. Typed => TypeOK
  BY DEF Typed
<1> QED BY <1>1, TypedInit, TypedStep, PTL DEF Spec

(***************************************************************************)
(* The lock.  As long as the lock file is not removed under a loader that  *)
(* holds it, one loader runs at a time, and what is pinned is its own.     *)
(***************************************************************************)

Uses(l) ==
  pc[l] \in Loaded => pinOpen \in {own[l].open, None} /\ pinRedir \in {own[l].redir, None}

Locked ==
  /\ Typed
  /\ \A l \in Loaders : (Alive(l) => locked = {l}) /\ Uses(l)

LEMMA OnlyOne ==
  ASSUME Locked, NEW l \in Loaders, Alive(l) \/ locked = {}, NEW v \in Loaders \ {l}
  PROVE  pc[v] = "down"
  BY DEF Locked, Alive

LEMMA LockedInit == Init => Locked
  BY TypedInit DEF Init, Locked, Alive, Uses, Loaded

\* A step of a loader that runs leaves the others down.
LEMMA StepFrame ==
  ASSUME Locked, NEW l \in Loaders,
         \/ Step(l) \/ Reload(l) \/ Exit(l)
         \/ \E p \in Ports, slot \in Slots \cup {Closed} : Change(l, p, slot)
  PROVE  /\ Alive(l) /\ locked = {l} /\ tear' = tear
         /\ \A v \in Loaders \ {l} : pc[v] = "down" /\ pc'[v] = "down"
<1>1. Alive(l)
  BY DEF Step, Load, EnsureBackup, AttachOrUpgrade, PinOpenPorts, PinRedirSocket, RegisterHttp,
         RegisterTls, ReconcileAndServe, Reload, Exit, Change, Alive
<1>2. /\ tear' = tear
      /\ Ended(l) \/ pc' = pc \/ \E place \in Starting \cup {"serving"} : Goes(l, place)
  BY DEF Step, Load, EnsureBackup, AttachOrUpgrade, PinOpenPorts, PinRedirSocket, RegisterHttp,
         RegisterTls, ReconcileAndServe, Reload, Exit, Change, Starting, procs
<1>3. \A v \in Loaders \ {l} : pc[v] = "down"
  BY <1>1, OnlyOne
<1>4. \A v \in Loaders \ {l} : pc'[v] = pc[v]
  BY <1>2, EndedTyped, GoesTyped DEF Locked
<1> QED BY <1>1, <1>2, <1>3, <1>4 DEF Locked

LEMMA LockedStep ==
  ASSUME RuntimeDirKept
  PROVE  Locked /\ [Next]_vars => Locked'
<1> SUFFICES ASSUME Locked, [Next]_vars PROVE Locked'
  OBVIOUS
<1>0. Typed /\ Typed' /\ TypeOK
  BY TypedStep DEF Locked, Typed
<1>1. CASE UNCHANGED vars
  BY <1>0, <1>1 DEF vars, Locked, Alive, Uses
<1>2. ASSUME NEW l \in Loaders, Start(l) PROVE Locked'
  <2>1. CASE locked = {} /\ Goes(l, "load") /\ locked' = {l} /\ UNCHANGED own
    <3>1. pc'[l] = "load" /\ \A v \in Loaders \ {l} : pc'[v] = "down"
      BY <1>0, <2>1, GoesTyped, OnlyOne DEF Starting
    <3> QED BY <1>0, <2>1, <3>1 DEF Locked, Alive, Uses, Loaded
  <2>2. CASE Ended(l)
    <3>1. pc[l] = "down" /\ locked' = locked \ {l} /\ UNCHANGED pins
      BY <1>2, <2>2 DEF Start, Ended
    <3> QED BY <1>0, <2>2, <3>1, EndedTyped DEF Locked, Alive, Uses, Loaded, pins
  <2> QED BY <1>2, <2>1, <2>2 DEF Start
<1>3. ASSUME NEW l \in Loaders, Step(l) PROVE Locked'
  <2>0. /\ Alive(l) /\ locked = {l} /\ \A v \in Loaders \ {l} : pc'[v] = "down"
        /\ Uses(l) /\ own[l] \in Maps
    BY <1>0, <1>3, StepFrame DEF Locked, TypeOK
  <2>1. ASSUME locked' = locked, Uses(l)' PROVE Locked'
    BY <1>0, <2>0, <2>1 DEF Locked, Alive, Uses, Loaded
  <2>2. CASE Load(l)
    <3>1. PICK new \in Inst :
            /\ own' = [own EXCEPT ![l] =
                         [open  |-> IF pinOpen  # None THEN pinOpen  ELSE new,
                          redir |-> IF pinRedir # None THEN pinRedir ELSE new]]
            /\ UNCHANGED <<pins, locked>>
      BY <2>2 DEF Load
    <3>2. own'[l] = [open  |-> IF pinOpen  # None THEN pinOpen  ELSE new,
                     redir |-> IF pinRedir # None THEN pinRedir ELSE new]
      BY <1>0, <3>1 DEF TypeOK
    <3> QED BY <2>1, <3>1, <3>2 DEF Uses, pins
  <2>3. CASE EnsureBackup(l)
    BY <2>0, <2>1, <2>3 DEF EnsureBackup, Uses, Loaded, pins
  <2>4. CASE AttachOrUpgrade(l)
    <3>1. CASE Ended(l)
      BY <1>0, <2>0, <3>1, EndedTyped DEF Locked, Alive, Uses, Loaded
    <3>2. CASE UNCHANGED <<own, locked>>
      BY <2>0, <2>1, <2>4, <3>2 DEF AttachOrUpgrade, Uses, Loaded, pins
    <3> QED BY <2>4, <3>1, <3>2 DEF AttachOrUpgrade
  <2>5. CASE PinOpenPorts(l)
    BY <2>0, <2>1, <2>5 DEF PinOpenPorts, Uses, Loaded
  <2>6. CASE PinRedirSocket(l)
    BY <2>0, <2>1, <2>6 DEF PinRedirSocket, Uses, Loaded
  <2>7. CASE RegisterHttp(l) \/ RegisterTls(l) \/ ReconcileAndServe(l)
    BY <2>0, <2>1, <2>7 DEF RegisterHttp, RegisterTls, ReconcileAndServe, Uses, Loaded, pins
  <2> QED BY <1>3, <2>2, <2>3, <2>4, <2>5, <2>6, <2>7 DEF Step
<1>4. ASSUME NEW l \in Loaders,
             Reload(l) \/ \E p \in Ports, slot \in Slots \cup {Closed} : Change(l, p, slot)
      PROVE  Locked'
  BY <1>0, <1>4 DEF Reload, Change, Locked, Alive, Uses, pins, procs
<1>5. ASSUME NEW l \in Loaders, Exit(l) PROVE Locked'
  <2>1. pc'[l] = "down" /\ \A v \in Loaders \ {l} : pc'[v] = "down"
    BY <1>0, <1>5, StepFrame, EndedTyped DEF Exit
  <2> QED BY <1>0, <2>1 DEF Locked, Alive, Uses, Loaded
<1>6. CASE BeginUnpin \/ BeginDetachPrimary \/ TearStep \/ KillTear
  <2>1. UNCHANGED procs /\ pinOpen' \in {pinOpen, None} /\ pinRedir' \in {pinRedir, None}
    BY <1>6 DEF BeginUnpin, BeginDetachPrimary, TearStep, DetachLink, RemoveLink, RemoveMapPin,
                KillTear, pins, procs
  <2> QED BY <1>0, <2>1 DEF Locked, Alive, Uses, procs
<1> QED BY <1>1, <1>2, <1>3, <1>4, <1>5, <1>6 DEF Next

\* One loader at a time, and what it uses is what is pinned, as long as the lock file
\* stays (main.rs acquire_loader_lock, load.rs, pin.rs ensure_maps_pinned).
THEOREM OwnerUsesPins == ASSUME RuntimeDirKept PROVE Spec => []OwnerHoldsPins
<1>1. Locked => OwnerHoldsPins
  BY DEF Locked, Uses, Loaded, OwnerHoldsPins
<1>2. Locked /\ [Next]_vars => Locked'
  BY LockedStep
<1> QED BY <1>1, <1>2, LockedInit, PTL DEF Spec

(***************************************************************************)
(* The maps.  A link that is attached uses the pinned open_ports, or one   *)
(* that nobody wrote to and that no loader is going to write to: the map   *)
(* of a start that was killed before it could pin it.                      *)
(***************************************************************************)

Early == {"backup", "primary", "pin"}
Late  == {"pin2", "http", "tls", "reconcile"}

\* What a loader may count on, at each point of its start and after it.
Counts(l) ==
  /\ pc[l] \in Starting => tear = NoTear
  /\ pc[l] \in Late => pinOpen = own[l].open
  /\ pc[l] \in Early /\ pinOpen = None => ports[own[l].open] = Nothing
  /\ pc[l] = "serving" /\ pinOpen # None => ports[pinOpen] = file

Orphan(i) ==
  ports[i] = Nothing /\ \A l \in Loaders : pc[l] \in Late \cup {"serving"} => own[l].open # i

Kept(k) == links[k].on => links[k].open = pinOpen \/ Orphan(links[k].open)

\* How far a teardown has come.
Torn ==
  /\ tear.link = "backup" => ~links["primary"].on
  /\ tear.at \in {"unpin", "remove"} => ~links[tear.link].on
  /\ tear.at \in {"open", "redir"} => \A k \in Links : ~links[k].on

Clean ==
  /\ Locked
  /\ \A l \in Loaders : Counts(l)
  /\ \A k \in Links : Kept(k)
  /\ Torn

LEMMA CleanInit == Init => Clean
<1> SUFFICES ASSUME Init PROVE Clean
  OBVIOUS
<1>1. \A k \in Links : ~links[k].on
  BY LinkFacts DEF Init
<1> QED BY <1>1, LockedInit DEF Init, Clean, Counts, Kept, Torn, NoTear, Starting, Early, Late

LEMMA NoTearTorn == ASSUME tear = NoTear PROVE Torn
  BY DEF Torn, NoTear

\* A step of the loader that runs: the others are down and count on nothing.
LEMMA LocalClean ==
  ASSUME Locked', NEW l \in Loaders, \A v \in Loaders \ {l} : pc'[v] = "down",
         Counts(l)', \A k \in Links : Kept(k)', Torn'
  PROVE  Clean'
<1>1. ASSUME NEW v \in Loaders \ {l} PROVE Counts(v)'
  BY DEF Counts, Starting, Early, Late
<1> QED BY <1>1 DEF Clean

LEMMA StepClean ==
  ASSUME Clean, Locked', NEW l \in Loaders, Step(l)
  PROVE  Clean'
<1>0. /\ TypeOK /\ Owns(l) /\ Uses(l) /\ own[l] \in Maps /\ None \notin Inst
      /\ Counts(l) /\ tear = NoTear /\ tear' = tear /\ Torn
      /\ pc[l] \in Starting
      /\ \A v \in Loaders \ {l} : pc[v] = "down" /\ pc'[v] = "down"
  <2>1. pc[l] \in Starting
    BY DEF Step, Load, EnsureBackup, AttachOrUpgrade, PinOpenPorts, PinRedirSocket, RegisterHttp,
           RegisterTls, ReconcileAndServe, Starting
  <2>2. tear' = tear /\ \A v \in Loaders \ {l} : pc[v] = "down" /\ pc'[v] = "down"
    BY StepFrame DEF Clean
  <2> QED BY <2>1, <2>2, DataplaneAssumption DEF Clean, Counts, Locked, Typed, TypeOK
<1>1. Torn'
  <2>1. tear' = NoTear
    BY <1>0
  <2> QED BY <2>1 DEF Torn, NoTear
<1>2. ASSUME Counts(l)', \A k \in Links : Kept(k)' PROVE Clean'
  BY <1>0, <1>1, <1>2, LocalClean
<1>3. ASSUME NEW k \in Links PROVE links[k].on => links[k].open \in Inst /\ Kept(k)
  BY <1>0 DEF TypeOK, Link, Clean
\* The contents of the map this loader owns change, the pins and links do not.
<1>4. ASSUME pc[l] \in Late, pc'[l] \in Late \cup {"serving"},
             UNCHANGED <<pins, links, own>>,
             NEW c, ports' = [ports EXCEPT ![own[l].open] = c],
             pc'[l] = "serving" => c = file /\ file' = file
      PROVE  Clean'
  <2>1. pinOpen = own[l].open /\ own[l].open \in Inst
    BY <1>0, <1>4 DEF Counts, Owns, Loaded, Late
  <2>2. ASSUME NEW k \in Links PROVE Kept(k)'
    BY <1>0, <1>3, <1>4, <2>1 DEF Kept, Orphan, Late, pins, TypeOK
  <2>3. Counts(l)'
    BY <1>0, <1>4, <2>1 DEF Counts, Early, Late, Starting, pins, TypeOK
  <2> QED BY <1>2, <2>2, <2>3
<1>5. ASSUME NEW new \in Inst \ Used, pc[l] = "load",
             own' = [own EXCEPT ![l] =
                       [open  |-> IF pinOpen  # None THEN pinOpen  ELSE new,
                        redir |-> IF pinRedir # None THEN pinRedir ELSE new]],
             ports' = [ports EXCEPT ![new] = Nothing],
             Goes(l, "backup"), UNCHANGED <<file, pins, links, locked, tear, kills>>
      PROVE  Clean'
  <2>1. own'[l].open = IF pinOpen # None THEN pinOpen ELSE new
    BY <1>0, <1>5 DEF TypeOK
  <2>2. pc'[l] = "backup"
    BY <1>0, <1>5, GoesTyped DEF Starting, Clean, Locked
  <2>3. Counts(l)'
    BY <1>0, <1>5, <2>1, <2>2 DEF Counts, Starting, Early, Late, pins, TypeOK
  <2>4. ASSUME NEW k \in Links PROVE Kept(k)'
    <3>1. links[k].open # new
      <4>1. {links[k].open, links[k].redir} \in {{links[v].open, links[v].redir} : v \in Links}
        OBVIOUS
      <4>2. links[k].open \in UNION {{links[v].open, links[v].redir} : v \in Links}
        BY <4>1
      <4> QED BY <1>5, <4>2 DEF Used
    <3>2. links[k].on => ports'[links[k].open] = ports[links[k].open]
      BY <1>0, <1>3, <1>5, <3>1 DEF TypeOK
    <3> QED BY <1>0, <1>3, <1>5, <2>2, <3>2 DEF Kept, Orphan, Late, pins
  <2> QED BY <1>2, <2>3, <2>4
\* One of the links is attached with the maps of this loader, before they are pinned.
<1>6. ASSUME pc[l] \in Early, pc'[l] \in Early, UNCHANGED <<pins, own, file, maps>>,
             \A k \in Links : links'[k] = links[k] \/ links'[k].open = own[l].open
      PROVE  Clean'
  <2>1. Counts(l)'
    BY <1>0, <1>6 DEF Counts, Starting, Early, Late, pins, maps
  <2>2. ASSUME NEW k \in Links PROVE Kept(k)'
    <3>1. CASE links'[k] = links[k]
      BY <1>0, <1>3, <1>6, <3>1 DEF Kept, Orphan, Early, Late, pins, maps
    <3>2. CASE links'[k].open = own[l].open
      <4>1. pinOpen \in {own[l].open, None}
        BY <1>0, <1>6 DEF Uses, Loaded, Early
      <4>2. CASE pinOpen = None
        BY <1>0, <1>6, <3>2, <4>2 DEF Kept, Orphan, Counts, Early, Late, pins, maps
      <4> QED BY <1>6, <3>2, <4>1, <4>2 DEF Kept, pins
    <3> QED BY <1>6, <3>1, <3>2
  <2> QED BY <1>2, <2>1, <2>2
<1>7. CASE EnsureBackup(l)
  <2>1. pc'[l] = "primary"
    BY <1>0, <1>7, GoesTyped DEF EnsureBackup, Starting, Clean, Locked
  <2>2. \A k \in Links : links'[k] = links[k] \/ links'[k].open = own[l].open
    BY <1>0, <1>7, LinkFacts DEF EnsureBackup, TypeOK, Links
  <2> QED BY <1>6, <1>7, <2>1, <2>2 DEF EnsureBackup, Early
<1>8. CASE AttachOrUpgrade(l)
  <2>1. CASE Ended(l) /\ UNCHANGED links
    <3>1. pc'[l] = "down"
      BY <2>1, EndedTyped DEF Clean, Locked
    <3>2. Counts(l)'
      BY <3>1 DEF Counts, Starting, Early, Late
    <3>3. \A k \in Links : Kept(k)'
      BY <1>0, <1>3, <1>8, <2>1, <3>1 DEF AttachOrUpgrade, Kept, Orphan, Late, pins, maps
    <3> QED BY <1>2, <3>2, <3>3
  <2>2. CASE /\ links' = [links EXCEPT !["primary"] = Attached(own[l])]
             /\ Goes(l, "pin") /\ UNCHANGED <<own, locked>>
    <3>1. pc'[l] = "pin"
      BY <2>2, GoesTyped DEF Starting, Clean, Locked
    <3>2. \A k \in Links : links'[k] = links[k] \/ links'[k].open = own[l].open
      BY <1>0, <2>2, LinkFacts DEF TypeOK, Links
    <3> QED BY <1>6, <1>8, <2>2, <3>1, <3>2 DEF AttachOrUpgrade, Early
  <2> QED BY <1>8, <2>1, <2>2 DEF AttachOrUpgrade
<1>9. CASE PinOpenPorts(l)
  <2>1. /\ pc[l] = "pin" /\ pc'[l] = "pin2" /\ UNCHANGED <<file, ports, links, own>>
        /\ pinOpen' = own[l].open /\ pinOpen \in {own[l].open, None}
    BY <1>0, <1>9, GoesTyped DEF PinOpenPorts, Starting, Clean, Locked, Uses, Loaded, maps
  <2>2. Counts(l)'
    BY <1>0, <2>1 DEF Counts, Starting, Early, Late
  <2>3. ASSUME NEW k \in Links PROVE Kept(k)'
    BY <1>0, <1>3, <2>1 DEF Kept, Orphan, Late
  <2> QED BY <1>2, <2>2, <2>3
<1>10. CASE PinRedirSocket(l)
  <2>1. /\ pc[l] = "pin2" /\ pc'[l] = "http" /\ UNCHANGED <<file, ports, links, own, pinOpen>>
    BY <1>0, <1>10, GoesTyped DEF PinRedirSocket, Starting, Clean, Locked, maps
  <2>2. Counts(l)'
    BY <1>0, <2>1 DEF Counts, Starting, Early, Late
  <2>3. ASSUME NEW k \in Links PROVE Kept(k)'
    BY <1>0, <1>3, <2>1 DEF Kept, Orphan, Late
  <2> QED BY <1>2, <2>2, <2>3
<1>11. CASE RegisterHttp(l)
  <2>1. pc'[l] = "tls"
    BY <1>11, GoesTyped DEF RegisterHttp, Starting, Clean, Locked
  <2> QED BY <1>4, <1>11, <2>1 DEF RegisterHttp, Register, Late
<1>12. CASE RegisterTls(l)
  <2>1. pc'[l] = "reconcile"
    BY <1>12, GoesTyped DEF RegisterTls, Starting, Clean, Locked
  <2>2. CASE Register(l, "tls")
    BY <1>4, <1>12, <2>1, <2>2 DEF RegisterTls, Register, Late
  <2>3. CASE UNCHANGED maps
    <3>1. ports' = [ports EXCEPT ![own[l].open] = ports[own[l].open]]
      BY <1>0, <2>3 DEF maps, TypeOK
    <3> QED BY <1>4, <1>12, <2>1, <3>1 DEF RegisterTls, Late
  <2> QED BY <1>12, <2>2, <2>3 DEF RegisterTls
<1>13. CASE ReconcileAndServe(l)
  <2>1. pc'[l] = "serving"
    BY <1>13, GoesTyped DEF ReconcileAndServe, Clean, Locked
  <2>2. pc[l] \in Late /\ ports' = [ports EXCEPT ![own[l].open] = file]
        /\ UNCHANGED <<file, pins, links, own>>
    BY <1>13 DEF ReconcileAndServe, Late
  <2> QED BY <1>4, <2>1, <2>2
<1> QED BY <1>5, <1>7, <1>8, <1>9, <1>10, <1>11, <1>12, <1>13 DEF Step, Load

LEMMA ServeClean ==
  ASSUME RuntimeDirKept, UnpinAlone, Clean, Locked', NEW l \in Loaders,
         \/ Start(l) \/ Reload(l) \/ Exit(l)
         \/ \E p \in Ports, slot \in Slots \cup {Closed} : Change(l, p, slot)
  PROVE  Clean'
<1>0. TypeOK /\ Typed /\ None \notin Inst /\ Counts(l) /\ Uses(l) /\ Owns(l) /\ Torn
  BY DataplaneAssumption DEF Clean, Locked, Typed
<1>1. ASSUME NEW k \in Links PROVE links[k].on => links[k].open \in Inst /\ Kept(k)
  BY <1>0 DEF TypeOK, Link, Clean
<1>2. CASE Start(l)
  <2>1. tear = NoTear /\ UNCHANGED <<file, maps, pins, links, tear>> /\ pc[l] = "down"
    BY <1>2 DEF Start
  <2>2. pc'[l] \in {"load", "down"} /\ \A v \in Loaders \ {l} : pc'[v] = pc[v] /\ own'[v] = own[v]
    <3>1. CASE Ended(l)
      BY <1>0, <3>1, EndedTyped
    <3>2. CASE Goes(l, "load") /\ UNCHANGED own
      BY <1>0, <3>2, GoesTyped DEF Starting
    <3> QED BY <1>2, <3>1, <3>2 DEF Start
  <2>3. ASSUME NEW v \in Loaders PROVE Counts(v)'
    BY <2>1, <2>2 DEF Clean, Counts, Early, Late, Starting, maps, pins
  <2>4. ASSUME NEW k \in Links PROVE Kept(k)'
    BY <1>1, <2>1, <2>2 DEF Kept, Orphan, Late, maps, pins
  <2> QED BY <1>0, <2>1, <2>3, <2>4 DEF Clean, Torn
<1>3. CASE Exit(l)
  <2>1. /\ UNCHANGED <<file, maps, pins, links, tear>> /\ pc'[l] = "down"
        /\ \A v \in Loaders \ {l} : pc'[v] = "down"
    BY <1>0, <1>3, StepFrame, EndedTyped DEF Exit, Clean
  <2>2. Counts(l)'
    BY <2>1 DEF Counts, Starting, Early, Late
  <2>3. ASSUME NEW k \in Links PROVE Kept(k)'
    BY <1>1, <2>1 DEF Kept, Orphan, Late, maps, pins
  <2>4. Torn'
    BY <1>0, <2>1 DEF Torn
  <2> QED BY <2>1, <2>2, <2>3, <2>4, LocalClean
<1>4. ASSUME pc[l] = "serving", UNCHANGED <<pins, links, procs, tear>>,
             NEW c, ports' = [ports EXCEPT ![own[l].open] = c],
             pinOpen # None => c = file'
      PROVE  Clean'
  <2>1. pinOpen \in {own[l].open, None} /\ own[l].open \in Inst
    BY <1>0, <1>4 DEF Uses, Owns, Loaded
  <2>2. Counts(l)'
    BY <1>0, <1>4, <2>1 DEF Counts, Starting, Early, Late, pins, procs, TypeOK
  <2>3. ASSUME NEW k \in Links PROVE Kept(k)'
    BY <1>0, <1>1, <1>4, <2>1 DEF Kept, Orphan, Late, pins, procs, TypeOK
  <2>4. Torn'
    BY <1>0, <1>4 DEF Torn
  <2>5. \A v \in Loaders \ {l} : pc'[v] = "down"
    BY <1>4, OnlyOne DEF Clean, Alive, procs
  <2> QED BY <2>2, <2>3, <2>4, <2>5, LocalClean
<1>5. CASE Reload(l)
  BY <1>4, <1>5 DEF Reload
<1>6. ASSUME NEW p \in Ports, NEW slot \in Slots \cup {Closed}, Change(l, p, slot) PROVE Clean'
  <2>1. pc[l] = "serving" /\ pinOpen = own[l].open /\ pinOpen # None /\ pinOpen \in Inst
    BY <1>0, <1>6 DEF Change, Uses, Owns, Loaded
  <2>2. ports' = [ports EXCEPT ![pinOpen] = [ports[pinOpen] EXCEPT ![p] = slot]]
    BY <1>0, <1>6, <2>1 DEF Change, TypeOK
  <2>3. ports[pinOpen] = file /\ file' = [file EXCEPT ![p] = slot]
    BY <1>0, <1>6, <2>1 DEF Counts, Change
  <2> QED BY <1>4, <1>6, <2>1, <2>2, <2>3 DEF Change
<1> QED BY <1>2, <1>3, <1>5, <1>6

LEMMA TearClean ==
  ASSUME UnpinAlone, Clean, Locked', BeginUnpin \/ BeginDetachPrimary \/ TearStep \/ KillTear
  PROVE  Clean'
<1>0. TypeOK /\ Torn /\ tear \in Tear /\ tear.link \in Links /\ UNCHANGED <<file, maps, procs>>
  BY DEF Clean, Locked, Typed, TypeOK, Tear, BeginUnpin, BeginDetachPrimary, TearStep, DetachLink,
         RemoveLink, RemoveMapPin, KillTear
<1>1. ASSUME NEW k \in Links PROVE (links[k].on => links[k].pin) /\ Kept(k)
  BY <1>0 DEF TypeOK, Clean
\* No loader starts beside a teardown.
<1>2. \A l \in Loaders : pc[l] \notin Starting
  <2>1. CASE tear # NoTear
    BY <2>1 DEF Clean, Counts
  <2>2. CASE tear = NoTear
    BY <2>2 DEF BeginUnpin, BeginDetachPrimary, TearStep, DetachLink, RemoveLink, RemoveMapPin,
                KillTear, MayTear, NoTear
  <2> QED BY <2>1, <2>2
<1>3. ASSUME pinOpen' \in {pinOpen, None} PROVE \A l \in Loaders : Counts(l)'
  BY <1>0, <1>2, <1>3 DEF Clean, Counts, Starting, Early, Late, maps, procs
\* Links are detached, the pins of the maps stay.
<1>4. ASSUME UNCHANGED pins, Torn', \A k \in Links : links'[k] = links[k] \/ ~links'[k].on
      PROVE  Clean'
  <2>1. ASSUME NEW k \in Links PROVE Kept(k)'
    BY <1>0, <1>1, <1>4 DEF Kept, Orphan, maps, pins, procs
  <2>2. \A l \in Loaders : Counts(l)'
    BY <1>3, <1>4 DEF pins
  <2> QED BY <1>4, <2>1, <2>2 DEF Clean
<1>5. CASE BeginUnpin \/ BeginDetachPrimary
  <2>1. tear'.link = "primary" /\ tear'.at = "detach" /\ UNCHANGED <<pins, links>>
    BY <1>5 DEF BeginUnpin, BeginDetachPrimary
  <2> QED BY <1>4, <2>1 DEF Torn
<1>6. CASE KillTear
  <2>1. tear' = NoTear /\ UNCHANGED <<pins, links>>
    BY <1>6 DEF KillTear
  <2> QED BY <1>4, <2>1 DEF Torn, NoTear
\* Going on after a link that is detached.
<1>7. ASSUME ~links[tear.link].on, tear' = NextLink,
             \A k \in Links : links'[k] = links[k] \/ ~links'[k].on
      PROVE  Torn'
  <2>1. CASE tear' = NoTear
    BY <2>1 DEF Torn, NoTear
  <2>2. CASE tear.link = "primary" /\ tear' = [tear EXCEPT !.link = "backup", !.at = "detach"]
    <3>1. tear'.link = "backup" /\ tear'.at = "detach"
      BY <1>0, <2>2 DEF Tear
    <3> QED BY <1>7, <2>2, <3>1 DEF Torn, Links
  <2>3. CASE tear.link # "primary" /\ tear' = [tear EXCEPT !.at = "open"]
    <3>1. tear'.at = "open" /\ tear'.link = tear.link /\ tear.link = "backup"
      BY <1>0, <2>3 DEF Tear, Links
    <3> QED BY <1>0, <1>7, <3>1 DEF Torn, Links
  <2> QED BY <1>7, <2>1, <2>2, <2>3 DEF NextLink
<1>8. CASE DetachLink
  <2>1. CASE ~links[tear.link].pin /\ tear' = NextLink /\ UNCHANGED links
    BY <1>0, <1>1, <1>4, <1>7, <1>8, <2>1 DEF DetachLink
  <2>2. CASE /\ links' = [links EXCEPT ![tear.link] = Dead]
             /\ tear'  = [tear EXCEPT !.at = "unpin"]
    <3>1. tear'.at = "unpin" /\ tear'.link = tear.link
      BY <1>0, <2>2 DEF Tear
    <3>2. /\ ~links'[tear.link].on
          /\ \A k \in Links : links'[k] = links[k] \/ ~links'[k].on
      BY <1>0, <2>2, LinkFacts DEF TypeOK
    <3>3. Torn'
      BY <1>0, <3>1, <3>2 DEF Torn, Links
    <3> QED BY <1>4, <1>8, <3>2, <3>3 DEF DetachLink
  <2> QED BY <1>8, <2>1, <2>2 DEF DetachLink
<1>9. CASE RemoveLink
  <2>1. /\ ~links[tear.link].on /\ ~links'[tear.link].on
        /\ \A k \in Links : links'[k] = links[k] \/ ~links'[k].on
    BY <1>0, <1>9, LinkFacts DEF RemoveLink, Torn, TypeOK
  <2>2. CASE tear' = NextLink
    BY <1>4, <1>7, <1>9, <2>1, <2>2 DEF RemoveLink
  <2>3. CASE tear' = [tear EXCEPT !.at = "remove"]
    <3>1. tear'.at = "remove" /\ tear'.link = tear.link
      BY <1>0, <2>3 DEF Tear
    <3>2. Torn'
      BY <1>0, <2>1, <3>1 DEF Torn, Links
    <3> QED BY <1>4, <1>9, <2>1, <3>2 DEF RemoveLink
  <2> QED BY <1>9, <2>2, <2>3 DEF RemoveLink
<1>10. CASE RemoveMapPin
  <2>1. /\ \A k \in Links : ~links'[k].on
        /\ pinOpen' \in {pinOpen, None}
    BY <1>0, <1>10 DEF RemoveMapPin, Torn
  <2>2. tear'.at \in {"redir", "idle"}
    BY <1>0, <1>10 DEF RemoveMapPin, Tear, NoTear
  <2>3. Torn' /\ \A k \in Links : Kept(k)'
    BY <2>1, <2>2 DEF Kept, Torn, Links
  <2> QED BY <1>3, <2>1, <2>3 DEF Clean
<1> QED BY <1>5, <1>6, <1>8, <1>9, <1>10 DEF TearStep

LEMMA CleanStep ==
  ASSUME RuntimeDirKept, UnpinAlone
  PROVE  Clean /\ [Next]_vars => Clean'
<1> SUFFICES ASSUME Clean, [Next]_vars PROVE Clean'
  OBVIOUS
<1>0. Locked'
  BY LockedStep DEF Clean
<1>1. CASE UNCHANGED vars
  BY <1>0, <1>1 DEF vars, Clean, Counts, Kept, Orphan, Torn
<1>2. CASE Next
  BY <1>0, <1>2, StepClean, ServeClean, TearClean DEF Next
<1> QED BY <1>1, <1>2

\* While a loader serves and can be reached, no program takes a port that is not
\* desired from the stack, whatever was killed before, as long as the lock file stays
\* and nobody tears down beside a start (load.rs ensure_backup_sk_lookup, pin.rs).
THEOREM ClosedIsPassed ==
  ASSUME RuntimeDirKept, UnpinAlone PROVE Spec => []ClosedStaysClosed
<1>1. ASSUME Clean, NEW l \in Loaders, NEW p \in Ports,
             pc[l] = "serving", pinOpen # None, file[p] = Closed
      PROVE  Verdict(p) = "pass"
  <2>0. TypeOK /\ Closed \notin Slots /\ pinOpen \in Inst
    BY <1>1 DEF Clean, Locked, Typed, TypeOK, Closed, Slots
  <2>1. ASSUME NEW k \in Links, links[k].on PROVE ~Selects(k, p) /\ ~Drops(k, p)
    <3>1. links[k].open \in Inst /\ links[k].redir \in Inst
      BY <2>0, <2>1 DEF TypeOK, Link
    <3>2. ports[links[k].open][p] = Closed
      BY <1>1, <2>0, <2>1, <3>1 DEF Clean, Counts, Kept, Orphan, Nothing
    <3>3. Closed \notin slots[links[k].redir]
      BY <2>0, <3>1 DEF TypeOK
    <3> QED BY <3>2, <3>3 DEF Selects, Drops
  <2> QED BY <2>1 DEF Verdict, Selects, Drops
<1>2. Clean => ClosedStaysClosed
  BY <1>1 DEF ClosedStaysClosed
<1>3. Clean /\ [Next]_vars => Clean'
  BY CleanStep
<1> QED BY <1>2, <1>3, CleanInit, PTL DEF Spec

(***************************************************************************)
(* The steering.  The primary link follows the pins, the pinned map names  *)
(* only ports that are desired, and a listen is in its slot before the map *)
(* sends a port there.                                                     *)
(***************************************************************************)

\* From its upgrade on, the primary link is that of the loader; the listens are in the
\* slots of the pinned redir_socket before the map names a port of them.
Leads(l) ==
  /\ pc[l] \in {"pin", "pin2", "http", "tls", "reconcile"} => links["primary"] = Attached(own[l])
  /\ pc[l] \in {"http", "tls", "reconcile"} => pinRedir = own[l].redir
  /\ pc[l] = "serving" /\ pinOpen # None => pinRedir # None
  /\ pc[l] \in {"tls", "reconcile", "serving"} => "primary" \in slots[own[l].redir]

Desires == pinOpen # None => \A p \in Ports : ports[pinOpen][p] \in {Closed, file[p]}

Joined ==
  pinOpen # None /\ ports[pinOpen] # Nothing =>
    /\ pinRedir # None
    /\ \A p \in Ports : ports[pinOpen][p] = "primary" => "primary" \in slots[pinRedir]

Follows ==
  links["primary"].on =>
    /\ pinOpen  \in {None, links["primary"].open}
    /\ pinRedir \in {None, links["primary"].redir}

\* unpin removes the pin of open_ports first, and only unpin removes map pins.
Ordered ==
  /\ tear.at = "redir" => pinOpen = None
  /\ tear.op = "none" => tear.at = "idle"
  /\ tear.op = "detach" => tear.link = "primary"

Steers ==
  /\ Clean
  /\ Desires /\ Joined /\ Follows /\ Ordered
  /\ \A l \in Loaders : Leads(l)

LEMMA SteersInit == Init => Steers
<1> SUFFICES ASSUME Init PROVE Steers
  OBVIOUS
<1>1. ~links["primary"].on
  BY LinkFacts DEF Init, Links
<1> QED BY <1>1, CleanInit, TearFacts DEF Init, Steers, Desires, Joined, Follows, Ordered, Leads

\* A step of one loader: the others are down and lead nothing.
LEMMA LocalSteers ==
  ASSUME Clean', NEW l \in Loaders, \A v \in Loaders \ {l} : pc'[v] = "down",
         Desires', Joined', Follows', Ordered', Leads(l)'
  PROVE  Steers'
<1>1. ASSUME NEW v \in Loaders \ {l} PROVE Leads(v)'
  BY DEF Leads
<1> QED BY <1>1 DEF Steers

\* The pinned map is written after the listen is in its slot.
LEMMA WrittenSteers ==
  ASSUME Steers, UNCHANGED <<pins, links, tear>>,
         pinOpen # None => /\ pinRedir # None /\ "primary" \in slots'[pinRedir]
                           /\ \A p \in Ports : ports'[pinOpen][p] \in {Closed, file'[p]}
  PROVE  Desires' /\ Joined' /\ Follows' /\ Ordered'
  BY DEF Steers, Desires, Joined, Follows, Ordered, pins

LEMMA StepSteers ==
  ASSUME Steers, Clean', NEW l \in Loaders, Step(l)
  PROVE  Steers'
<1>0. /\ Typed /\ TypeOK /\ Owns(l) /\ Uses(l) /\ own[l] \in Maps /\ None \notin Inst
      /\ Counts(l) /\ Leads(l) /\ tear' = tear
      /\ \A v \in Loaders \ {l} : pc'[v] = "down"
  BY StepFrame, DataplaneAssumption DEF Steers, Clean, Locked, Typed, TypeOK
<1>1. ASSUME Desires', Joined', Follows', Leads(l)' PROVE Steers'
  <2>1. pinOpen = None => pinOpen' = None \/ tear.at # "redir"
    <3>1. pc[l] \in Starting
      BY DEF Step, Load, EnsureBackup, AttachOrUpgrade, PinOpenPorts, PinRedirSocket, RegisterHttp,
             RegisterTls, ReconcileAndServe, Starting
    <3> QED BY <1>0, <3>1, TearFacts DEF Counts
  <2>2. Ordered'
    BY <1>0, <2>1 DEF Steers, Ordered
  <2> QED BY <1>0, <1>1, <2>2, LocalSteers
<1>2. ASSUME NEW new \in Inst \ Used, ports' = [ports EXCEPT ![new] = Nothing],
             slots' = [slots EXCEPT ![new] = {}],
             Goes(l, "backup"), UNCHANGED <<file, pins, links, locked, tear, kills>>
      PROVE  Steers'
  <2>1. pc'[l] = "backup"
    BY <1>0, <1>2, GoesTyped DEF Starting
  <2>2. pinOpen # new /\ pinRedir # new
    BY <1>2 DEF Used
  <2>3. /\ pinOpen  # None => ports'[pinOpen] = ports[pinOpen]
        /\ pinRedir # None => slots'[pinRedir] = slots[pinRedir]
    BY <1>0, <1>2, <2>2 DEF TypeOK
  <2>4. Desires' /\ Joined' /\ Follows'
    BY <1>2, <2>3 DEF Steers, Desires, Joined, Follows, pins
  <2>5. Leads(l)'
    BY <2>1 DEF Leads
  <2> QED BY <1>1, <2>4, <2>5
<1>3. CASE EnsureBackup(l)
  <2>1. pc'[l] = "primary" /\ UNCHANGED <<file, maps, pins>>
    BY <1>0, <1>3, GoesTyped DEF EnsureBackup, Starting
  <2>2. links'["primary"] = links["primary"]
    BY <1>0, <1>3 DEF EnsureBackup, TypeOK, Links
  <2>3. Desires' /\ Joined' /\ Follows' /\ Leads(l)'
    BY <2>1, <2>2 DEF Steers, Desires, Joined, Follows, Leads, maps, pins
  <2> QED BY <1>1, <2>3
<1>4. CASE AttachOrUpgrade(l)
  <2>0. UNCHANGED <<file, maps, pins>> /\ pc[l] = "primary"
    BY <1>4 DEF AttachOrUpgrade
  <2>1. CASE Ended(l) /\ UNCHANGED links
    <3>1. pc'[l] = "down"
      BY <1>0, <2>1, EndedTyped
    <3>2. Desires' /\ Joined' /\ Follows' /\ Leads(l)'
      BY <2>0, <2>1, <3>1 DEF Steers, Desires, Joined, Follows, Leads, maps, pins
    <3> QED BY <1>1, <3>2
  <2>2. CASE /\ links' = [links EXCEPT !["primary"] = Attached(own[l])]
             /\ Goes(l, "pin") /\ UNCHANGED <<own, locked>>
    <3>1. pc'[l] = "pin" /\ links'["primary"] = Attached(own[l])
      BY <1>0, <2>2, GoesTyped DEF TypeOK, Links, Starting
    <3>2. Follows'
      BY <1>0, <2>0, <3>1, LinkFacts DEF Follows, Uses, Loaded, pins
    <3>3. Desires' /\ Joined' /\ Leads(l)'
      BY <2>0, <2>2, <3>1 DEF Steers, Desires, Joined, Leads, maps, pins
    <3> QED BY <1>1, <3>2, <3>3
  <2> QED BY <1>4, <2>1, <2>2 DEF AttachOrUpgrade
<1>5. CASE PinOpenPorts(l)
  <2>1. /\ pc[l] = "pin" /\ pc'[l] = "pin2" /\ UNCHANGED <<file, maps, pinRedir, links, own>>
        /\ pinOpen' = IF pinOpen = None THEN own[l].open ELSE pinOpen
    BY <1>0, <1>5, GoesTyped DEF PinOpenPorts, Starting
  <2>2. links["primary"] = Attached(own[l]) /\ pinOpen \in {own[l].open, None}
    BY <1>0, <2>1 DEF Leads, Uses, Loaded
  <2>3. Follows' /\ Leads(l)'
    BY <1>0, <2>1, <2>2, LinkFacts DEF Steers, Follows, Leads
  <2>4. Desires' /\ Joined'
    <3>1. CASE pinOpen = None
      <4>1. ports'[pinOpen'] = Nothing
        BY <1>0, <2>1, <3>1 DEF Counts, Early, maps
      <4> QED BY <4>1 DEF Desires, Joined, Nothing
    <3>2. CASE pinOpen # None
      BY <2>1, <3>2 DEF Steers, Desires, Joined, maps
    <3> QED BY <3>1, <3>2
  <2> QED BY <1>1, <2>3, <2>4
<1>6. CASE PinRedirSocket(l)
  <2>1. /\ pc[l] = "pin2" /\ pc'[l] = "http" /\ UNCHANGED <<file, maps, pinOpen, links, own>>
        /\ pinRedir' = IF pinRedir = None THEN own[l].redir ELSE pinRedir
    BY <1>0, <1>6, GoesTyped DEF PinRedirSocket, Starting
  <2>2. links["primary"] = Attached(own[l]) /\ pinRedir' = own[l].redir
    BY <1>0, <2>1 DEF Leads, Uses, Loaded
  <2>3. Follows' /\ Leads(l)'
    BY <1>0, <2>1, <2>2, LinkFacts DEF Steers, Follows, Leads
  <2>4. Desires' /\ Joined'
    BY <2>1 DEF Steers, Desires, Joined, maps
  <2> QED BY <1>1, <2>3, <2>4
\* The contents of the map this loader owns change, the pins and links do not.
<1>7. ASSUME pc[l] \in {"http", "tls", "reconcile"}, pc'[l] \in {"tls", "reconcile", "serving"},
             UNCHANGED <<file, pins, links, own, tear>>, "primary" \in slots'[own[l].redir],
             \A p \in Ports : ports'[own[l].open][p] \in {Closed, file[p]}
      PROVE  Steers'
  <2>1. /\ pinOpen = own[l].open /\ pinRedir = own[l].redir /\ pinRedir # None
        /\ links["primary"] = Attached(own[l])
    BY <1>0, <1>7 DEF Counts, Leads, Owns, Loaded, Late
  <2>2. Desires' /\ Joined' /\ Follows'
    BY <1>7, <2>1, WrittenSteers
  <2>3. Leads(l)'
    BY <1>7, <2>1 DEF Leads, pins
  <2> QED BY <1>1, <2>2, <2>3
<1>8. ASSUME NEW slot \in Slots, Register(l, slot), pc[l] \in {"http", "tls"}
      PROVE  /\ slots'[own[l].redir] = slots[own[l].redir] \cup {slot}
             /\ \A p \in Ports : ports'[own[l].open][p] \in {Closed, file[p]}
  <2>1. own[l].open \in Inst /\ own[l].redir \in Inst /\ pinOpen = own[l].open
    BY <1>0, <1>8 DEF Counts, Owns, Loaded, Late
  <2>2. slots'[own[l].redir] = slots[own[l].redir] \cup {slot}
    BY <1>0, <1>8, <2>1 DEF Register, TypeOK
  <2>3. ports'[own[l].open] = [p \in Ports |-> IF p \in Of(slot) THEN slot ELSE ports[own[l].open][p]]
    BY <1>0, <1>8, <2>1 DEF Register, TypeOK
  <2>4. \A p \in Ports : ports[own[l].open][p] \in {Closed, file[p]}
    BY <1>0, <2>1 DEF Steers, Desires
  <2> QED BY <2>2, <2>3, <2>4 DEF Of
<1>9. CASE RegisterHttp(l)
  <2>1. pc[l] = "http" /\ pc'[l] = "tls"
    BY <1>0, <1>9, GoesTyped DEF RegisterHttp, Starting
  <2> QED BY <1>7, <1>8, <1>9, <2>1 DEF RegisterHttp, Slots
<1>10. CASE RegisterTls(l)
  <2>1. pc[l] = "tls" /\ pc'[l] = "reconcile" /\ "primary" \in slots[own[l].redir]
    BY <1>0, <1>10, GoesTyped DEF RegisterTls, Starting, Leads
  <2>2. CASE Register(l, "tls")
    BY <1>7, <1>8, <1>10, <2>1, <2>2 DEF RegisterTls, Slots
  <2>3. CASE UNCHANGED maps
    <3>1. pinOpen = own[l].open /\ pinOpen # None
      BY <1>0, <2>1 DEF Counts, Owns, Loaded, Late
    <3>2. \A p \in Ports : ports'[own[l].open][p] \in {Closed, file[p]}
      BY <2>3, <3>1 DEF Steers, Desires, maps
    <3> QED BY <1>7, <1>10, <2>1, <2>3, <3>2 DEF RegisterTls, maps
  <2> QED BY <1>10, <2>2, <2>3 DEF RegisterTls
<1>11. CASE ReconcileAndServe(l)
  <2>1. pc[l] = "reconcile" /\ pc'[l] = "serving" /\ "primary" \in slots[own[l].redir]
    BY <1>0, <1>11, GoesTyped DEF ReconcileAndServe, Leads
  <2>2. ports'[own[l].open] = file
    BY <1>0, <1>11, <2>1 DEF ReconcileAndServe, Owns, Loaded, TypeOK
  <2> QED BY <1>7, <1>11, <2>1, <2>2 DEF ReconcileAndServe
<1> QED BY <1>2, <1>3, <1>4, <1>5, <1>6, <1>9, <1>10, <1>11 DEF Step, Load

LEMMA ServeSteers ==
  ASSUME UnpinAlone, Steers, Clean', NEW l \in Loaders,
         \/ Start(l) \/ Reload(l) \/ Exit(l)
         \/ \E p \in Ports, slot \in Slots \cup {Closed} : Change(l, p, slot)
  PROVE  Steers'
<1>0. /\ Typed /\ TypeOK /\ Owns(l) /\ Uses(l) /\ None \notin Inst /\ Counts(l) /\ Leads(l)
  BY DataplaneAssumption DEF Steers, Clean, Locked, Typed
\* A process begins or ends.
<1>1. ASSUME UNCHANGED <<file, maps, pins, links, tear>>, pc'[l] \in {"load", "down"},
             \A v \in Loaders \ {l} : pc'[v] = pc[v] /\ own'[v] = own[v]
      PROVE  Steers'
  <2>1. \A v \in Loaders : Leads(v)'
    BY <1>1 DEF Steers, Leads, maps, pins
  <2> QED BY <1>1, <2>1 DEF Steers, Desires, Joined, Follows, Ordered, maps, pins
<1>2. CASE Start(l)
  <2>1. CASE Ended(l)
    BY <1>0, <1>1, <1>2, <2>1, EndedTyped DEF Start
  <2>2. CASE Goes(l, "load") /\ UNCHANGED own
    BY <1>0, <1>1, <1>2, <2>2, GoesTyped DEF Start, Starting
  <2> QED BY <1>2, <2>1, <2>2 DEF Start
<1>3. CASE Exit(l)
  BY <1>0, <1>1, <1>3, EndedTyped DEF Exit
<1>4. ASSUME pc[l] = "serving", UNCHANGED <<slots, pins, links, procs, tear>>,
             pinOpen # None => \A p \in Ports : ports'[pinOpen][p] \in {Closed, file'[p]}
      PROVE  Steers'
  <2>1. pinOpen # None => pinRedir # None /\ "primary" \in slots'[pinRedir]
    BY <1>0, <1>4 DEF Leads, Uses, Loaded
  <2>2. Desires' /\ Joined' /\ Follows' /\ Ordered'
    BY <1>4, <2>1, WrittenSteers
  <2>3. \A v \in Loaders : Leads(v)'
    BY <1>4 DEF Steers, Leads, pins, procs
  <2> QED BY <2>2, <2>3 DEF Steers
<1>5. CASE Reload(l)
  <2>1. own[l].open \in Inst /\ pinOpen \in {own[l].open, None} /\ pc[l] = "serving"
    BY <1>0, <1>5 DEF Reload, Owns, Uses, Loaded
  <2>2. ports'[own[l].open] = file
    BY <1>0, <1>5, <2>1 DEF Reload, TypeOK
  <2> QED BY <1>4, <1>5, <2>1, <2>2 DEF Reload
<1>6. ASSUME NEW p \in Ports, NEW slot \in Slots \cup {Closed}, Change(l, p, slot) PROVE Steers'
  <2>1. pc[l] = "serving" /\ pinOpen # None /\ pinOpen \in Inst /\ ports[pinOpen] = file
    BY <1>0, <1>6 DEF Change, Counts, TypeOK
  <2>2. ports'[pinOpen] = [file EXCEPT ![p] = slot] /\ file' = [file EXCEPT ![p] = slot]
    BY <1>0, <1>6, <2>1 DEF Change, TypeOK
  <2> QED BY <1>4, <1>6, <2>1, <2>2 DEF Change
<1> QED BY <1>2, <1>3, <1>5, <1>6

LEMMA TearSteers ==
  ASSUME UnpinAlone, Steers, Clean', BeginUnpin \/ BeginDetachPrimary \/ TearStep \/ KillTear
  PROVE  Steers'
<1>0. /\ Typed /\ TypeOK /\ Torn /\ Ordered /\ tear \in Tear /\ tear.link \in Links
      /\ UNCHANGED <<file, maps, procs>>
  BY DEF Steers, Clean, Locked, Typed, TypeOK, Tear, BeginUnpin, BeginDetachPrimary, TearStep,
         DetachLink, RemoveLink, RemoveMapPin, KillTear
\* No loader starts beside a teardown.
<1>1. \A l \in Loaders : pc[l] \notin Starting
  <2>1. CASE tear # NoTear
    BY <2>1 DEF Steers, Clean, Counts
  <2>2. CASE tear = NoTear
    BY <2>2 DEF BeginUnpin, BeginDetachPrimary, TearStep, DetachLink, RemoveLink, RemoveMapPin,
                KillTear, MayTear, NoTear
  <2> QED BY <2>1, <2>2
\* Links are detached, the pins of the maps stay.
<1>2. ASSUME UNCHANGED pins, Ordered',
             links'["primary"] = links["primary"] \/ ~links'["primary"].on
      PROVE  Steers'
  <2>1. \A l \in Loaders : Leads(l)'
    BY <1>0, <1>1, <1>2 DEF Steers, Leads, Starting, pins, maps, procs
  <2> QED BY <1>0, <1>2, <2>1 DEF Steers, Desires, Joined, Follows, pins, maps
<1>3. CASE BeginUnpin \/ BeginDetachPrimary
  <2>1. tear'.link = "primary" /\ tear'.at = "detach" /\ tear'.op # "none" /\ UNCHANGED <<pins, links>>
    BY <1>3 DEF BeginUnpin, BeginDetachPrimary
  <2> QED BY <1>2, <2>1 DEF Ordered
<1>4. CASE KillTear
  BY <1>2, <1>4, TearFacts DEF KillTear, Ordered
<1>5. ASSUME tear.at # "idle" PROVE tear.op \in {"unpin", "detach"}
  BY <1>0, <1>5 DEF Ordered, Tear
<1>6. ASSUME tear' = NextLink, tear.at # "idle", UNCHANGED pins PROVE Ordered'
  <2>1. CASE tear' = NoTear
    BY <2>1, TearFacts DEF Ordered
  <2>2. CASE tear.op # "detach" /\ tear'.op = tear.op /\ tear'.at \in {"detach", "open"}
    BY <1>5, <1>6, <2>2 DEF Ordered
  <2> QED BY <1>0, <1>6, <2>1, <2>2 DEF NextLink, Tear
<1>7. ASSUME NEW at \in {"unpin", "remove"}, tear' = [tear EXCEPT !.at = at], tear.at # "idle"
      PROVE  Ordered'
  <2>1. tear'.at = at /\ tear'.op = tear.op /\ tear'.link = tear.link
    BY <1>0, <1>7 DEF Tear
  <2> QED BY <1>0, <1>5, <1>7, <2>1 DEF Ordered
<1>8. CASE DetachLink
  <2>1. links'["primary"] = links["primary"] \/ ~links'["primary"].on
    BY <1>0, <1>8, LinkFacts DEF DetachLink, TypeOK, Links
  <2> QED BY <1>2, <1>6, <1>7, <1>8, <2>1 DEF DetachLink
<1>9. CASE RemoveLink
  <2>1. links'["primary"] = links["primary"] \/ ~links'["primary"].on
    BY <1>0, <1>9, LinkFacts DEF RemoveLink, TypeOK, Links
  <2> QED BY <1>2, <1>6, <1>7, <1>9, <2>1 DEF RemoveLink
<1>10. CASE RemoveMapPin
  <2>1. pinOpen' = None /\ links' = links /\ pinRedir' \in {pinRedir, None}
    BY <1>0, <1>10 DEF RemoveMapPin, Ordered
  <2>2. tear'.op = tear.op \/ tear' = NoTear
    BY <1>0, <1>10 DEF RemoveMapPin, Tear
  <2>3. Ordered'
    BY <1>0, <1>5, <1>10, <2>1, <2>2, TearFacts DEF RemoveMapPin, Ordered, Tear
  <2>4. \A l \in Loaders : Leads(l)'
    BY <1>0, <1>1, <2>1 DEF Steers, Leads, Starting, maps, procs
  <2> QED BY <2>1, <2>3, <2>4 DEF Steers, Desires, Joined, Follows
<1> QED BY <1>3, <1>4, <1>8, <1>9, <1>10 DEF TearStep

LEMMA SteersStep ==
  ASSUME RuntimeDirKept, UnpinAlone
  PROVE  Steers /\ [Next]_vars => Steers'
<1> SUFFICES ASSUME Steers, [Next]_vars PROVE Steers'
  OBVIOUS
<1>0. Clean'
  BY CleanStep DEF Steers
<1>1. CASE UNCHANGED vars
  BY <1>0, <1>1 DEF vars, Steers, Desires, Joined, Follows, Ordered, Leads
<1>2. CASE Next
  BY <1>0, <1>2, StepSteers, ServeSteers, TearSteers DEF Next
<1> QED BY <1>1, <1>2

\* A link that takes part for a port uses the pinned map, which names the port's own
\* slot; an orphaned map takes part for none.
LEMMA PartFacts ==
  ASSUME Steers, NEW k \in Links, NEW p \in Ports, Selects(k, p) \/ Drops(k, p)
  PROVE  /\ links[k].on /\ links[k].open \in Inst /\ links[k].redir \in Inst
         /\ links[k].open = pinOpen /\ pinOpen # None /\ pinRedir # None
         /\ ports[pinOpen][p] = file[p] /\ file[p] \in Slots
<1>0. TypeOK /\ Closed \notin Slots /\ None \notin Inst
  BY DataplaneAssumption DEF Steers, Clean, Locked, Typed, Closed, Slots
<1>1. links[k].on /\ links[k].open \in Inst /\ links[k].redir \in Inst
  BY <1>0 DEF Selects, Drops, TypeOK, Link
<1>2. ports[links[k].open][p] # Closed
  BY <1>0, <1>1 DEF Selects, Drops, TypeOK
<1>3. links[k].open = pinOpen
  BY <1>1, <1>2 DEF Steers, Clean, Kept, Orphan, Nothing
<1>4. ports[pinOpen][p] = file[p] /\ file[p] \in Slots
  BY <1>0, <1>1, <1>2, <1>3 DEF Steers, Desires, TypeOK, Desired
<1>5. pinRedir # None
  BY <1>0, <1>1, <1>2, <1>3 DEF Steers, Joined, Nothing
<1> QED BY <1>0, <1>1, <1>3, <1>4, <1>5

\* With the primary link attached a port of the primary listen is never dropped, at no
\* point of a start or a teardown and whatever was killed before: the map names a port
\* only while the listen is in its slot (pin.rs unpin_dataplane and ensure_maps_pinned,
\* openresty.rs run_openresty_mode).
THEOREM PrimaryNeverDropped ==
  ASSUME RuntimeDirKept, UnpinAlone PROVE Spec => []NeverDropsPrimary
<1>1. ASSUME Steers, NEW p \in Ports, links["primary"].on, file[p] = "primary"
      PROVE  Verdict(p) # "drop"
  <2>1. SUFFICES ASSUME NEW k \in Links, Drops(k, p) PROVE Selects("primary", p)
    BY DEF Verdict, Links
  <2>2. /\ pinOpen # None /\ pinOpen \in Inst /\ pinRedir # None
        /\ ports[pinOpen][p] = "primary"
    BY <1>1, <2>1, PartFacts
  <2>3. links["primary"].open = pinOpen /\ links["primary"].redir = pinRedir
    BY <1>1, <2>2 DEF Steers, Follows
  <2>4. "primary" \in slots[pinRedir]
    BY <1>1, <2>2 DEF Steers, Joined, Nothing, Closed
  <2> QED BY <1>1, <2>2, <2>3, <2>4 DEF Selects
<1>2. Steers => NeverDropsPrimary
  BY <1>1 DEF NeverDropsPrimary
<1>3. Steers /\ [Next]_vars => Steers'
  BY SteersStep
<1> QED BY <1>2, <1>3, SteersInit, PTL DEF Spec

(***************************************************************************)
(* What is steered stays steered.                                          *)
(***************************************************************************)

Ends(p) ==
  \/ tear.op = "unpin"
  \/ tear.op = "detach" /\ ~Selects("backup", p)

LEMMA VerdictSteer ==
  ASSUME NEW p \in Ports PROVE Verdict(p) = "steer" <=> \E k \in Links : Selects(k, p)
  BY DEF Verdict

\* The link keeps its program; the map keeps the port and the listen its slot.
LEMMA KeepsSelecting ==
  ASSUME NEW k \in Links, NEW p \in Ports, Selects(k, p), links'[k] = links[k],
         ports'[links[k].open][p] = ports[links[k].open][p],
         slots[links[k].redir] \subseteq slots'[links[k].redir]
  PROVE  Selects(k, p)'
  BY DEF Selects

LEMMA StepKeeps ==
  ASSUME Steers, NEW l \in Loaders, Step(l),
         NEW k \in Links, NEW p \in Ports, Selects(k, p), file'[p] = file[p]
  PROVE  Selects(k, p)'
<1>0. /\ Typed /\ TypeOK /\ Owns(l) /\ Uses(l) /\ own[l] \in Maps /\ None \notin Inst
      /\ Counts(l) /\ Leads(l)
  BY DataplaneAssumption DEF Steers, Clean, Locked, Typed, TypeOK
<1>1. /\ links[k].open = pinOpen /\ pinOpen \in Inst /\ links[k].redir \in Inst
      /\ pinRedir # None /\ ports[pinOpen][p] = file[p] /\ links[k].on
  BY PartFacts
<1>2. ASSUME NEW new \in Inst \ Used, ports' = [ports EXCEPT ![new] = Nothing],
             slots' = [slots EXCEPT ![new] = {}], UNCHANGED links
      PROVE  Selects(k, p)'
  <2>1. {links[k].open, links[k].redir} \in {{links[v].open, links[v].redir} : v \in Links}
    OBVIOUS
  <2>2. {links[k].open, links[k].redir} \subseteq UNION {{links[v].open, links[v].redir} : v \in Links}
    BY <2>1
  <2>3. links[k].open # new /\ links[k].redir # new
    BY <1>2, <2>2 DEF Used
  <2> QED BY <1>0, <1>1, <1>2, <2>3, KeepsSelecting DEF TypeOK
<1>3. CASE EnsureBackup(l)
  <2>1. links'[k] = links[k] /\ UNCHANGED maps
    BY <1>0, <1>1, <1>3 DEF EnsureBackup, TypeOK, Links
  <2> QED BY <2>1, KeepsSelecting DEF maps
\* The program is replaced by one with the same maps.
<1>4. CASE AttachOrUpgrade(l)
  <2>1. CASE links' = links \/ k # "primary"
    BY <1>0, <1>4, <2>1, KeepsSelecting DEF AttachOrUpgrade, TypeOK, maps
  <2>2. CASE links' = [links EXCEPT !["primary"] = Attached(own[l])] /\ k = "primary"
    <3>1. pc[l] = "primary" /\ UNCHANGED maps
      BY <1>4 DEF AttachOrUpgrade
    <3>2. own[l].open = pinOpen /\ own[l].redir = pinRedir
      BY <1>0, <1>1, <3>1 DEF Uses, Loaded
    <3>3. links[k].redir = pinRedir
      BY <1>1, <2>2 DEF Steers, Follows
    <3>4. links'[k] = Attached(own[l])
      BY <1>0, <2>2 DEF TypeOK
    <3> QED BY <1>0, <1>1, <3>1, <3>2, <3>3, <3>4, LinkFacts DEF Selects, maps
  <2> QED BY <1>4, <2>1, <2>2 DEF AttachOrUpgrade
<1>5. CASE PinOpenPorts(l) \/ PinRedirSocket(l)
  BY <1>5, KeepsSelecting DEF PinOpenPorts, PinRedirSocket, maps
<1>6. ASSUME NEW slot \in Slots, Register(l, slot), pc[l] \in Loaded, UNCHANGED links
      PROVE  Selects(k, p)'
  <2>1. own[l].open = pinOpen /\ own[l].redir \in Inst
    BY <1>0, <1>1, <1>6 DEF Owns, Uses
  <2>2. ports'[pinOpen][p] = ports[pinOpen][p]
    BY <1>0, <1>1, <1>6, <2>1 DEF Register, Of, TypeOK
  <2>3. slots[links[k].redir] \subseteq slots'[links[k].redir]
    BY <1>0, <1>1, <1>6, <2>1 DEF Register, TypeOK
  <2> QED BY <1>1, <1>6, <2>2, <2>3, KeepsSelecting
<1>7. CASE RegisterHttp(l)
  BY <1>6, <1>7 DEF RegisterHttp, Slots, Loaded
<1>8. CASE RegisterTls(l)
  BY <1>6, <1>8, KeepsSelecting DEF RegisterTls, Slots, Loaded, maps
<1>9. CASE ReconcileAndServe(l)
  <2>1. own[l].open = pinOpen
    BY <1>0, <1>1, <1>9 DEF ReconcileAndServe, Uses, Loaded
  <2>2. ports'[pinOpen][p] = ports[pinOpen][p]
    BY <1>0, <1>1, <1>9, <2>1 DEF ReconcileAndServe, TypeOK
  <2> QED BY <1>1, <1>9, <2>2, KeepsSelecting DEF ReconcileAndServe
<1> QED BY <1>2, <1>3, <1>4, <1>5, <1>7, <1>8, <1>9 DEF Step, Load

LEMMA ServeKeeps ==
  ASSUME Steers, NEW l \in Loaders,
         \/ Start(l) \/ Reload(l) \/ Exit(l)
         \/ \E q \in Ports, slot \in Slots \cup {Closed} : Change(l, q, slot),
         NEW k \in Links, NEW p \in Ports, Selects(k, p), file'[p] = file[p]
  PROVE  Selects(k, p)'
<1>0. TypeOK /\ Owns(l) /\ Uses(l) /\ None \notin Inst /\ Counts(l)
  BY DataplaneAssumption DEF Steers, Clean, Locked, Typed
<1>1. links[k].open = pinOpen /\ pinOpen \in Inst /\ ports[pinOpen][p] = file[p]
  BY PartFacts
<1>2. CASE Start(l) \/ Exit(l)
  BY <1>2, KeepsSelecting DEF Start, Exit, maps
<1>3. CASE Reload(l)
  <2>1. own[l].open = pinOpen
    BY <1>0, <1>1, <1>3 DEF Reload, Uses, Loaded
  <2>2. ports'[pinOpen][p] = ports[pinOpen][p]
    BY <1>0, <1>1, <1>3, <2>1 DEF Reload, TypeOK
  <2> QED BY <1>1, <1>3, <2>2, KeepsSelecting DEF Reload
<1>4. ASSUME NEW q \in Ports, NEW slot \in Slots \cup {Closed}, Change(l, q, slot)
      PROVE  Selects(k, p)'
  <2>1. ports' = [ports EXCEPT ![pinOpen] = [ports[pinOpen] EXCEPT ![q] = slot]]
    BY <1>0, <1>4 DEF Change, TypeOK
  <2>2. q = p => slot = file[p]
    BY <1>0, <1>4 DEF Change, TypeOK, Desired
  <2>3. ports'[pinOpen][p] = ports[pinOpen][p]
    BY <1>0, <1>1, <2>1, <2>2 DEF TypeOK, Desired
  <2> QED BY <1>1, <1>4, <2>3, KeepsSelecting DEF Change
<1> QED BY <1>2, <1>3, <1>4

LEMMA TearKeeps ==
  ASSUME Steers, BeginUnpin \/ BeginDetachPrimary \/ TearStep \/ KillTear,
         NEW k \in Links, NEW p \in Ports, Selects(k, p), ~Ends(p)
  PROVE  \E v \in Links : Selects(v, p)'
<1>0. TypeOK /\ Ordered /\ UNCHANGED maps
  BY DEF Steers, Clean, Locked, Typed, BeginUnpin, BeginDetachPrimary, TearStep, DetachLink,
         RemoveLink, RemoveMapPin, KillTear
<1>1. CASE BeginUnpin \/ BeginDetachPrimary \/ KillTear \/ RemoveMapPin
  BY <1>0, <1>1, KeepsSelecting DEF BeginUnpin, BeginDetachPrimary, KillTear, RemoveMapPin, maps
\* detach-primary, with a backup that steers the port as well.
<1>2. CASE DetachLink \/ RemoveLink
  <2>1. tear.at # "idle"
    BY <1>2 DEF DetachLink, RemoveLink
  <2>2. tear.op = "detach" /\ tear.link = "primary"
    BY <1>0, <2>1 DEF Ordered, Ends, TypeOK, Tear
  <2>3. Selects("backup", p) /\ "backup" \in Links
    BY <2>2 DEF Ends, Links
  <2>4. links'["backup"] = links["backup"]
    BY <1>0, <1>2, <2>2, <2>3 DEF DetachLink, RemoveLink, TypeOK
  <2>5. Selects("backup", p)'
    BY <1>0, <2>3, <2>4, KeepsSelecting DEF maps
  <2> QED BY <2>3, <2>5
<1> QED BY <1>1, <1>2 DEF TearStep

\* A port that is steered and stays desired is steered after every step of every
\* process, a kill included: only unpin, and detach-primary without a live backup,
\* end it (load.rs load_c and attach_or_upgrade_sk_lookup, pin.rs, main.rs).
THEOREM SteeringHolds ==
  ASSUME RuntimeDirKept, UnpinAlone PROVE Spec => SteeringSurvives
<1> DEFINE Keeps(p) ==
      Verdict(p) = "steer" /\ file'[p] = file[p]
        => \/ Verdict(p)' = "steer"
           \/ tear.op = "unpin"
           \/ tear.op = "detach" /\ ~Selects("backup", p)
<1>1. ASSUME Steers, [Next]_vars, NEW p \in Ports PROVE Keeps(p)
  <2>1. SUFFICES ASSUME NEW k \in Links, Selects(k, p), file'[p] = file[p], ~Ends(p)
                 PROVE  \E v \in Links : Selects(v, p)'
    BY VerdictSteer DEF Verdict, Ends
  <2>2. CASE UNCHANGED vars
    BY <2>1, <2>2 DEF vars, Selects
  <2>3. CASE Next
    BY <1>1, <2>1, <2>3, StepKeeps, ServeKeeps, TearKeeps DEF Next
  <2> QED BY <1>1, <2>2, <2>3
<1>2. Steers /\ [Next]_vars => [\A p \in Ports : Keeps(p)]_vars
  BY <1>1
<1>3. Steers /\ [Next]_vars => Steers'
  BY SteersStep
<1>4. Spec => [][\A p \in Ports : Keeps(p)]_vars
  BY <1>2, <1>3, SteersInit, PTL DEF Spec
<1> QED BY <1>4 DEF SteeringSurvives
===============================================================================
