--------------------- MODULE ControlPlaneRefinement_proofs ---------------------
(***************************************************************************)
(* The product interface of the control plane implements DesiredState.     *)
(*                                                                         *)
(* The mapping names the same four things on both sides; the work is in    *)
(* the guards.  DesiredState changes its state from what is saved at that  *)
(* moment, the code from what a job read several steps ago: the two agree  *)
(* because the mutex is held from the read to the last key (SyncInv), so   *)
(* that what a job is about to write is still its request applied to the   *)
(* file as it is.                                                          *)
(***************************************************************************)
EXTENDS ControlPlaneSync_proofs

\* Some policy in force admits state d.
Admissible(d) == \E pol \in Policies : Valid(d, pol)

\* What job r of the control thread carries towards the rename, while f is the file.
Merges(r, f) ==
  /\ r.op = "open" /\ r.at \in {"lock", "load"}
       => \E ports \in SUBSET Ports, b \in Binding : r.want = Ask(ports, b)
  /\ r.op = "open" /\ r.at \in {"map", "write"}
       => \E ports \in SUBSET Ports, b \in Binding :
            r.want = Overlay(f, Ask(ports, b)) /\ Admissible(r.want)
  /\ r.op = "close" /\ r.at = "write" => r.want = Without(f, r.dels)

\* A loader that has read or seeded the file has one.
HasFile ==
  job[Main].op = "initial" \/ (job[Main].op = "startup" /\ job[Main].at # "load")
    => haveFile

RefInv == SyncInv /\ Merges(job[Ctl], file) /\ HasFile

LEMMA RefInit == Init => RefInv
<1> SUFFICES ASSUME Init PROVE RefInv
  OBVIOUS
<1>1. job[Main] = Idle /\ job[Ctl] = Idle
  BY ThreadFacts DEF Init
<1>2. Merges(job[Ctl], file) /\ HasFile
  BY <1>1, IdleFacts DEF Merges, HasFile
<1> QED BY <1>2, SyncInit DEF RefInv

\* Nothing to show when the control thread or its work is gone.
LEMMA NothingToMerge ==
  ASSUME NEW r, NEW f, r.op \notin {"open", "close"} \/ r.at = "apply"
  PROVE  Merges(r, f)
  BY DEF Merges

LEMMA CtlTyped ==
  ASSUME SyncInv
  PROVE  /\ job \in [Procs -> Job] /\ job[Ctl] \in Job /\ Ctl \in Procs /\ Ctl \in Threads
         /\ job[Ctl].op \in {"none", "open", "close", "reconcile"} /\ OnPath(job[Ctl])
  BY ThreadFacts DEF SyncInv, Typed, TypeOK, Roles

\* Every step of a request keeps its place in the merge.
LEMMA CtlStepMerges ==
  ASSUME SyncInv, Merges(job[Ctl], file), Step(Ctl)
  PROVE  Merges(job[Ctl], file)'
<1>0. /\ job \in [Procs -> Job] /\ job[Ctl] \in Job /\ Ctl \in Procs
      /\ job[Ctl].op \in {"none", "open", "close", "reconcile"} /\ OnPath(job[Ctl])
  BY CtlTyped
<1>1. CASE Return(Ctl)
  BY <1>0, <1>1, IdleFacts, NothingToMerge DEF Return
<1>2. CASE LoaderGone
  BY <1>0, <1>2, IdleFacts, NothingToMerge DEF LoaderGone
<1>3. CASE LockMutex(Ctl)
  <2>1. /\ job'[Ctl].op = job[Ctl].op /\ job'[Ctl].want = job[Ctl].want
        /\ job'[Ctl].at = "load" /\ job[Ctl].at = "lock"
    BY <1>0, <1>3 DEF LockMutex, Job
  <2> QED BY <2>1 DEF Merges
<1>4. CASE LoadOpen(Ctl) /\ ~Return(Ctl)
  <2>1. /\ job[Ctl].op = "open" /\ job[Ctl].at = "load"
        /\ job'[Ctl].op = "open" /\ job'[Ctl].at = "map" /\ UNCHANGED file
        /\ job'[Ctl].want = Overlay(file, job[Ctl].want)
        /\ Valid(job'[Ctl].want, policy)
    BY <1>0, <1>4 DEF LoadOpen, At, Opens, Job, disk
  <2>2. PICK ports \in SUBSET Ports, b \in Binding : job[Ctl].want = Ask(ports, b)
    BY <2>1 DEF Merges
  <2>3. Admissible(job'[Ctl].want)
    BY <2>1, PolicyNow DEF Admissible, SyncInv
  <2> QED BY <2>1, <2>2, <2>3 DEF Merges
<1>5. CASE LoadClose(Ctl) /\ ~Return(Ctl)
  <2>1. /\ job'[Ctl].op = "close" /\ job'[Ctl].at = "write" /\ UNCHANGED file
        /\ job'[Ctl].dels = job[Ctl].dels
        /\ job'[Ctl].want = Without(file, job[Ctl].dels)
    BY <1>0, <1>5 DEF LoadClose, At, Closes, Job, disk
  <2> QED BY <2>1 DEF Merges
<1>6. CASE (LoadReconcile(Ctl) \/ MapPlan(Ctl)) /\ ~Return(Ctl)
  <2>1. job'[Ctl].op = "reconcile"
    BY <1>0, <1>6 DEF LoadReconcile, MapPlan, At, Strict, Job
  <2> QED BY <2>1, NothingToMerge
<1>7. CASE MapOpen(Ctl) /\ ~Return(Ctl)
  <2>1. /\ job[Ctl].op = "open" /\ job[Ctl].at = "map"
        /\ job'[Ctl].op = "open" /\ job'[Ctl].at = "write"
        /\ job'[Ctl].want = job[Ctl].want /\ UNCHANGED file
    BY <1>0, <1>7 DEF MapOpen, At, Opens, FileOpens, Job, disk
  <2>2. PICK ports \in SUBSET Ports, b \in Binding :
          job[Ctl].want = Overlay(file, Ask(ports, b)) /\ Admissible(job[Ctl].want)
    BY <2>1 DEF Merges
  <2> QED BY <2>1, <2>2 DEF Merges
<1>8. CASE WriteFile(Ctl) /\ ~Return(Ctl)
  <2>1. job'[Ctl].at = "apply"
    BY <1>0, <1>8 DEF WriteFile, Job
  <2> QED BY <2>1, NothingToMerge
<1>9. ASSUME NEW p \in Ports, Put(Ctl, p) \/ Delete(Ctl, p), ~Return(Ctl), ~LoaderGone
      PROVE  Merges(job[Ctl], file)'
  <2>1. job'[Ctl].at = "apply"
    BY <1>0, <1>9 DEF Put, Delete, Job
  <2> QED BY <2>1, NothingToMerge
<1> QED
  BY <1>1, <1>2, <1>3, <1>4, <1>5, <1>6, <1>7, <1>8, <1>9 DEF Step, Finish

\* A request that is accepted asks for ports bound in one way, or for ports to close.
LEMMA RequestMerges ==
  ASSUME SyncInv, Request(Ctl)
  PROVE  Merges(job[Ctl], file)'
<1>0. job \in [Procs -> Job] /\ Ctl \in Procs
  BY CtlTyped
<1>1. ASSUME NEW ports \in PortSets, NEW b \in Binding, RequestOpen(Ctl, ports, b)
      PROVE  Merges(job[Ctl], file)'
  <2>1. job'[Ctl] = Start("open", "lock", Ask(ports, b), {})
    BY <1>0, <1>1 DEF RequestOpen, Accept
  <2>2. /\ job'[Ctl].op = "open" /\ job'[Ctl].at = "lock"
        /\ job'[Ctl].want = Ask(ports, b)
    BY <2>1 DEF Start
  <2>3. ports \in SUBSET Ports
    BY DEF PortSets
  <2> QED BY <2>2, <2>3 DEF Merges
<1>2. ASSUME NEW ports, NEW bulk, RequestClose(Ctl, ports, bulk)
      PROVE  Merges(job[Ctl], file)'
  <2>1. job'[Ctl].op = "close" /\ job'[Ctl].at = "lock"
    BY <1>0, <1>2 DEF RequestClose, Accept, Start
  <2> QED BY <2>1 DEF Merges
<1>3. CASE RequestReconcile(Ctl)
  BY <1>0, <1>3, NothingToMerge DEF RequestReconcile, Accept, Start
<1> QED BY <1>1, <1>2, <1>3 DEF Request

LEMMA MergesStep ==
  ASSUME RefInv, SocketNext
  PROVE  Merges(job[Ctl], file)'
<1>0. /\ SyncInv /\ Merges(job[Ctl], file) /\ job \in [Procs -> Job]
      /\ Main \in Procs /\ Ctl \in Procs /\ Main # Ctl
  BY CtlTyped, ThreadFacts DEF RefInv
<1>1. CASE LoaderGone
  BY <1>0, <1>1, IdleFacts, NothingToMerge DEF LoaderGone
<1>2. ASSUME job'[Ctl] = job[Ctl], file' = file PROVE Merges(job[Ctl], file)'
  BY <1>0, <1>2 DEF Merges
<1>3. CASE MainStep /\ ~LoaderGone
  <2>1. CASE LoadStartup
    <3>1. job'[Ctl] = job[Ctl] /\ job[Main].op = "startup"
      BY <1>0, <1>3, <2>1 DEF LoadStartup, At
    <3>2. job[Ctl].op = "none"
      BY <1>0, <3>1, BootRunning DEF SyncInv, Roles
    <3> QED BY <3>1, <3>2, NothingToMerge
  <2>2. CASE AttachAndPin \/ BeginInitialReconcile \/ Serve \/ BeginReload
    BY <1>0, <1>2, <2>2 DEF AttachAndPin, BeginInitialReconcile, Serve, BeginReload, disk
  <2>3. CASE LoadReload
    BY <1>0, <1>2, <2>3 DEF LoadReload, Return, disk
  <2>4. CASE Step(Main)
    <3>1. ~WriteFile(Main)
      BY <1>0 DEF WriteFile, SyncInv, Roles, OnPath, Typed, TypeOK
    <3>2. job'[Ctl] = job[Ctl] /\ file' = file
      BY <1>0, <1>3, <2>4, <3>1
         DEF Step, LockMutex, LoadOpen, LoadClose, LoadReconcile, MapOpen, MapPlan, Put,
             Delete, Finish, Return, disk
    <3> QED BY <1>2, <3>2
  <2> QED BY <1>3, <2>1, <2>2, <2>3, <2>4 DEF MainStep
<1>4. CASE StartLoader \/ Sighup \/ LoaderExits
  BY <1>0, <1>1, <1>2, <1>4 DEF StartLoader, Sighup, LoaderExits, disk
<1>5. CASE EditPolicy \/ EditNginx \/ \E c \in Clis : Freeze(c, FALSE) \/ Unfreeze(c)
  BY <1>2, <1>5 DEF EditPolicy, EditNginx, Freeze, Unfreeze, disk
<1> QED
  BY <1>0, <1>1, <1>3, <1>4, <1>5, CtlStepMerges, RequestMerges
     DEF SocketNext, LoaderNext

LEMMA HasFileStep ==
  ASSUME RefInv, SocketNext
  PROVE  HasFile'
<1>0. /\ SyncInv /\ HasFile /\ job \in [Procs -> Job] /\ job[Main] \in Job
      /\ Main \in Procs /\ Ctl \in Procs /\ Main # Ctl
  BY CtlTyped, ThreadFacts DEF RefInv
<1>1. ASSUME job'[Main] = Idle PROVE HasFile'
  BY <1>1, IdleFacts DEF HasFile
<1>2. ASSUME job'[Main].op = job[Main].op, job'[Main].at # "load" => job[Main].at # "load",
             haveFile => haveFile'
      PROVE  HasFile'
  BY <1>0, <1>2 DEF HasFile
<1>3. CASE LoaderGone \/ Return(Main)
  BY <1>0, <1>1, <1>3 DEF LoaderGone, Return
<1>4. CASE MainStep /\ ~LoaderGone /\ ~Return(Main)
  <2>1. CASE LoadStartup
    BY <1>4, <2>1 DEF LoadStartup, HasFile
  <2>2. CASE AttachAndPin
    BY <1>0, <1>2, <2>2 DEF AttachAndPin, At, disk, Job
  <2>3. CASE BeginInitialReconcile
    <3>1. job[Main].op = "startup" /\ job[Main].at = "apply" /\ UNCHANGED haveFile
      BY <2>3 DEF BeginInitialReconcile, Applied, disk
    <3> QED BY <1>0, <3>1 DEF HasFile
  <2>4. CASE Serve
    BY <1>0, <1>1, <2>4 DEF Serve
  <2>5. CASE BeginReload
    <3>1. job'[Main].op = "reload"
      BY <1>0, <2>5 DEF BeginReload, Start
    <3> QED BY <3>1 DEF HasFile
  <2>6. CASE LoadReload \/ LockMutex(Main) \/ LoadOpen(Main) \/ LoadClose(Main)
             \/ LoadReconcile(Main)
    <3>1. /\ job[Main].op \notin {"startup", "initial"}
          /\ job'[Main].op = job[Main].op
      BY <1>0, <1>4, <2>6 DEF LoadReload, LockMutex, LoadOpen, LoadClose, LoadReconcile, At,
                              Opens, Closes, Job, SyncInv, Roles, OnPath
    <3> QED BY <3>1 DEF HasFile
  <2>7. CASE MapOpen(Main) \/ MapPlan(Main)
    BY <1>0, <1>2, <1>4, <2>7 DEF MapOpen, MapPlan, At, disk, Job
  <2>8. CASE WriteFile(Main)
    BY <1>0, <1>2, <1>4, <2>8 DEF WriteFile, Job
  <2>9. ASSUME NEW p \in Ports, Put(Main, p) \/ Delete(Main, p) PROVE HasFile'
    BY <1>0, <1>2, <1>4, <2>9 DEF Put, Delete, disk, Job
  <2> QED
    BY <1>4, <2>1, <2>2, <2>3, <2>4, <2>5, <2>6, <2>7, <2>8, <2>9
       DEF MainStep, Step, Finish
<1>5. ASSUME job'[Main] = job[Main], haveFile => haveFile' PROVE HasFile'
  BY <1>2, <1>5
<1>6. CASE StartLoader
  <2>1. job'[Main].op = "startup" /\ job'[Main].at = "load"
    BY <1>0, <1>6 DEF StartLoader, Start
  <2> QED BY <2>1 DEF HasFile
<1>7. CASE Sighup \/ LoaderExits
  BY <1>3, <1>5, <1>7 DEF Sighup, LoaderExits, disk
<1>8. CASE EditPolicy \/ EditNginx \/ \E c \in Clis : Freeze(c, FALSE) \/ Unfreeze(c)
  BY <1>5, <1>8 DEF EditPolicy, EditNginx, Freeze, Unfreeze, disk
<1>9. CASE Request(Ctl)
  BY <1>0, <1>5, <1>9 DEF Request, RequestOpen, RequestClose, RequestReconcile, Accept, disk
<1>10. CASE Step(Ctl) /\ ~LoaderGone
  <2>1. job'[Main] = job[Main] /\ (haveFile => haveFile')
    BY <1>0, <1>10
       DEF Step, LockMutex, LoadOpen, LoadClose, LoadReconcile, MapOpen, MapPlan, Put,
           Delete, Finish, Return, disk, WriteFile
  <2> QED BY <1>5, <2>1
<1> QED
  BY <1>3, <1>4, <1>6, <1>7, <1>8, <1>9, <1>10, ThreadFacts
     DEF SocketNext, LoaderNext, MainStep, Step, Finish

(***************************************************************************)
(* The simulation.                                                         *)
(***************************************************************************)

\* The abstract specification has its own copy of the operators on desired states.
LEMMA SameOperators ==
  /\ \A d, pol : Promise!Valid(d, pol) <=> Valid(d, pol)
  /\ \A d, p : Promise!SlotOf(d, p) = SlotOf(d, p)
  /\ \A d, x : Promise!Overlay(d, x) = Overlay(d, x) /\ Promise!Without(d, x) = Without(d, x)
  /\ \A ports, b : Promise!Ask(ports, b) = Ask(ports, b)
  /\ Promise!Nothing = Nothing /\ Promise!Binding = Binding
<1>1. \A d, t : Promise!Bound(d) = Bound(d) /\ Promise!OwnedBy(d, t) = OwnedBy(d, t)
  BY DEF Promise!Bound, Bound, Promise!OwnedBy, OwnedBy
<1>2. \A pol : Promise!Refused(pol) = Refused(pol)
  BY DEF Promise!Refused, Refused
<1>3. \A d, pol : Promise!Valid(d, pol) <=> Valid(d, pol)
  <2> TAKE d, pol
  <2>1. Promise!Bound(d) = Bound(d) /\ Promise!Refused(pol) = Refused(pol)
    BY <1>1, <1>2
  <2>2. \A t \in Tenants : Promise!OwnedBy(d, t) = OwnedBy(d, t)
    BY <1>1
  <2> QED BY <2>1, <2>2 DEF Promise!Valid, Valid, Promise!Cardinality, Cardinality
<1>4. \A d, p : Promise!SlotOf(d, p) = SlotOf(d, p)
  BY DEF Promise!SlotOf, SlotOf, Promise!Closed, Closed
<1>5. \A d, x : Promise!Overlay(d, x) = Overlay(d, x) /\ Promise!Without(d, x) = Without(d, x)
  BY DEF Promise!Overlay, Overlay, Promise!Without, Without
<1>6. \A ports, b : Promise!Ask(ports, b) = Ask(ports, b)
  BY DEF Promise!Ask, Ask
<1>7. Promise!Nothing = Nothing /\ Promise!Binding = Binding
  BY DEF Promise!Nothing, Nothing, Promise!Binding, Binding, Promise!Slots, Slots
<1> QED BY <1>3, <1>4, <1>5, <1>6, <1>7

\* A key that is put or deleted moves to what the file says now.
LEMMA KeyMoves ==
  ASSUME SyncInv, NEW j \in Threads, NEW p \in Ports, Put(j, p) \/ Delete(j, p),
         UNCHANGED up
  PROVE  Promise!MovePort(p) \/ UNCHANGED <<file, haveFile, map, up>>
<1>0. /\ job[j] \in Job /\ OnPath(job[j]) /\ Progress(job[j], file, map)
      /\ job[j].puts \subseteq Bound(job[j].want) /\ job[j].at = "apply"
      /\ file \in Desired /\ map \in [Ports -> Slots \cup {Closed}]
      /\ UNCHANGED <<file, haveFile>>
  BY HolderJob DEF Put, Delete, disk
<1>1. CASE Put(j, p)
  <2>1. job[j].want = file /\ p \in Bound(file)
    BY <1>0, <1>1 DEF Put, Progress, Behind
  <2>2. map' = [map EXCEPT ![p] = SlotOf(file, p)]
    BY <1>1, <2>1 DEF Put, SlotOf, Bound
  <2> QED BY <1>0, <2>2, SameOperators DEF Promise!MovePort
<1>2. CASE Delete(j, p) /\ map' # map
  <2>1. p \in job[j].dels /\ map' = [map EXCEPT ![p] = Closed]
    BY <1>2 DEF Delete
  <2>2. p \notin Bound(file)
    BY <1>0, <2>1 DEF Progress, Behind
  <2>3. map' = [map EXCEPT ![p] = SlotOf(file, p)]
    BY <2>1, <2>2 DEF SlotOf, Bound
  <2> QED BY <1>0, <2>3, SameOperators DEF Promise!MovePort
<1> QED BY <1>0, <1>1, <1>2

\* The rename is one request applied to the state the one before it left.
LEMMA RenameSaves ==
  ASSUME RefInv, NEW j \in Threads, WriteFile(j)
  PROVE  Promise!Next
<1>0. SyncInv /\ Merges(job[Ctl], file)
  BY DEF RefInv
<1>1. /\ job[j].at = "write" /\ OnPath(job[j]) /\ job[j] \in Job
      /\ file' = job[j].want /\ haveFile' = TRUE /\ UNCHANGED <<map, up>>
  BY <1>0, HolderJob DEF WriteFile, kern, ldr
<1>2. j = Ctl /\ job[j].op \in {"open", "close"}
  BY <1>0, <1>1 DEF OnPath, SyncInv, Roles, Threads, Typed, TypeOK
<1>3. up = "serving" /\ Synced
  BY <1>0, <1>1, <1>2, Holder DEF Holding
<1>4. Promise!CaughtUp
  BY <1>3, SameOperators DEF Synced, Promise!CaughtUp
<1>5. CASE job[j].op = "open"
  <2>1. PICK ports \in SUBSET Ports, b \in Binding :
          job[Ctl].want = Overlay(file, Ask(ports, b)) /\ Admissible(job[Ctl].want)
    BY <1>0, <1>1, <1>2, <1>5 DEF Merges
  <2>2. Promise!Admitted(job[Ctl].want)
    BY <2>1, SameOperators DEF Admissible, Promise!Admitted
  <2>3. Promise!Overlay(file, Promise!Ask(ports, b)) = job[Ctl].want
    BY <2>1, SameOperators
  <2>4. Promise!OpenPorts(ports, b)
    BY <1>1, <1>2, <1>3, <1>4, <2>2, <2>3 DEF Promise!OpenPorts, Promise!Save
  <2> QED BY <2>4, SameOperators DEF Promise!Next
<1>6. CASE job[j].op = "close"
  <2>1. job[Ctl].want = Without(file, job[Ctl].dels) /\ job[Ctl].dels \in SUBSET Ports
    BY <1>0, <1>1, <1>2, <1>6 DEF Merges, Job
  <2>2. Promise!Without(file, job[Ctl].dels) = job[Ctl].want
    BY <2>1, SameOperators
  <2>3. Promise!ClosePorts(job[Ctl].dels)
    BY <1>1, <1>2, <1>3, <1>4, <2>2 DEF Promise!ClosePorts, Promise!Save
  <2> QED BY <2>1, <2>3 DEF Promise!Next
<1> QED BY <1>2, <1>5, <1>6

\* The loader stops, from whatever it was doing.
LEMMA GoneStops ==
  ASSUME LoaderGone, UNCHANGED <<file, haveFile, map>>
  PROVE  Promise!StopServing \/ UNCHANGED <<file, haveFile, map, up = "serving">>
  BY DEF LoaderGone, Promise!StopServing

LEMMA Simulates ==
  ASSUME RefInv, SocketNext
  PROVE  [Promise!Next]_<<file, haveFile, map, up = "serving">>
<1> DEFINE seen == <<file, haveFile, map, up = "serving">>
<1>0. SyncInv /\ HasFile /\ Main \in Threads /\ Ctl \in Threads
  BY ThreadFacts DEF RefInv
<1>1. ASSUME UNCHANGED <<file, haveFile, map, up>> PROVE UNCHANGED seen
  BY <1>1
<1>2. ASSUME LoaderGone, UNCHANGED <<file, haveFile, map>> PROVE [Promise!Next]_seen
  BY <1>2, GoneStops DEF Promise!Next
<1>3. ASSUME NEW j \in Threads, Step(j) PROVE [Promise!Next]_seen
  <2>1. CASE WriteFile(j)
    BY <1>3, <2>1, RenameSaves
  <2>2. ASSUME NEW p \in Ports, Put(j, p) \/ Delete(j, p) PROVE [Promise!Next]_seen
    <3>1. CASE UNCHANGED up
      BY <1>0, <1>1, <2>2, <3>1, KeyMoves DEF Promise!Next
    <3>2. CASE LoaderGone /\ UNCHANGED <<file, haveFile, map>>
      BY <1>2, <3>2
    <3> QED BY <2>2, <3>1, <3>2 DEF Put, Delete, disk, ldr
  <2>3. CASE \/ LockMutex(j) \/ LoadOpen(j) \/ LoadClose(j) \/ LoadReconcile(j)
             \/ MapOpen(j) \/ MapPlan(j) \/ Finish(j)
    BY <1>1, <2>3 DEF LockMutex, LoadOpen, LoadClose, LoadReconcile, MapOpen, MapPlan,
                      Finish, disk, kern, ldr
  <2> QED BY <1>3, <2>1, <2>2, <2>3 DEF Step
<1>4. CASE LoadStartup
  <2>1. CASE LoaderGone /\ UNCHANGED disk
    BY <1>2, <1>4, <2>1 DEF LoadStartup, disk, kern
  <2>2. CASE ~(LoaderGone /\ UNCHANGED disk) /\ haveFile
    <3>1. haveFile = TRUE
      BY <1>0, <2>2 DEF SyncInv, Typed, TypeOK
    <3>2. UNCHANGED <<file, haveFile, map, up>>
      BY <1>4, <2>2, <3>1 DEF LoadStartup, kern, ldr
    <3> QED BY <1>1, <3>2
  <2>3. CASE ~(LoaderGone /\ UNCHANGED disk) /\ ~haveFile
    <3>1. /\ Valid(Seed, WithReserve(policy, Targets))
          /\ file' = Seed /\ haveFile' = TRUE /\ UNCHANGED <<map, up>>
      BY <1>4, <2>3 DEF LoadStartup, kern, ldr
    <3>2. Valid(Seed, policy) /\ policy \in Policies
      BY <1>0, <3>1, PolicyNow, ReserveStricter, ControlAssumption DEF SyncInv
    <3>3. Promise!Admitted(Seed)
      BY <3>2, SameOperators DEF Promise!Admitted
    <3>4. up = "starting"
      BY <1>0, <1>4, BootRunning DEF LoadStartup, At
    <3>5. Promise!SaveSeed
      BY <2>3, <3>1, <3>3, <3>4 DEF Promise!SaveSeed, Promise!Save
    <3> QED BY <3>5 DEF Promise!Next
  <2> QED BY <2>1, <2>2, <2>3
<1>5. CASE Serve
  <2>1. /\ job[Main].op = "initial" /\ job[Main].at = "apply"
        /\ job[Main].puts = {} /\ job[Main].dels = {}
        /\ up' = "serving" /\ UNCHANGED <<file, haveFile, map>>
    BY <1>5 DEF Serve, Applied, disk, kern
  <2>2. up = "starting" /\ haveFile
    BY <1>0, <2>1, BootRunning DEF HasFile
  <2>3. Synced
    BY <1>0, <2>1 DEF SyncInv, Progress, Behind, Synced
  <2>4. Promise!BeginServing
    BY <2>1, <2>2, <2>3, SameOperators
       DEF Promise!BeginServing, Promise!CaughtUp, Synced
  <2> QED BY <2>4 DEF Promise!Next
<1>6. CASE StartLoader
  <2>1. up = "down" /\ up' = "starting" /\ UNCHANGED <<file, haveFile, map>>
    BY <1>6 DEF StartLoader, disk, kern
  <2> QED BY <2>1
<1>7. CASE AttachAndPin \/ BeginInitialReconcile \/ BeginReload \/ LoadReload
  BY <1>1, <1>7
     DEF AttachAndPin, BeginInitialReconcile, BeginReload, LoadReload, disk, kern, ldr
<1>8. CASE Sighup \/ LoaderExits
  BY <1>1, <1>2, <1>8 DEF Sighup, LoaderExits, disk, kern
<1>9. CASE Request(Ctl)
  BY <1>1, <1>9
     DEF Request, RequestOpen, RequestClose, RequestReconcile, Accept, disk, kern, ldr
<1>10. CASE EditPolicy \/ EditNginx \/ \E c \in Clis : Freeze(c, FALSE) \/ Unfreeze(c)
  BY <1>1, <1>10 DEF EditPolicy, EditNginx, Freeze, Unfreeze, disk, kern, ldr
<1> QED
  BY <1>0, <1>3, <1>4, <1>5, <1>6, <1>7, <1>8, <1>9, <1>10
     DEF SocketNext, LoaderNext, MainStep

\* Every behaviour of the product interface is one of DesiredState, for any number of
\* ports, tenants, policies and bystanding command-line processes: whatever requests,
\* reloads, restarts and policy changes interleave, requests take effect one after the
\* other on the latest file, and the map only ever moves to it (sockctl.rs execute,
\* main.rs run_attached).
THEOREM ImplementsDesiredState == SocketSpec => KeepsPromise
<1>1. RefInv /\ [SocketNext]_vars => RefInv'
  <2> SUFFICES ASSUME RefInv, [SocketNext]_vars PROVE RefInv'
    OBVIOUS
  <2>1. CASE UNCHANGED vars
    <3>1. SyncInv'
      BY <2>1 DEF RefInv, vars, SyncInv, Typed, TypeOK, JobsSound, Roles, Mutex, Synced, SlotOf
    <3> QED BY <2>1, <3>1 DEF RefInv, vars, Merges, HasFile
  <2>2. CASE SocketNext
    <3>1. Typed'
      BY <2>2, NextTyped DEF Next, RefInv, SyncInv
    <3>2. SyncInv'
      BY <2>2, <3>1, SocketStepSync DEF RefInv
    <3> QED BY <2>2, <3>2, MergesStep, HasFileStep DEF RefInv
  <2> QED BY <2>1, <2>2
<1>2. RefInv /\ [SocketNext]_vars => [Promise!Next]_<<file, haveFile, map, up = "serving">>
  <2>1. RefInv /\ UNCHANGED vars => UNCHANGED <<file, haveFile, map, up = "serving">>
    BY DEF vars
  <2> QED BY <2>1, Simulates
<1>3. Init => Promise!Init
  BY SameOperators DEF Init, Promise!Init, Promise!Closed, Closed
<1> QED
  BY <1>1, <1>2, <1>3, RefInit, PTL
     DEF SocketSpec, KeepsPromise, Promise!Spec, Promise!promised

(***************************************************************************)
(* What DesiredState alone is enough for: no job, no mutex and no plan is  *)
(* needed to see that the map stays admissible.                            *)
(***************************************************************************)

\* A state that a policy admits has every port that is saved or live.
Covered(f, m) ==
  \E d \in Desired, pol \in Policies :
    Valid(d, pol) /\ Open(m) \subseteq Bound(d) /\ Bound(f) \subseteq Bound(d)

Kept ==
  /\ file \in Desired /\ map \in [Ports -> Slots \cup {Closed}] /\ haveFile \in BOOLEAN
  /\ ~haveFile => file = Nothing /\ Open(map) = {}
  /\ Admissible(file)
  /\ Covered(file, map)

LEMMA SlotTyped ==
  ASSUME NEW d \in Desired, NEW p \in Ports
  PROVE  SlotOf(d, p) \in Slots \cup {Closed} /\ (SlotOf(d, p) # Closed <=> p \in Bound(d))
<1>1. CASE p \in Bound(d)
  <2>1. d[p].slot \in Slots
    BY <1>1, BoundSlots
  <2> QED BY <1>1, <2>1 DEF SlotOf, Bound, Slots, Closed
<1>2. CASE p \notin Bound(d)
  BY <1>2 DEF SlotOf, Bound
<1> QED BY <1>1, <1>2

LEMMA KeptStep ==
  ASSUME Kept, Promise!Next
  PROVE  Kept'
<1>1. CASE Promise!SaveSeed
  <2>1. /\ ~haveFile /\ file' = Seed /\ haveFile' = TRUE /\ UNCHANGED map
        /\ Promise!Admitted(Seed)
    BY <1>1 DEF Promise!SaveSeed, Promise!Save
  <2>2. Seed \in Desired /\ Admissible(Seed) /\ Open(map) = {}
    BY <2>1, SameOperators, ControlAssumption DEF Promise!Admitted, Admissible, Kept
  <2>3. Covered(Seed, map)
    BY <2>2 DEF Covered, Admissible
  <2> QED BY <2>1, <2>2, <2>3 DEF Kept
<1>2. ASSUME Promise!CaughtUp PROVE Open(map) = Bound(file)
  BY <1>2, SameOperators, SlotTyped DEF Promise!CaughtUp, Kept, Open, Bound
<1>3. ASSUME NEW ports \in SUBSET Ports, NEW b \in Binding, Promise!OpenPorts(ports, b)
      PROVE  Kept'
  <2> DEFINE want == Overlay(file, Ask(ports, b))
  <2>1. Promise!Overlay(file, Promise!Ask(ports, b)) = want
    BY SameOperators
  <2>2. /\ file' = want /\ haveFile' = TRUE /\ UNCHANGED map
        /\ Promise!Admitted(want) /\ Open(map) = Bound(file)
    BY <1>2, <1>3, <2>1 DEF Promise!OpenPorts, Promise!Save
  <2>3. want \in Desired /\ Admissible(want)
    BY <2>2, SameOperators, DesiredClosed DEF Promise!Admitted, Admissible, Kept
  <2>4. Bound(file) \subseteq Bound(want)
    BY DEF Overlay, Bound
  <2>5. Covered(want, map)
    BY <2>2, <2>3, <2>4 DEF Covered, Admissible
  <2> QED BY <2>2, <2>3, <2>5 DEF Kept
<1>4. ASSUME NEW ports \in SUBSET Ports, Promise!ClosePorts(ports)
      PROVE  Kept'
  <2>1. /\ file' = Without(file, ports) /\ haveFile' = TRUE /\ UNCHANGED map
        /\ Open(map) = Bound(file)
    BY <1>2, <1>4, SameOperators DEF Promise!ClosePorts, Promise!Save
  <2>2. PICK pol \in Policies : Valid(file, pol)
    BY DEF Kept, Admissible
  <2>3. Without(file, ports) \in Desired /\ Valid(Without(file, ports), pol)
    BY <2>2, WithoutValid, DesiredClosed, ControlAssumption DEF Kept
  <2>4. Bound(Without(file, ports)) \subseteq Bound(file)
    BY DEF Without, Bound
  <2>5. Covered(Without(file, ports), map)
    BY <2>1, <2>2, <2>4 DEF Covered, Kept
  <2> QED BY <2>1, <2>3, <2>5 DEF Kept, Admissible
<1>5. ASSUME NEW p \in Ports, Promise!MovePort(p)
      PROVE  Kept'
  <2>1. map' = [map EXCEPT ![p] = SlotOf(file, p)] /\ UNCHANGED <<file, haveFile>>
    BY <1>5, SameOperators DEF Promise!MovePort
  <2>2. map' \in [Ports -> Slots \cup {Closed}]
    BY <2>1, SlotTyped DEF Kept
  <2>3. Open(map') \subseteq Open(map) \cup Bound(file)
    BY <2>1, SlotTyped DEF Kept, Open
  <2>4. ~haveFile => Open(map') = {}
    <3>1. Bound(Nothing) = {}
      BY DEF Nothing, Bound
    <3> QED BY <2>3, <3>1 DEF Kept
  <2>5. Covered(file, map')
    BY <2>3 DEF Kept, Covered
  <2> QED BY <2>1, <2>2, <2>4, <2>5 DEF Kept, Admissible
<1>6. CASE Promise!BeginServing \/ Promise!StopServing
  BY <1>6 DEF Promise!BeginServing, Promise!StopServing, Kept, Admissible, Covered
<1> QED BY <1>1, <1>3, <1>4, <1>5, <1>6, SameOperators DEF Promise!Next

LEMMA KeptAdmissible == Kept => MapAdmissible
<1> SUFFICES ASSUME Kept PROVE MapAdmissible
  OBVIOUS
<1>1. PICK d \in Desired, pol \in Policies :
        Valid(d, pol) /\ Open(map) \subseteq Bound(d)
  BY DEF Kept, Covered
<1>2. IsFiniteSet(Bound(d))
  BY PortsAssumption, FS_Subset DEF Bound
<1>3. /\ Cardinality(Open(map)) \in Nat /\ Cardinality(Bound(d)) \in Nat
      /\ Cardinality(Open(map)) <= Cardinality(Bound(d))
  BY <1>1, <1>2, FS_Subset, FS_CardinalityType
<1>4. pol.perMachine \in Nat
  BY ControlAssumption DEF Policy
<1>5. Cardinality(Open(map)) <= pol.perMachine
  BY <1>1, <1>3, <1>4 DEF Valid
<1>6. Open(map) \cap Refused(pol) = {}
  BY <1>1 DEF Valid
<1> QED BY <1>5, <1>6 DEF MapAdmissible

\* In the middle of a mutation as after a crash, a policy that was in force admits the
\* set of steered ports, with its machine quota (policy.rs validate, ctl.rs, main.rs).
THEOREM MapStaysAdmissible == SocketSpec => []MapAdmissible
<1>1. Kept /\ [Promise!Next]_<<file, haveFile, map, up = "serving">> => Kept'
  <2>1. Kept /\ UNCHANGED <<file, haveFile, map, up = "serving">> => Kept'
    BY DEF Kept, Admissible, Covered
  <2> QED BY <2>1, KeptStep
<1>2. Promise!Init => Kept
  <2> SUFFICES ASSUME Promise!Init PROVE Kept
    OBVIOUS
  <2>1. file = Nothing /\ haveFile = FALSE /\ map = [p \in Ports |-> Closed]
    BY SameOperators DEF Promise!Init, Promise!Closed, Closed
  <2>2. PICK pol \in Policies : TRUE
    BY ControlAssumption
  <2>3. Nothing \in Desired /\ Valid(Nothing, pol) /\ Open(map) = {}
    BY <2>1, DesiredClosed, NothingValid, ControlAssumption DEF Open
  <2> QED BY <2>1, <2>3 DEF Kept, Admissible, Covered
<1> QED
  BY <1>1, <1>2, KeptAdmissible, ImplementsDesiredState, PTL
     DEF KeepsPromise, Promise!Spec, Promise!promised
===============================================================================
