------------------------ MODULE ControlPlaneSync_proofs ------------------------
(***************************************************************************)
(* The map is the file.  With the product interface alone (socket, SIGHUP, *)
(* restarts, changes of policy) every write of ports.conf is followed, in  *)
(* the same hold of the mutex, by exactly the puts and deletes that bring  *)
(* the map to it.                                                          *)
(***************************************************************************)
EXTENDS ControlPlane_proofs

Threads == {Main, Ctl}
Holding == {"load", "map", "write", "apply"}

\* The phases each operation goes through.
OnPath(r) ==
  \/ r.op = "none"    /\ r.at = "idle"
  \/ r.op = "startup" /\ r.at \in {"load", "attach", "apply"}
  \/ r.op = "initial" /\ r.at \in {"map", "apply"}
  \/ r.op \in {"reload", "reconcile"} /\ r.at \in {"lock", "load", "map", "apply"}
  \/ r.op = "open"    /\ r.at \in {"lock", "load", "map", "write", "apply"}
  \/ r.op = "close"   /\ r.at \in {"lock", "load", "write", "apply"}

\* Which thread does what in which state of the process.
Roles ==
  /\ \A c \in Clis : job[c].op = "none"
  /\ \A j \in Procs : OnPath(job[j])
  /\ job[Ctl].op \in {"none", "open", "close", "reconcile"}
  /\ up = "down"     => job[Main].op = "none" /\ job[Ctl].op = "none"
  /\ up = "starting" => job[Main].op \in {"startup", "initial"} /\ job[Ctl].op = "none"
  /\ up = "serving"  => job[Main].op \in {"none", "reload"}

\* The mutex is held from the load step to the end of a job, and only then.
Mutex ==
  /\ up # "serving" => lock = NoLock
  /\ up = "serving" => \A j \in Threads : job[j].at \in Holding <=> lock = j

\* Before the rename: what a job will not touch is the same in want and file f.
Ahead(r, f) ==
  /\ \A p \in Ports \ (r.puts \cup r.dels) : SlotOf(r.want, p) = SlotOf(f, p)
  /\ r.dels \cap Bound(r.want) = {}
  /\ r.op \in {"initial", "reload", "reconcile"} => r.want = f

\* After it: file f is what was wanted, and what is left to do brings map m there.
Behind(r, f, m) ==
  /\ r.want = f
  /\ \A p \in Ports \ (r.puts \cup r.dels) : m[p] = SlotOf(f, p)
  /\ r.dels \cap Bound(r.want) = {}
  /\ r.op \in Strict => r.dels \subseteq Open(m)

Progress(r, f, m) ==
  /\ r.op \in {"startup", "initial", "open", "reload", "reconcile"} /\ r.at # "apply"
       => r.dels = {}
  /\ r.op = "startup" => r.dels = {}
  /\ r.op = "startup" /\ r.at \in {"attach", "apply"} => r.want = f
  /\ r.op # "startup" /\ r.at \in {"map", "write"} => Ahead(r, f)
  /\ r.op # "startup" /\ r.at = "apply" => Behind(r, f, m)

SyncInv ==
  /\ Typed /\ Roles /\ Mutex
  /\ \A j \in Threads : Progress(job[j], file, map)
  /\ up = "serving" /\ (\A j \in Threads : job[j].at # "apply") => Synced

LEMMA ThreadFacts ==
  /\ Main \in Threads /\ Ctl \in Threads /\ Main # Ctl /\ Threads \subseteq Procs
  /\ NoLock \notin Threads /\ Clis \cap Threads = {}
  BY ProcsFacts, ControlAssumption DEF Threads, Main, Ctl, NoLock

LEMMA IdleFacts ==
  Idle.op = "none" /\ Idle.at = "idle" /\ Idle.puts = {} /\ Idle.dels = {}
  BY DEF Idle, Start

LEMMA SyncInit == Init => SyncInv
<1> SUFFICES ASSUME Init PROVE SyncInv
  OBVIOUS
<1>1. Roles /\ Mutex
  BY ThreadFacts DEF Init, Roles, Mutex, OnPath, Idle, Start, Procs, Threads
<1>2. \A j \in Threads : Progress(job[j], file, map)
  BY ThreadFacts DEF Init, Progress, Idle, Start
<1> QED BY <1>1, <1>2, TypedInit DEF Init, SyncInv

\* While one thread holds the mutex, the other one is idle or waits for it.
LEMMA OtherWaits ==
  ASSUME SyncInv, NEW j \in Threads, NEW i \in Threads, i # j,
         up = "serving", lock = j
  PROVE  job[i].at \in {"idle", "lock"}
  BY ThreadFacts DEF SyncInv, Roles, Mutex, OnPath, Holding, Threads

LEMMA WaitingProgress ==
  ASSUME NEW r, NEW f, NEW m, NEW f2, NEW m2, Progress(r, f, m),
         r.at \in {"idle", "lock"}
  PROVE  Progress(r, f2, m2)
  BY DEF Progress

\* The holder of the mutex moves on and keeps it.
LEMMA Advance ==
  ASSUME SyncInv, Typed', NEW j \in Threads, NEW r, up = "serving", lock = j,
         job' = [job EXCEPT ![j] = r], UNCHANGED <<up, lock>>,
         r.op = job[j].op, OnPath(r), r.at \in Holding,
         Progress(r, file', map'), r.at # "apply" => Synced'
  PROVE  SyncInv'
<1>1. job'[j] = r /\ \A i \in Procs : i # j => job'[i] = job[i]
  BY ThreadFacts DEF SyncInv, Typed, TypeOK
<1>2. Roles'
  BY <1>1, ThreadFacts DEF SyncInv, Roles
<1>3. Mutex'
  BY <1>1, ThreadFacts DEF SyncInv, Mutex
<1>4. ASSUME NEW i \in Threads PROVE Progress(job'[i], file', map')
  BY <1>1, OtherWaits, WaitingProgress, ThreadFacts DEF SyncInv
<1> QED BY <1>1, <1>2, <1>3, <1>4 DEF SyncInv

\* The holder of the mutex is done and the map is the file.
LEMMA Ends ==
  ASSUME SyncInv, Typed', NEW j \in Threads, up = "serving", lock = j,
         Return(j), UNCHANGED up, Synced'
  PROVE  SyncInv'
<1>1. /\ job'[j] = Idle /\ \A i \in Procs : i # j => job'[i] = job[i]
      /\ lock' = NoLock
  BY ThreadFacts DEF SyncInv, Typed, TypeOK, Return, Release
<1>2. Roles'
  <2>1. OnPath(Idle)
    BY IdleFacts DEF OnPath
  <2>2. job'[Ctl] = job[Ctl] \/ job'[Ctl].op = "none"
    BY <1>1, IdleFacts, ThreadFacts
  <2>3. job'[Main] = job[Main] \/ job'[Main].op = "none"
    BY <1>1, IdleFacts, ThreadFacts
  <2>4. \A c \in Clis : job'[c].op = "none"
    BY <1>1, ThreadFacts DEF SyncInv, Roles, Procs
  <2>5. \A i \in Procs : OnPath(job'[i])
    BY <1>1, <2>1 DEF SyncInv, Roles
  <2> QED BY <2>2, <2>3, <2>4, <2>5 DEF SyncInv, Roles
<1>3. Mutex'
  <2>1. ASSUME NEW i \in Threads PROVE job'[i].at \notin Holding /\ lock' # i
    BY <1>1, OtherWaits, ThreadFacts DEF Idle, Start, Holding
  <2> QED BY <1>1, <2>1 DEF Mutex
<1>4. ASSUME NEW i \in Threads PROVE Progress(job'[i], file', map')
  <2>1. CASE i = j
    BY <1>1, <2>1 DEF Progress, Idle, Start
  <2>2. CASE i # j
    BY <1>1, <2>2, OtherWaits, WaitingProgress, ThreadFacts DEF SyncInv
  <2> QED BY <2>1, <2>2
<1> QED BY <1>2, <1>3, <1>4 DEF SyncInv

LEMMA GoneSync ==
  ASSUME SyncInv, Typed', LoaderGone
  PROVE  SyncInv'
<1>1. /\ job'[Main] = Idle /\ job'[Ctl] = Idle
      /\ \A i \in Procs \ Threads : job'[i] = job[i]
      /\ up' = "down" /\ lock' = NoLock
  BY ThreadFacts DEF SyncInv, Typed, TypeOK, LoaderGone, Threads
<1>2. Roles'
  BY <1>1, ThreadFacts DEF SyncInv, Roles, OnPath, Idle, Start, Procs, Threads
<1>3. Mutex'
  BY <1>1 DEF Mutex
<1>4. \A i \in Threads : Progress(job'[i], file', map')
  BY <1>1 DEF Progress, Idle, Start, Threads
<1> QED BY <1>1, <1>2, <1>3, <1>4 DEF SyncInv

\* Whoever runs a request or a reload past the lock holds the mutex.
LEMMA Holder ==
  ASSUME SyncInv, NEW j \in Threads, job[j].at \in Holding,
         job[j].op \notin {"startup", "initial"}
  PROVE  /\ up = "serving" /\ lock = j
         /\ job[j].at # "apply" => Synced
<1>1. up = "serving"
  BY ThreadFacts DEF SyncInv, Roles, OnPath, Holding, Threads, Typed, TypeOK
<1>2. lock = j
  BY <1>1 DEF SyncInv, Mutex
<1>3. ASSUME job[j].at # "apply" PROVE Synced
  <2>1. \A i \in Threads : job[i].at # "apply"
    BY <1>1, <1>2, <1>3, OtherWaits
  <2> QED BY <1>1, <2>1 DEF SyncInv
<1> QED BY <1>1, <1>2, <1>3

\* A load step that finds nothing to do or refuses the request.
LEMMA Refuses ==
  ASSUME SyncInv, Typed', NEW j \in Threads, job[j].at \in {"load", "map"},
         job[j].op \notin {"startup", "initial"},
         Return(j), UNCHANGED <<disk, kern, env, ldr>>
  PROVE  SyncInv'
<1>1. up = "serving" /\ lock = j /\ Synced
  BY Holder DEF Holding
<1>2. Synced' /\ UNCHANGED up
  BY <1>1 DEF Synced, SlotOf, disk, kern, ldr
<1> QED BY <1>1, <1>2, Ends

LEMMA LoadSync ==
  ASSUME SyncInv, Typed', NEW j \in Threads,
         LoadOpen(j) \/ LoadClose(j) \/ LoadReconcile(j) \/ (LoadReload /\ j = Main)
  PROVE  SyncInv'
<1>0. /\ job[j].at = "load" /\ job[j].op \notin {"none", "startup", "initial"}
      /\ UNCHANGED <<disk, kern, env, ldr>>
  BY DEF LoadOpen, LoadClose, LoadReconcile, LoadReload, At, Opens, Closes
<1>1. up = "serving" /\ lock = j /\ Synced
  BY <1>0, Holder DEF Holding
<1>2. Synced' /\ UNCHANGED <<up, file, map>>
  BY <1>0, <1>1 DEF Synced, SlotOf, disk, kern, ldr
<1>3. /\ job[j] \in Job /\ OnPath(job[j]) /\ job[j].puts = {}
      /\ job[j].op # "close" => job[j].dels = {}
      /\ file \in Desired /\ job[j].op \in {"open", "close", "reconcile", "reload"}
  BY <1>0, ThreadFacts DEF SyncInv, Typed, TypeOK, JobsSound, Sound, Unplanned, Roles,
                           Progress, OnPath
<1>4. CASE Return(j)
  BY <1>0, <1>4, Refuses
<1>5. CASE LoadOpen(j) /\ ~Return(j)
  <2> DEFINE want == Overlay(file, job[j].want)
  <2>1. PICK r : r = [job[j] EXCEPT !.at = "map", !.want = want,
                                    !.puts = Bound(job[j].want), !.real = real]
    OBVIOUS
  <2>2. job' = [job EXCEPT ![j] = r] /\ UNCHANGED lock /\ job[j].op = "open"
    BY <1>3, <1>5, <2>1 DEF LoadOpen, At, Opens
  <2>3. /\ r.at = "map" /\ r.op = "open" /\ r.want = want
        /\ r.puts = Bound(job[j].want) /\ r.dels = {}
    BY <1>3, <2>1, <2>2 DEF Job
  <2>4. \A p \in Ports \ r.puts : SlotOf(want, p) = SlotOf(file, p)
    BY <2>3 DEF Bound, Overlay, SlotOf
  <2>5. Ahead(r, file)
    BY <2>3, <2>4 DEF Ahead
  <2>6. OnPath(r) /\ Progress(r, file, map)
    BY <2>3, <2>5 DEF OnPath, Progress
  <2> QED BY <1>1, <1>2, <2>2, <2>3, <2>6, Advance DEF Holding
<1>6. CASE LoadClose(j) /\ ~Return(j)
  <2> DEFINE want == Without(file, job[j].dels)
  <2>1. PICK r : r = [job[j] EXCEPT !.at = "write", !.want = want]
    OBVIOUS
  <2>2. job' = [job EXCEPT ![j] = r] /\ UNCHANGED lock /\ job[j].op = "close"
    BY <1>3, <1>6, <2>1 DEF LoadClose, At, Closes
  <2>3. /\ r.at = "write" /\ r.op = "close" /\ r.want = want
        /\ r.puts = {} /\ r.dels = job[j].dels /\ r.dels \subseteq Ports
    BY <1>3, <2>1, <2>2 DEF Job
  <2>4. Ahead(r, file)
    BY <2>3 DEF Ahead, Bound, Without, SlotOf
  <2>5. OnPath(r) /\ Progress(r, file, map)
    BY <2>3, <2>4 DEF OnPath, Progress
  <2> QED BY <1>1, <1>2, <2>2, <2>3, <2>5, Advance DEF Holding
<1>7. CASE (LoadReconcile(j) \/ (LoadReload /\ j = Main)) /\ ~Return(j)
  <2>1. PICK r : /\ \/ r = [job[j] EXCEPT !.at = "map", !.want = file, !.real = real]
                    \/ r = [job[j] EXCEPT !.at = "map", !.want = file]
                 /\ job' = [job EXCEPT ![j] = r]
    <3>1. CASE LoadReconcile(j) /\ ~Return(j)
      <4>1. job' = [job EXCEPT ![j] = [job[j] EXCEPT !.at = "map", !.want = file,
                                                     !.real = real]]
        BY <3>1 DEF LoadReconcile
      <4> QED BY <4>1
    <3>2. CASE LoadReload /\ j = Main /\ ~Return(j)
      <4>1. job' = [job EXCEPT ![j] = [job[j] EXCEPT !.at = "map", !.want = file]]
        BY <3>2 DEF LoadReload
      <4> QED BY <4>1
    <3> QED BY <1>7, <3>1, <3>2
  <2>2. UNCHANGED lock /\ job[j].op \in {"reconcile", "reload"}
    BY <1>7 DEF LoadReconcile, LoadReload, At
  <2>3. /\ r.at = "map" /\ r.op = job[j].op /\ r.want = file
        /\ r.puts = {} /\ r.dels = {}
    BY <1>3, <2>1, <2>2 DEF Job
  <2>4. Ahead(r, file)
    BY <2>3 DEF Ahead
  <2>5. OnPath(r) /\ Progress(r, file, map)
    BY <2>2, <2>3, <2>4 DEF OnPath, Progress
  <2>6. job' = [job EXCEPT ![j] = r] /\ r.at \in Holding /\ UNCHANGED lock
    BY <2>1, <2>2, <2>3 DEF Holding
  <2>7. Progress(r, file', map')
    BY <1>2, <2>5
  <2> QED BY <1>1, <1>2, <2>3, <2>5, <2>6, <2>7, Advance
<1> QED BY <1>4, <1>5, <1>6, <1>7

\* Once the file is what a job wants, its plan against the map is exact.
LEMMA PlanBehind ==
  ASSUME NEW f \in Desired, NEW m \in [Ports -> Slots \cup {Closed}], NEW r,
         r.want = f, r.puts = PlanPuts(f, m), r.dels = PlanDels(f, m)
  PROVE  Behind(r, f, m)
<1>1. ASSUME NEW p \in Ports \ (r.puts \cup r.dels) PROVE m[p] = SlotOf(f, p)
  <2>1. CASE p \in Bound(f)
    BY <2>1 DEF PlanPuts, SlotOf, Bound
  <2>2. CASE p \notin Bound(f)
    BY <2>2 DEF PlanDels, SlotOf, Bound, Open
  <2> QED BY <2>1, <2>2
<1> QED BY <1>1 DEF Behind, PlanDels

\* One key deleted.
LEMMA DeleteBehind ==
  ASSUME NEW f \in Desired, NEW m \in [Ports -> Slots \cup {Closed}],
         NEW r \in Job, NEW p \in r.dels, NEW q, NEW m2, Behind(r, f, m),
         q.op = r.op, q.want = r.want, q.puts = r.puts, q.dels = r.dels \ {p},
         m2 = [m EXCEPT ![p] = Closed]
  PROVE  Behind(q, f, m2)
<1>1. p \in Ports /\ p \notin Bound(f)
  BY DEF Behind, Job
<1>2. m2[p] = SlotOf(f, p) /\ \A x \in Ports : x # p => m2[x] = m[x]
  BY <1>1 DEF SlotOf, Bound
<1>3. \A x \in Ports \ (q.puts \cup q.dels) : m2[x] = SlotOf(f, x)
  BY <1>1, <1>2 DEF Behind
<1>4. r.dels \subseteq Open(m) => q.dels \subseteq Open(m2)
  BY <1>2 DEF Open
<1> QED BY <1>3, <1>4 DEF Behind

\* The rename: the untouched rest of the map is already the new file.
LEMMA RenameBehind ==
  ASSUME NEW r \in Job, NEW q, Ahead(r, file), Synced, r.op \notin Strict,
         q.op = r.op, q.want = r.want, q.puts = r.puts, q.dels = r.dels
  PROVE  Behind(q, r.want, map)
  BY DEF Ahead, Behind, Synced

\* What every step of the holder of the mutex may use about its job.
LEMMA HolderJob ==
  ASSUME SyncInv, NEW j \in Threads
  PROVE  /\ j \in Procs /\ job[j] \in Job /\ OnPath(job[j])
         /\ job[j].puts \subseteq Bound(job[j].want)
         /\ file \in Desired /\ map \in [Ports -> Slots \cup {Closed}]
         /\ Progress(job[j], file, map)
  BY ThreadFacts DEF SyncInv, Typed, TypeOK, JobsSound, Sound, Roles

\* One key put: it gets its slot and nothing else in the map changes.
LEMMA PutBehind ==
  ASSUME SyncInv, NEW j \in Threads, NEW p \in Ports, Put(j, p),
         Behind(job[j], file, map), NEW r,
         r.op = job[j].op, r.want = job[j].want, r.dels = job[j].dels,
         r.puts = job[j].puts \ {p}
  PROVE  Behind(r, file, map')
<1>1. /\ file \in Desired /\ map \in [Ports -> Slots \cup {Closed}]
      /\ job[j].puts \subseteq Bound(job[j].want)
  BY HolderJob
<1>2. p \in job[j].puts /\ map' = [map EXCEPT ![p] = job[j].want[p].slot]
  BY DEF Put
<1>3. /\ p \in Bound(file) /\ p \notin job[j].dels /\ r.want = file
      /\ map'[p] = file[p].slot /\ \A x \in Ports : x # p => map'[x] = map[x]
  BY <1>1, <1>2 DEF Behind
<1>4. map'[p] = SlotOf(file, p) /\ map'[p] # Closed
  BY <1>1, <1>3, BoundSlots DEF SlotOf, Bound, Slots, Closed
<1>5. \A x \in Ports \ (r.puts \cup r.dels) : map'[x] = SlotOf(file, x)
  BY <1>3, <1>4 DEF Behind
<1>6. job[j].dels \subseteq Open(map) => r.dels \subseteq Open(map')
  BY <1>3 DEF Open
<1> QED BY <1>3, <1>5, <1>6 DEF Behind

LEMMA MapOpenSync ==
  ASSUME SyncInv, Typed', NEW j \in Threads, MapOpen(j)
  PROVE  SyncInv'
<1>1. /\ job[j].at = "map" /\ job[j].op = "open" /\ job[j] \in Job
      /\ Ahead(job[j], file) /\ job[j].dels = {}
  BY HolderJob DEF MapOpen, At, Opens, OnPath, Progress
<1>2. up = "serving" /\ lock = j /\ Synced
  BY <1>1, Holder DEF Holding
<1>3. UNCHANGED <<file, map, up>> /\ Synced'
  BY <1>2 DEF MapOpen, disk, kern, ldr, Synced, SlotOf
<1>4. CASE Return(j)
  BY <1>2, <1>3, <1>4, Ends
<1>5. CASE ~Return(j)
  <2>1. PICK r : r = [job[j] EXCEPT !.at = "write"]
    OBVIOUS
  <2>2. job' = [job EXCEPT ![j] = r] /\ UNCHANGED lock
    BY <1>1, <1>5, <2>1 DEF MapOpen, FileOpens
  <2>3. /\ r.at = "write" /\ r.op = "open" /\ r.want = job[j].want
        /\ r.puts = job[j].puts /\ r.dels = {}
    BY <1>1, <2>1 DEF Job
  <2>4. OnPath(r) /\ Progress(r, file, map)
    BY <1>1, <2>3 DEF OnPath, Progress, Ahead
  <2> QED BY <1>1, <1>2, <1>3, <2>2, <2>3, <2>4, Advance DEF Holding
<1> QED BY <1>4, <1>5

LEMMA MapPlanSync ==
  ASSUME SyncInv, Typed', NEW j \in Threads, MapPlan(j), job[j].op # "initial"
  PROVE  SyncInv'
<1>1. /\ job[j].at = "map" /\ job[j].op \in {"reload", "reconcile"} /\ job[j] \in Job
      /\ job[j].want = file /\ file \in Desired /\ map \in [Ports -> Slots \cup {Closed}]
  BY HolderJob DEF MapPlan, At, Strict, Progress, Ahead
<1>2. up = "serving" /\ lock = j /\ Synced
  BY <1>1, Holder DEF Holding
<1>3. UNCHANGED <<file, map, up>> /\ Synced'
  BY <1>2 DEF MapPlan, disk, kern, ldr, Synced, SlotOf
<1>4. CASE Return(j)
  BY <1>2, <1>3, <1>4, Ends
<1>5. CASE ~Return(j)
  <2>1. PICK r : r = [job[j] EXCEPT !.at = "apply", !.puts = PlanPuts(file, map),
                                    !.dels = PlanDels(file, map)]
    OBVIOUS
  <2>2. job' = [job EXCEPT ![j] = r] /\ UNCHANGED lock
    BY <1>1, <1>5, <2>1 DEF MapPlan
  <2>3. /\ r.at = "apply" /\ r.op = job[j].op /\ r.want = file
        /\ r.puts = PlanPuts(file, map) /\ r.dels = PlanDels(file, map)
    BY <1>1, <2>1 DEF Job
  <2>4. Behind(r, file, map)
    BY <1>1, <2>3, PlanBehind
  <2>5. OnPath(r) /\ Progress(r, file, map)
    BY <1>1, <2>3, <2>4 DEF OnPath, Progress
  <2> QED BY <1>2, <1>3, <2>2, <2>3, <2>5, Advance DEF Holding
<1> QED BY <1>4, <1>5

LEMMA WriteFileSync ==
  ASSUME SyncInv, Typed', NEW j \in Threads, WriteFile(j)
  PROVE  SyncInv'
<1>1. /\ job[j].at = "write" /\ job[j].op \in {"open", "close"} /\ job[j] \in Job
      /\ Ahead(job[j], file)
  BY HolderJob DEF WriteFile, OnPath, Progress
<1>2. up = "serving" /\ lock = j /\ Synced
  BY <1>1, Holder DEF Holding
<1>3. PICK r : r = [job[j] EXCEPT !.at = "apply"]
  OBVIOUS
<1>4. /\ job' = [job EXCEPT ![j] = r] /\ UNCHANGED <<map, up, lock>>
      /\ file' = job[j].want
  BY <1>1, <1>3 DEF WriteFile, kern, ldr
<1>5. /\ r.at = "apply" /\ r.op = job[j].op /\ r.want = job[j].want
      /\ r.puts = job[j].puts /\ r.dels = job[j].dels
  BY <1>1, <1>3 DEF Job
<1>6. Behind(r, job[j].want, map)
  BY <1>1, <1>2, <1>5, RenameBehind DEF Strict
<1>7. OnPath(r) /\ Progress(r, file', map')
  BY <1>1, <1>4, <1>5, <1>6 DEF OnPath, Progress
<1> QED BY <1>2, <1>4, <1>5, <1>7, Advance DEF Holding

LEMMA KeySync ==
  ASSUME SyncInv, Typed', NEW j \in Threads, NEW p \in Ports,
         Put(j, p) \/ Delete(j, p), job[j].op \notin {"startup", "initial"}
  PROVE  SyncInv'
<1>1. /\ job[j].at = "apply" /\ job[j] \in Job /\ OnPath(job[j])
      /\ Behind(job[j], file, map) /\ job[j].puts \subseteq Bound(job[j].want)
      /\ file \in Desired /\ map \in [Ports -> Slots \cup {Closed}]
  BY HolderJob DEF Put, Delete, Progress
<1>2. up = "serving" /\ lock = j
  BY <1>1, Holder DEF Holding
<1>3. CASE Put(j, p)
  <2>1. PICK r : r = [job[j] EXCEPT !.puts = job[j].puts \ {p}]
    OBVIOUS
  <2>2. /\ job' = [job EXCEPT ![j] = r] /\ UNCHANGED <<file, up, lock>>
        /\ map' = [map EXCEPT ![p] = job[j].want[p].slot] /\ p \in job[j].puts
    BY <1>3, <2>1 DEF Put, disk, ldr
  <2>3. /\ r.at = "apply" /\ r.op = job[j].op /\ r.want = job[j].want
        /\ r.puts = job[j].puts \ {p} /\ r.dels = job[j].dels
    BY <1>1, <2>1 DEF Job
  <2>4. Behind(r, file, map')
    BY <1>1, <1>3, <2>3, PutBehind
  <2>5. OnPath(r) /\ Progress(r, file', map')
    BY <1>1, <2>2, <2>3, <2>4 DEF OnPath, Progress
  <2> QED BY <1>2, <2>2, <2>3, <2>5, Advance DEF Holding
<1>4. CASE Delete(j, p)
  <2>1. PICK r : r = [job[j] EXCEPT !.dels = job[j].dels \ {p}]
    OBVIOUS
  <2>2. p \in job[j].dels /\ ~(job[j].op \in Strict /\ map[p] = Closed)
    BY <1>1, <1>4 DEF Delete, Behind, Open
  <2>3. /\ job' = [job EXCEPT ![j] = r] /\ UNCHANGED <<file, up, lock>>
        /\ map' = [map EXCEPT ![p] = Closed]
    BY <1>4, <2>1, <2>2 DEF Delete, disk, ldr
  <2>4. /\ r.at = "apply" /\ r.op = job[j].op /\ r.want = job[j].want
        /\ r.puts = job[j].puts /\ r.dels = job[j].dels \ {p}
    BY <1>1, <2>1 DEF Job
  <2>5. Behind(r, file, map')
    BY <1>1, <2>2, <2>3, <2>4, DeleteBehind
  <2>6. OnPath(r) /\ Progress(r, file', map')
    BY <1>1, <2>3, <2>4, <2>5 DEF OnPath, Progress
  <2> QED BY <1>2, <2>3, <2>4, <2>6, Advance DEF Holding
<1> QED BY <1>3, <1>4

LEMMA FinishSync ==
  ASSUME SyncInv, Typed', NEW j \in Threads, Finish(j)
  PROVE  SyncInv'
<1>1. /\ job[j].at = "apply" /\ job[j].op \notin {"startup", "initial"}
      /\ Behind(job[j], file, map) /\ job[j].puts = {} /\ job[j].dels = {}
  BY HolderJob DEF Finish, Applied, Progress
<1>2. up = "serving" /\ lock = j
  BY <1>1, Holder DEF Holding
<1>3. Synced
  BY <1>1 DEF Behind, Synced
<1>4. Return(j) /\ Synced' /\ UNCHANGED up
  BY <1>3 DEF Finish, Synced, SlotOf, disk, kern, ldr
<1> QED BY <1>2, <1>4, Ends

LEMMA LockSync ==
  ASSUME SyncInv, Typed', NEW j \in Threads, LockMutex(j)
  PROVE  SyncInv'
<1>1. /\ job[j].at = "lock" /\ job[j] \in Job /\ OnPath(job[j]) /\ lock = NoLock
      /\ Progress(job[j], file, map) /\ j \in Procs
  BY HolderJob DEF LockMutex
<1>2. up = "serving"
  BY <1>1, ThreadFacts DEF SyncInv, Roles, OnPath, Threads, Typed, TypeOK
<1>3. PICK r : r = [job[j] EXCEPT !.at = "load"]
  OBVIOUS
<1>4. /\ job' = [job EXCEPT ![j] = r] /\ UNCHANGED <<file, map, up>> /\ lock' = j
  BY <1>3 DEF LockMutex, disk, kern, ldr
<1>5. /\ r.at = "load" /\ r.op = job[j].op /\ r.want = job[j].want
      /\ r.puts = job[j].puts /\ r.dels = job[j].dels
  BY <1>1, <1>3 DEF Job
<1>6. job'[j] = r /\ \A i \in Procs : i # j => job'[i] = job[i]
  BY <1>1, <1>4 DEF SyncInv, Typed, TypeOK
<1>7. OnPath(r) /\ Progress(r, file, map)
  BY <1>1, <1>5 DEF OnPath, Progress
<1>8. Roles'
  BY <1>4, <1>5, <1>6, <1>7, ThreadFacts DEF SyncInv, Roles
<1>9. \A i \in Threads : job[i].at \notin Holding
  BY <1>1, <1>2, ThreadFacts DEF SyncInv, Mutex
<1>10. Mutex'
  BY <1>2, <1>4, <1>5, <1>6, <1>9, ThreadFacts DEF Mutex, Holding
<1>11. \A i \in Threads : Progress(job'[i], file', map')
  BY <1>4, <1>6, <1>7, ThreadFacts DEF SyncInv
<1>12. Synced'
  BY <1>2, <1>4, <1>9 DEF SyncInv, Synced, SlotOf, Holding
<1> QED BY <1>8, <1>10, <1>11, <1>12 DEF SyncInv

\* The loader's own start: no request is served, so no mutex and no claim on the map
\* until the initial reconcile, whose plan is then the job's whole distance to it.
LEMMA BootStep ==
  ASSUME SyncInv, Typed', NEW r, up = "starting", UNCHANGED <<up, lock>>,
         job' = [job EXCEPT ![Main] = r], OnPath(r),
         r.op \in {"startup", "initial"}, Progress(r, file', map')
  PROVE  SyncInv'
<1>1. /\ job'[Main] = r /\ \A i \in Procs : i # Main => job'[i] = job[i]
      /\ job[Ctl].op = "none" /\ job[Ctl].at = "idle"
  BY ThreadFacts DEF SyncInv, Typed, TypeOK, Roles, OnPath
<1>2. Roles'
  BY <1>1, ThreadFacts DEF SyncInv, Roles
<1>3. Mutex'
  BY DEF SyncInv, Mutex
<1>4. ASSUME NEW i \in Threads PROVE Progress(job'[i], file', map')
  BY <1>1, WaitingProgress, ThreadFacts DEF SyncInv, Threads
<1> QED BY <1>2, <1>3, <1>4 DEF SyncInv

LEMMA BootRunning ==
  ASSUME SyncInv, job[Main].op \in {"startup", "initial"}
  PROVE  up = "starting"
  BY DEF SyncInv, Roles, Typed, TypeOK

LEMMA BootSync ==
  ASSUME SyncInv, Typed',
         \/ LoadStartup \/ AttachAndPin \/ BeginInitialReconcile
         \/ (MapPlan(Main) /\ job[Main].op = "initial")
  PROVE  SyncInv'
<1>0. /\ job[Main] \in Job /\ OnPath(job[Main]) /\ Progress(job[Main], file, map)
      /\ file \in Desired /\ map \in [Ports -> Slots \cup {Closed}]
  BY HolderJob, ThreadFacts
<1>1. CASE LoadStartup
  <2>1. CASE LoaderGone
    BY <2>1, GoneSync
  <2>2. CASE ~LoaderGone
    <3>1. PICK r : r = [job[Main] EXCEPT !.at = "attach",
                                         !.want = IF haveFile THEN file ELSE Seed]
      OBVIOUS
    <3>2. /\ job' = [job EXCEPT ![Main] = r] /\ UNCHANGED <<map, up, lock>>
          /\ file' = (IF haveFile THEN file ELSE Seed) /\ job[Main].op = "startup"
      BY <1>1, <2>2, <3>1 DEF LoadStartup, At, kern, ldr
    <3>3. /\ r.at = "attach" /\ r.op = "startup" /\ r.want = file'
          /\ r.dels = job[Main].dels
      BY <1>0, <3>1, <3>2 DEF Job
    <3>4. OnPath(r) /\ Progress(r, file', map')
      BY <1>0, <3>2, <3>3 DEF OnPath, Progress
    <3> QED BY <3>2, <3>3, <3>4, BootRunning, BootStep
  <2> QED BY <2>1, <2>2
<1>2. CASE AttachAndPin
  <2>1. PICK r : r = [job[Main] EXCEPT !.at = "apply", !.puts = Bound(job[Main].want)]
    OBVIOUS
  <2>2. /\ job' = [job EXCEPT ![Main] = r] /\ UNCHANGED <<file, map, up, lock>>
        /\ job[Main].op = "startup" /\ job[Main].at = "attach"
    BY <1>2, <2>1 DEF AttachAndPin, At, disk, ldr
  <2>3. /\ r.at = "apply" /\ r.op = "startup" /\ r.want = job[Main].want
        /\ r.dels = job[Main].dels
    BY <1>0, <2>1, <2>2 DEF Job
  <2>4. OnPath(r) /\ Progress(r, file', map')
    BY <1>0, <2>2, <2>3 DEF OnPath, Progress
  <2> QED BY <2>2, <2>3, <2>4, BootRunning, BootStep
<1>3. CASE BeginInitialReconcile
  <2>1. PICK r : r = [job[Main] EXCEPT !.op = "initial", !.at = "map"]
    OBVIOUS
  <2>2. /\ job' = [job EXCEPT ![Main] = r] /\ UNCHANGED <<file, map, up, lock>>
        /\ job[Main].op = "startup" /\ job[Main].at = "apply"
        /\ job[Main].puts = {} /\ job[Main].dels = {}
    BY <1>3, <2>1 DEF BeginInitialReconcile, Applied, disk, kern, ldr
  <2>3. /\ r.at = "map" /\ r.op = "initial" /\ r.want = file
        /\ r.puts = {} /\ r.dels = {}
    BY <1>0, <2>1, <2>2 DEF Job, Progress
  <2>4. OnPath(r) /\ Progress(r, file', map')
    BY <2>2, <2>3 DEF OnPath, Progress, Ahead
  <2> QED BY <2>2, <2>3, <2>4, BootRunning, BootStep
<1>4. CASE MapPlan(Main) /\ job[Main].op = "initial"
  <2>1. job[Main].want = file
    BY <1>0, <1>4 DEF MapPlan, At, Progress, Ahead
  <2>2. PICK r : r = [job[Main] EXCEPT !.at = "apply", !.puts = PlanPuts(file, map),
                                       !.dels = PlanDels(file, map)]
    OBVIOUS
  <2>3. job' = [job EXCEPT ![Main] = r] /\ UNCHANGED <<file, map, up, lock>>
    BY <1>4, <2>1, <2>2 DEF MapPlan, disk, kern, ldr
  <2>4. /\ r.at = "apply" /\ r.op = "initial" /\ r.want = file
        /\ r.puts = PlanPuts(file, map) /\ r.dels = PlanDels(file, map)
    BY <1>0, <1>4, <2>1, <2>2 DEF Job
  <2>5. Behind(r, file, map)
    BY <1>0, <2>4, PlanBehind
  <2>6. OnPath(r) /\ Progress(r, file', map')
    BY <2>3, <2>4, <2>5 DEF OnPath, Progress
  <2> QED BY <1>4, <2>3, <2>4, <2>6, BootRunning, BootStep
<1> QED BY <1>1, <1>2, <1>3, <1>4

\* Keys put or deleted before the loader serves.
LEMMA BootKeys ==
  ASSUME SyncInv, Typed', NEW p \in Ports, Put(Main, p) \/ Delete(Main, p),
         job[Main].op \in {"startup", "initial"}
  PROVE  SyncInv'
<1>0. /\ job[Main] \in Job /\ OnPath(job[Main]) /\ Progress(job[Main], file, map)
      /\ file \in Desired /\ map \in [Ports -> Slots \cup {Closed}]
      /\ job[Main].puts \subseteq Bound(job[Main].want) /\ job[Main].at = "apply"
  BY HolderJob, ThreadFacts DEF Put, Delete
<1>1. CASE Put(Main, p)
  <2>1. PICK r : r = [job[Main] EXCEPT !.puts = job[Main].puts \ {p}]
    OBVIOUS
  <2>2. /\ job' = [job EXCEPT ![Main] = r] /\ UNCHANGED <<file, up, lock>>
        /\ map' = [map EXCEPT ![p] = job[Main].want[p].slot] /\ p \in job[Main].puts
    BY <1>1, <2>1 DEF Put, disk, ldr
  <2>3. /\ r.at = "apply" /\ r.op = job[Main].op /\ r.want = job[Main].want
        /\ r.puts = job[Main].puts \ {p} /\ r.dels = job[Main].dels
    BY <1>0, <2>1 DEF Job
  <2>4. ASSUME job[Main].op = "initial" PROVE Behind(r, file, map')
    <3>1. Behind(job[Main], file, map)
      BY <1>0, <2>4 DEF Progress
    <3> QED BY <1>1, <2>3, <3>1, PutBehind, ThreadFacts
  <2>5. OnPath(r) /\ Progress(r, file', map')
    BY <1>0, <2>2, <2>3, <2>4 DEF OnPath, Progress
  <2> QED BY <2>2, <2>3, <2>5, BootRunning, BootStep
<1>2. CASE Delete(Main, p)
  <2>1. PICK r : r = [job[Main] EXCEPT !.dels = job[Main].dels \ {p}]
    OBVIOUS
  <2>2. /\ p \in job[Main].dels /\ job[Main].op = "initial"
        /\ Behind(job[Main], file, map)
    BY <1>0, <1>2 DEF Delete, Progress
  <2>3. map[p] # Closed
    BY <2>2 DEF Behind, Open, Strict
  <2>4. /\ job' = [job EXCEPT ![Main] = r] /\ UNCHANGED <<file, up, lock>>
        /\ map' = [map EXCEPT ![p] = Closed]
    BY <1>2, <2>1, <2>3 DEF Delete, disk, ldr
  <2>5. /\ r.at = "apply" /\ r.op = job[Main].op /\ r.want = job[Main].want
        /\ r.puts = job[Main].puts /\ r.dels = job[Main].dels \ {p}
    BY <1>0, <2>1 DEF Job
  <2>6. Behind(r, file, map')
    BY <1>0, <2>2, <2>4, <2>5, DeleteBehind
  <2>7. OnPath(r) /\ Progress(r, file', map')
    BY <1>0, <2>2, <2>4, <2>5, <2>6 DEF OnPath, Progress
  <2> QED BY <2>2, <2>4, <2>5, <2>7, BootRunning, BootStep
<1> QED BY <1>1, <1>2

\* The control socket opens on a map that was just reconciled; work begins.
LEMMA BeginSync ==
  ASSUME SyncInv, Typed', Serve \/ BeginReload \/ StartLoader \/ Request(Ctl)
  PROVE  SyncInv'
<1>0. /\ Main \in Procs /\ Ctl \in Procs /\ job \in [Procs -> Job]
      /\ Progress(job[Main], file, map) /\ Progress(job[Ctl], file, map)
  BY ThreadFacts DEF SyncInv, Typed, TypeOK
<1>1. CASE Serve
  <2>1. /\ job[Main].op = "initial" /\ job[Main].at = "apply"
        /\ job[Main].puts = {} /\ job[Main].dels = {}
        /\ job' = [job EXCEPT ![Main] = Idle] /\ up' = "serving"
        /\ UNCHANGED <<file, map, lock>>
    BY <1>1 DEF Serve, Applied, disk, kern
  <2>2. up = "starting" /\ lock = NoLock /\ job[Ctl].op = "none" /\ job[Ctl].at = "idle"
    BY <2>1, BootRunning, ThreadFacts DEF SyncInv, Roles, Mutex, OnPath
  <2>3. Synced
    BY <1>0, <2>1 DEF Progress, Behind, Synced
  <2>4. job'[Main] = Idle /\ \A i \in Procs : i # Main => job'[i] = job[i]
    BY <1>0, <2>1
  <2>5. Roles'
    BY <2>1, <2>2, <2>4, IdleFacts, ThreadFacts DEF SyncInv, Roles, OnPath
  <2>6. Mutex'
    BY <2>1, <2>2, <2>4, IdleFacts, ThreadFacts DEF Mutex, Holding, Threads
  <2>7. \A i \in Threads : Progress(job'[i], file', map')
    BY <2>2, <2>4, IdleFacts, ThreadFacts DEF Progress, Threads
  <2> QED BY <2>1, <2>3, <2>5, <2>6, <2>7 DEF SyncInv, Synced, SlotOf
<1>2. ASSUME NEW j \in Threads, NEW op, NEW want, NEW dels, UNCHANGED <<file, map, lock>>,
             job[j] = Idle, job' = [job EXCEPT ![j] = Start(op, "lock", want, dels)],
             up = "serving", UNCHANGED up, op = "close" \/ dels = {},
             op \in (IF j = Main THEN {"reload"} ELSE {"open", "close", "reconcile"})
      PROVE  SyncInv'
  <2>1. PICK r : r = Start(op, "lock", want, dels)
    OBVIOUS
  <2>2. r.op = op /\ r.at = "lock" /\ r.dels = dels
    BY <2>1 DEF Start
  <2>3. job'[j] = r /\ \A i \in Procs : i # j => job'[i] = job[i]
    BY <1>0, <1>2, <2>1, ThreadFacts
  <2>4. OnPath(r) /\ Progress(r, file, map)
    BY <1>2, <2>2, ThreadFacts DEF OnPath, Progress, Threads
  <2>5. Roles'
    <3>1. \A c \in Clis : job'[c].op = "none"
      BY <1>2, <2>3, ThreadFacts, ProcsFacts DEF SyncInv, Roles
    <3>2. \A i \in Procs : OnPath(job'[i])
      BY <2>3, <2>4 DEF SyncInv, Roles
    <3>3. job'[Ctl].op \in {"none", "open", "close", "reconcile"}
      BY <1>2, <2>2, <2>3, ThreadFacts DEF SyncInv, Roles, Threads
    <3>4. job'[Main].op \in {"none", "reload"}
      BY <1>2, <2>2, <2>3, ThreadFacts DEF SyncInv, Roles, Threads
    <3> QED BY <1>2, <3>1, <3>2, <3>3, <3>4 DEF Roles
  <2>6. Mutex'
    BY <1>2, <2>2, <2>3, IdleFacts, ThreadFacts DEF SyncInv, Mutex, Holding
  <2>7. \A i \in Threads : Progress(job'[i], file', map')
    BY <1>2, <2>3, <2>4, ThreadFacts DEF SyncInv
  <2>8. (\A i \in Threads : job'[i].at # "apply") => Synced'
    BY <1>2, <2>2, <2>3, IdleFacts, ThreadFacts DEF SyncInv, Synced, SlotOf
  <2> QED BY <2>5, <2>6, <2>7, <2>8 DEF SyncInv
<1>3. CASE BeginReload
  BY <1>2, <1>3, ThreadFacts DEF BeginReload, disk, kern
<1>4. CASE StartLoader
  <2>1. PICK r : r = Start("startup", "load", Nothing, {})
    OBVIOUS
  <2>2. r.op = "startup" /\ r.at = "load" /\ r.dels = {}
    BY <2>1 DEF Start
  <2>3. /\ job'[Main] = r /\ \A i \in Procs : i # Main => job'[i] = job[i]
        /\ up = "down" /\ up' = "starting" /\ UNCHANGED <<file, map, lock>>
    BY <1>0, <1>4, <2>1 DEF StartLoader, disk, kern
  <2>4. OnPath(r) /\ Progress(r, file, map)
    BY <2>2 DEF OnPath, Progress
  <2>5. Roles'
    <3>1. \A c \in Clis : job'[c].op = "none"
      BY <2>3, ThreadFacts, ProcsFacts DEF SyncInv, Roles
    <3>2. \A i \in Procs : OnPath(job'[i])
      BY <2>3, <2>4 DEF SyncInv, Roles
    <3>3. job'[Ctl].op = "none" /\ job'[Main].op = "startup"
      BY <2>2, <2>3, ThreadFacts, ProcsFacts DEF SyncInv, Roles
    <3> QED BY <2>3, <3>1, <3>2, <3>3 DEF Roles
  <2>6. Mutex'
    BY <2>3 DEF SyncInv, Mutex
  <2>7. \A i \in Threads : Progress(job'[i], file', map')
    BY <1>0, <2>3, <2>4, ThreadFacts DEF Threads
  <2> QED BY <2>3, <2>5, <2>6, <2>7 DEF SyncInv
<1>5. CASE Request(Ctl)
  <2>1. PICK op, want, dels :
          /\ op \in {"open", "close", "reconcile"}
          /\ Accept(Ctl, op, want, dels)
          /\ op = "close" \/ dels = {}
    <3>1. ASSUME NEW ports, NEW b, RequestOpen(Ctl, ports, b)
          PROVE  Accept(Ctl, "open", Ask(ports, b), {})
      BY <3>1 DEF RequestOpen
    <3>2. ASSUME NEW ports, NEW bulk, RequestClose(Ctl, ports, bulk)
          PROVE  Accept(Ctl, "close", Nothing, ports)
      BY <3>2 DEF RequestClose
    <3>3. ASSUME RequestReconcile(Ctl)
          PROVE  Accept(Ctl, "reconcile", Nothing, {})
      BY <3>3 DEF RequestReconcile
    <3> QED BY <1>5, <3>1, <3>2, <3>3 DEF Request
  <2>2. /\ job[Ctl] = Idle /\ up = "serving"
        /\ job' = [job EXCEPT ![Ctl] = Start(op, "lock", want, dels)]
        /\ UNCHANGED <<file, map, up, lock>>
    BY <2>1 DEF Accept, disk, kern, ldr
  <2> QED BY <1>2, <2>1, <2>2, ThreadFacts
<1> QED BY <1>1, <1>3, <1>4, <1>5

LEMMA SocketStepSync ==
  ASSUME SyncInv, Typed', SocketNext
  PROVE  SyncInv'
<1>1. ASSUME NEW j \in Threads, Step(j) PROVE SyncInv'
  <2>1. j \in Procs /\ OnPath(job[j])
    BY HolderJob
  <2>2. ASSUME NEW p \in Ports, Put(j, p) \/ Delete(j, p) PROVE SyncInv'
    <3>1. CASE job[j].op \notin {"startup", "initial"}
      BY <2>2, <3>1, KeySync
    <3>2. CASE job[j].op \in {"startup", "initial"}
      <4>1. j = Main
        BY <3>2 DEF SyncInv, Roles, Threads
      <4> QED BY <2>2, <3>2, <4>1, BootKeys
    <3> QED BY <3>1, <3>2
  <2>3. CASE MapPlan(j)
    <3>1. CASE job[j].op = "initial"
      <4>1. j = Main
        BY <3>1 DEF SyncInv, Roles, Threads
      <4> QED BY <2>3, <3>1, <4>1, BootSync
    <3> QED BY <2>3, <3>1, MapPlanSync
  <2> QED
    BY <1>1, <2>2, <2>3, LockSync, LoadSync, MapOpenSync, WriteFileSync, FinishSync
       DEF Step
<1>2. CASE MainStep
  BY <1>1, <1>2, BootSync, BeginSync, LoadSync, ThreadFacts DEF MainStep
<1>3. ASSUME UNCHANGED <<file, map, up, lock, job>> PROVE SyncInv'
  BY <1>3 DEF SyncInv, Roles, Mutex, Synced, SlotOf
<1>4. CASE Sighup \/ LoaderExits
  <2>1. CASE LoaderGone
    BY <2>1, GoneSync
  <2> QED BY <1>3, <1>4, <2>1 DEF Sighup, LoaderExits, disk, kern
<1>5. CASE EditPolicy \/ EditNginx \/ \E c \in Clis : Freeze(c, FALSE) \/ Unfreeze(c)
  BY <1>3, <1>5 DEF EditPolicy, EditNginx, Freeze, Unfreeze, disk, kern, ldr
<1> QED
  BY <1>1, <1>2, <1>4, <1>5, BeginSync, ThreadFacts DEF SocketNext, LoaderNext

\* With the product interface alone, whenever the loader serves and no mutation holds
\* the mutex, the live map is exactly ports.conf, after any history of requests,
\* reloads, crashes, restarts and policy changes (main.rs run_attached, sockctl.rs).
THEOREM MapFollowsFile == SocketSpec => []InSync
<1>1. SyncInv /\ [SocketNext]_vars => SyncInv'
  <2> SUFFICES ASSUME SyncInv, [SocketNext]_vars PROVE SyncInv'
    OBVIOUS
  <2>1. CASE UNCHANGED vars
    BY <2>1 DEF vars, SyncInv, Typed, TypeOK, JobsSound, Roles, Mutex, Synced, SlotOf
  <2>2. CASE SocketNext
    <3>1. Typed'
      BY <2>2, NextTyped DEF Next, SyncInv
    <3> QED BY <2>2, <3>1, SocketStepSync
  <2> QED BY <2>1, <2>2
<1>2. SyncInv => InSync
  <2> SUFFICES ASSUME SyncInv, up = "serving", lock = NoLock PROVE Synced
    BY DEF InSync
  <2>1. \A j \in Threads : job[j].at # "apply"
    BY ThreadFacts DEF SyncInv, Mutex, Holding
  <2> QED BY <2>1 DEF SyncInv
<1> QED BY <1>1, <1>2, SyncInit, PTL DEF SocketSpec
===============================================================================
