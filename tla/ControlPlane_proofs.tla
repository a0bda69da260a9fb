-------------------------- MODULE ControlPlane_proofs --------------------------
(***************************************************************************)
(* Machine-checked proofs about ControlPlane, for any number of ports,     *)
(* tenants, command-line processes and policies.                           *)
(***************************************************************************)
EXTENDS ControlPlane, TLAPS, FiniteSetTheorems

(***************************************************************************)
(* The operators on desired states stay inside Desired.                    *)
(***************************************************************************)

\* Nothing, a request, a merge and a removal are desired states (desired.rs).
LEMMA DesiredClosed ==
  /\ Nothing \in Desired
  /\ \A ports \in SUBSET Ports, b \in Binding : Ask(ports, b) \in Desired
  /\ \A x, y \in Desired : Overlay(x, y) \in Desired
  /\ \A x \in Desired, ports \in SUBSET Ports : Without(x, ports) \in Desired
  BY DEF Nothing, Ask, Overlay, Without, Desired

\* A plan names ports only, and gives a slot to every port it puts (desired.rs plan).
LEMMA BoundSlots ==
  ASSUME NEW x \in Desired, NEW p \in Bound(x)
  PROVE  p \in Ports /\ x[p] \in Binding /\ x[p].slot \in Slots
  BY DEF Bound, Desired, Binding

LEMMA JobTyped ==
  ASSUME NEW op \in Ops, NEW at \in Phases, NEW want \in Desired,
         NEW dels \in SUBSET Ports
  PROVE  Start(op, at, want, dels) \in Job
  BY DEF Start, Job

LEMMA IdleTyped == Idle \in Job
  BY JobTyped, DesiredClosed DEF Idle, Ops, Phases

LEMMA ProcsFacts == Main \in Procs /\ Ctl \in Procs /\ Clis \subseteq Procs
  BY DEF Procs

LEMMA ReturnTyped ==
  ASSUME TypeOK, NEW j \in Procs, Return(j)
  PROVE  job' \in [Procs -> Job] /\ lock' \in {Main, Ctl, NoLock}
  BY IdleTyped DEF Return, Release, TypeOK

LEMMA GoneTyped ==
  ASSUME TypeOK, LoaderGone
  PROVE  /\ job' \in [Procs -> Job] /\ lock' \in {Main, Ctl, NoLock}
         /\ up' \in {"down", "starting", "serving"} /\ reload' \in BOOLEAN
         /\ frozen' \in BOOLEAN
  BY IdleTyped, ProcsFacts DEF LoaderGone, TypeOK

(***************************************************************************)
(* Type correctness.  Two facts about jobs make it inductive: a command    *)
(* line never waits for the mutex, which is why only the loader's two      *)
(* threads ever hold it; and a job puts nothing but ports its own desired  *)
(* state binds, so that what lands in the map is a slot.                   *)
(***************************************************************************)

\* Nothing is planned before the desired file has been read.
Unplanned(r) == r.at \in {"idle", "lock", "load", "gate"} \/ r.op = "central"

Sound(j, r) ==
  /\ j \in Clis => r.at # "lock"
  /\ r.puts \subseteq Bound(r.want)
  /\ Unplanned(r) => r.puts = {}

JobsSound == \A j \in Procs : Sound(j, job[j])

Typed == TypeOK /\ JobsSound

LEMMA IdleSound == \A j \in Procs : Sound(j, Idle)
  BY DEF Sound, Idle, Start

LEMMA TypedInit == Init => Typed
<1> SUFFICES ASSUME Init PROVE Typed
  OBVIOUS
<1>1. TypeOK
  <2>1. file \in Desired /\ job \in [Procs -> Job]
    BY IdleTyped, DesiredClosed DEF Init
  <2>2. map \in [Ports -> Slots \cup {Closed}]
    BY DEF Init
  <2>3. edits \in 0..MaxEdits
    BY ControlAssumption DEF Init
  <2>4. /\ haveFile \in BOOLEAN /\ pinned \in BOOLEAN
        /\ frozen \in BOOLEAN /\ reload \in BOOLEAN
    BY DEF Init
  <2> QED BY <2>1, <2>2, <2>3, <2>4 DEF Init, TypeOK
<1>2. JobsSound
  BY IdleSound DEF Init, JobsSound
<1> QED BY <1>1, <1>2 DEF Typed

\* One job is replaced, everything else keeps its type.
LEMMA OneJob ==
  ASSUME Typed, NEW j \in Procs, NEW r \in Job,
         job' = [job EXCEPT ![j] = r], Sound(j, r)
  PROVE  job' \in [Procs -> Job] /\ JobsSound'
  BY ProcsFacts DEF Typed, TypeOK, JobsSound

LEMMA ReturnKeeps ==
  ASSUME Typed, NEW j \in Procs, Return(j)
  PROVE  job' \in [Procs -> Job] /\ JobsSound' /\ lock' \in {Main, Ctl, NoLock}
  BY IdleTyped, IdleSound, OneJob, ReturnTyped DEF Return, Typed

LEMMA GoneKeeps ==
  ASSUME Typed, LoaderGone
  PROVE  /\ job' \in [Procs -> Job] /\ JobsSound' /\ lock' \in {Main, Ctl, NoLock}
         /\ up' \in {"down", "starting", "serving"} /\ reload' \in BOOLEAN
         /\ frozen' \in BOOLEAN
  BY GoneTyped, IdleSound, ProcsFacts DEF Typed, TypeOK, LoaderGone, JobsSound

LEMMA AcceptTyped ==
  ASSUME Typed, NEW j \in Procs, NEW op \in Ops, NEW want \in Desired,
         NEW dels \in SUBSET Ports, Accept(j, op, want, dels)
  PROVE  Typed'
<1> DEFINE r == Start(op, IF j = Ctl THEN "lock" ELSE "load", want, dels)
<1>1. r \in Job
  BY JobTyped DEF Phases
<1>2. Sound(j, r)
  BY ControlAssumption DEF Start, Sound
<1>3. job' = [job EXCEPT ![j] = r]
  BY DEF Accept
<1>4. job' \in [Procs -> Job] /\ JobsSound'
  BY <1>1, <1>2, <1>3, OneJob
<1> QED
  BY <1>4 DEF Accept, Typed, TypeOK, disk, kern, env, ldr

LEMMA RequestTyped ==
  ASSUME Typed, NEW j \in Procs, Request(j)
  PROVE  Typed'
<1>1. ASSUME NEW ports \in PortSets, NEW b \in Binding, RequestOpen(j, ports, b)
      PROVE  Typed'
  <2>1. PICK op \in IF j = Ctl THEN {"open"} ELSE CliOps \cap {"open", "overlay"} :
          Accept(j, op, Ask(ports, b), {})
    BY <1>1 DEF RequestOpen
  <2>2. op \in Ops /\ Ask(ports, b) \in Desired
    BY <2>1, DesiredClosed DEF Ops, AllCliOps, PortSets
  <2> QED BY <2>1, <2>2, AcceptTyped
<1>2. ASSUME NEW ports \in PortSets, NEW bulk \in BOOLEAN, RequestClose(j, ports, bulk)
      PROVE  Typed'
  <2>1. PICK op \in IF j = Ctl THEN {"close"} ELSE CliOps \cap Closes :
          Accept(j, op, Nothing, ports)
    BY <1>2 DEF RequestClose
  <2>2. op \in Ops /\ ports \in SUBSET Ports
    BY <2>1 DEF Ops, AllCliOps, PortSets, Closes
  <2> QED BY <2>1, <2>2, AcceptTyped, DesiredClosed
<1>3. ASSUME RequestReconcile(j) PROVE Typed'
  BY <1>3, AcceptTyped, DesiredClosed DEF RequestReconcile, Ops, AllCliOps
<1> QED BY <1>1, <1>2, <1>3 DEF Request

\* A step that only moves one job on, or ends it.
LEMMA MoveTyped ==
  ASSUME Typed, NEW j \in Procs, NEW r \in Job,
         job' = [job EXCEPT ![j] = r], Sound(j, r),
         lock' \in {Main, Ctl, NoLock}, UNCHANGED <<disk, kern, env, ldr>>
  PROVE  Typed'
<1>1. job' \in [Procs -> Job] /\ JobsSound'
  BY OneJob
<1> QED BY <1>1 DEF Typed, TypeOK, disk, kern, env, ldr

LEMMA EndTyped ==
  ASSUME Typed, NEW j \in Procs, Return(j), UNCHANGED <<disk, kern, env, ldr>>
  PROVE  Typed'
  BY ReturnKeeps DEF Typed, TypeOK, disk, kern, env, ldr

LEMMA LoadOpenTyped ==
  ASSUME Typed, NEW j \in Procs, LoadOpen(j)
  PROVE  Typed'
<1> DEFINE ask  == job[j].want
           want == Overlay(file, ask)
           r    == [job[j] EXCEPT !.at = "map", !.want = want,
                                  !.puts = Bound(ask), !.real = real]
<1>1. job[j] \in Job /\ ask \in Desired /\ file \in Desired /\ real \in SUBSET Ports
  BY ControlAssumption DEF Typed, TypeOK, Job
<1>2. want \in Desired /\ Bound(ask) \in SUBSET Ports /\ "map" \in Phases
  BY <1>1, DesiredClosed DEF Bound, Phases
<1>3. Bound(ask) \subseteq Bound(want)
  BY DEF Bound, Overlay
<1>4. r \in Job /\ Sound(j, r)
  BY <1>1, <1>2, <1>3 DEF Job, Sound, Unplanned, LoadOpen, At, Opens
<1>5. CASE Return(j)
  BY <1>5, EndTyped DEF LoadOpen
<1>6. CASE job' = [job EXCEPT ![j] = r] /\ UNCHANGED lock
  BY <1>4, <1>6, MoveTyped DEF LoadOpen, Typed, TypeOK
<1> QED BY <1>5, <1>6 DEF LoadOpen

LEMMA LockMutexTyped ==
  ASSUME Typed, NEW j \in Procs, LockMutex(j)
  PROVE  Typed'
<1> DEFINE r == [job[j] EXCEPT !.at = "load"]
<1>1. job[j] \in Job /\ job[j].at = "lock" /\ "load" \in Phases
  BY DEF LockMutex, Typed, TypeOK, Phases
<1>2. Sound(j, job[j]) /\ j \in {Main, Ctl}
  BY <1>1 DEF Typed, JobsSound, Sound, Procs
<1>3. r \in Job /\ Sound(j, r)
  BY <1>1, <1>2 DEF Job, Sound, Unplanned
<1> QED BY <1>2, <1>3, MoveTyped DEF LockMutex

LEMMA LoadCloseTyped ==
  ASSUME Typed, NEW j \in Procs, LoadClose(j)
  PROVE  Typed'
<1> DEFINE want == Without(file, job[j].dels)
           r == [job[j] EXCEPT !.at = "write", !.want = want]
           q == [job[j] EXCEPT !.at = "apply"]
<1>1. job[j] \in Job /\ job[j].dels \in SUBSET Ports /\ file \in Desired
  BY DEF Typed, TypeOK, Job
<1>2. want \in Desired /\ {"write", "apply"} \subseteq Phases
  BY <1>1, DesiredClosed DEF Phases
<1>3. r \in Job /\ Sound(j, r) /\ q \in Job /\ Sound(j, q)
  BY <1>1, <1>2 DEF Job, Sound, Unplanned, JobsSound, Typed, LoadClose, At
<1>4. CASE Return(j)
  BY <1>4, EndTyped DEF LoadClose
<1>5. CASE job' = [job EXCEPT ![j] = r] /\ UNCHANGED lock
  BY <1>3, <1>5, MoveTyped DEF LoadClose, Typed, TypeOK
<1>6. CASE job' = [job EXCEPT ![j] = q] /\ UNCHANGED lock
  BY <1>3, <1>6, MoveTyped DEF LoadClose, Typed, TypeOK
<1> QED BY <1>4, <1>5, <1>6 DEF LoadClose

LEMMA LoadReconcileTyped ==
  ASSUME Typed, NEW j \in Procs, LoadReconcile(j)
  PROVE  Typed'
<1> DEFINE r == [job[j] EXCEPT !.at = "map", !.want = file, !.real = real]
<1>1. job[j] \in Job /\ file \in Desired /\ real \in SUBSET Ports /\ "map" \in Phases
  BY ControlAssumption DEF Typed, TypeOK, Phases
<1>2. r \in Job /\ Sound(j, r)
  BY <1>1 DEF Job, Sound, Unplanned, JobsSound, Typed, LoadReconcile, At
<1>3. CASE Return(j)
  BY <1>3, EndTyped DEF LoadReconcile
<1>4. CASE job' = [job EXCEPT ![j] = r] /\ UNCHANGED lock
  BY <1>2, <1>4, MoveTyped DEF LoadReconcile, Typed, TypeOK
<1> QED BY <1>3, <1>4 DEF LoadReconcile

LEMMA LoadReloadTyped ==
  ASSUME Typed, LoadReload
  PROVE  Typed'
<1> DEFINE r == [job[Main] EXCEPT !.at = "map", !.want = file]
<1>1. job[Main] \in Job /\ file \in Desired /\ "map" \in Phases
  BY ProcsFacts DEF Typed, TypeOK, Phases
<1>2. r \in Job /\ Sound(Main, r)
  BY <1>1, ProcsFacts, ControlAssumption DEF Job, Sound, Unplanned, JobsSound, Typed, LoadReload, At
<1>3. CASE Return(Main)
  BY <1>3, EndTyped, ProcsFacts DEF LoadReload
<1>4. CASE job' = [job EXCEPT ![Main] = r] /\ UNCHANGED lock
  BY <1>2, <1>4, MoveTyped, ProcsFacts DEF LoadReload, Typed, TypeOK
<1> QED BY <1>3, <1>4 DEF LoadReload

LEMMA LoadCentralTyped ==
  ASSUME Typed, NEW c \in Clis, LoadCentral(c)
  PROVE  Typed'
<1> DEFINE r == [job[c] EXCEPT !.at = "write"]
<1>1. c \in Procs /\ job[c] \in Job /\ "write" \in Phases
  BY ProcsFacts DEF Typed, TypeOK, Phases
<1>2. r \in Job /\ Sound(c, r)
  BY <1>1 DEF Job, Sound, Unplanned, JobsSound, Typed, LoadCentral, At
<1>3. CASE Return(c)
  BY <1>1, <1>3, EndTyped DEF LoadCentral
<1>4. CASE job' = [job EXCEPT ![c] = r] /\ UNCHANGED lock
  BY <1>1, <1>2, <1>4, MoveTyped DEF LoadCentral, Typed, TypeOK
<1> QED BY <1>3, <1>4 DEF LoadCentral

LEMMA RegateTyped ==
  ASSUME Typed, NEW c \in Clis, Regate(c)
  PROVE  Typed'
<1> DEFINE r == [job[c] EXCEPT !.op = "reconcile", !.at = "load"]
<1>1. c \in Procs /\ job[c] \in Job /\ "load" \in Phases /\ "reconcile" \in Ops
  BY ProcsFacts DEF Typed, TypeOK, Phases, Ops, AllCliOps
<1>2. r \in Job /\ Sound(c, r)
  BY <1>1 DEF Job, Sound, Unplanned, JobsSound, Typed, Regate, At
<1>3. CASE Return(c)
  BY <1>1, <1>3, EndTyped DEF Regate
<1>4. CASE job' = [job EXCEPT ![c] = r] /\ UNCHANGED lock
  BY <1>1, <1>2, <1>4, MoveTyped DEF Regate, Typed, TypeOK
<1> QED BY <1>3, <1>4 DEF Regate

LEMMA MapOpenTyped ==
  ASSUME Typed, NEW j \in Procs, MapOpen(j)
  PROVE  Typed'
<1> DEFINE at == IF job[j].op \in FileOpens THEN "write" ELSE "apply"
           r  == [job[j] EXCEPT !.at = at]
<1>1. job[j] \in Job /\ at \in Phases /\ at # "lock"
  BY DEF Typed, TypeOK, Phases
<1>2. r \in Job /\ Sound(j, r)
  BY <1>1 DEF Job, Sound, Unplanned, JobsSound, Typed, MapOpen, Opens, At
<1>3. CASE Return(j)
  BY <1>3, EndTyped DEF MapOpen
<1>4. CASE job' = [job EXCEPT ![j] = r] /\ UNCHANGED lock
  BY <1>1, <1>2, <1>4, MoveTyped DEF MapOpen, Typed, TypeOK
<1> QED BY <1>3, <1>4 DEF MapOpen

LEMMA MapPlanTyped ==
  ASSUME Typed, NEW j \in Procs, MapPlan(j)
  PROVE  Typed'
<1> DEFINE puts == PlanPuts(job[j].want, map)
           dels == PlanDels(job[j].want, map)
           r    == [job[j] EXCEPT !.at = "apply", !.puts = puts, !.dels = dels]
<1>1. job[j] \in Job /\ "apply" \in Phases
  BY DEF Typed, TypeOK, Phases
<1>2. puts \in SUBSET Ports /\ dels \in SUBSET Ports
  BY DEF PlanPuts, PlanDels, Bound, Open
<1>3. r \in Job /\ Sound(j, r)
  BY <1>1, <1>2 DEF Job, Sound, Unplanned, JobsSound, Typed, MapPlan, PlanPuts, Strict, At
<1>4. CASE Return(j)
  BY <1>4, EndTyped DEF MapPlan
<1>5. CASE job' = [job EXCEPT ![j] = r] /\ UNCHANGED lock
  BY <1>3, <1>5, MoveTyped DEF MapPlan, Typed, TypeOK
<1> QED BY <1>4, <1>5 DEF MapPlan

LEMMA MapCloseAllTyped ==
  ASSUME Typed, NEW c \in Clis, MapCloseAll(c)
  PROVE  Typed'
<1> DEFINE r == [job[c] EXCEPT !.at = "apply", !.dels = Open(map)]
<1>1. c \in Procs /\ job[c] \in Job /\ "apply" \in Phases /\ Open(map) \in SUBSET Ports
  BY ProcsFacts DEF Typed, TypeOK, Phases, Open
<1>2. r \in Job /\ Sound(c, r)
  BY <1>1 DEF Job, Sound, Unplanned, JobsSound, Typed, MapCloseAll, At
<1>3. CASE Return(c)
  BY <1>1, <1>3, EndTyped DEF MapCloseAll
<1>4. CASE job' = [job EXCEPT ![c] = r] /\ UNCHANGED lock
  BY <1>1, <1>2, <1>4, MoveTyped DEF MapCloseAll, Typed, TypeOK
<1> QED BY <1>3, <1>4 DEF MapCloseAll

LEMMA WriteFileTyped ==
  ASSUME Typed, NEW j \in Procs, WriteFile(j)
  PROVE  Typed'
<1> DEFINE r == [job[j] EXCEPT !.at = "apply"]
<1>1. job[j] \in Job /\ "apply" \in Phases
  BY DEF Typed, TypeOK, Phases
<1>2. r \in Job /\ Sound(j, r)
  BY <1>1 DEF Job, Sound, Unplanned, JobsSound, Typed, WriteFile
<1>3. file' \in Desired /\ haveFile' \in BOOLEAN
  BY <1>1 DEF Job, WriteFile
<1>4. CASE Return(j)
  <2>1. job' \in [Procs -> Job] /\ JobsSound' /\ lock' \in {Main, Ctl, NoLock}
    BY <1>4, ReturnKeeps
  <2> QED BY <1>3, <2>1 DEF WriteFile, Typed, TypeOK, kern, env, ldr
<1>5. CASE job' = [job EXCEPT ![j] = r] /\ UNCHANGED lock
  <2>1. job' \in [Procs -> Job] /\ JobsSound'
    BY <1>2, <1>5, OneJob
  <2> QED BY <1>3, <1>5, <2>1 DEF WriteFile, Typed, TypeOK, kern, env, ldr
<1> QED BY <1>4, <1>5 DEF WriteFile

LEMMA WriteCentralTyped ==
  ASSUME Typed, NEW c \in Clis, WriteCentral(c)
  PROVE  Typed'
<1>1. c \in Procs /\ job[c] \in Job /\ "gate" \in Phases
  BY ProcsFacts DEF Typed, TypeOK, Phases
<1>2. CASE Return(c) /\ UNCHANGED disk
  BY <1>1, <1>2, EndTyped DEF WriteCentral
<1>3. ASSUME NEW incoming \in Centrals, file' = incoming, haveFile' = TRUE,
             job' = [job EXCEPT ![c].at = "gate", ![c].want = incoming],
             UNCHANGED lock
      PROVE  Typed'
  <2> DEFINE r == [job[c] EXCEPT !.at = "gate", !.want = incoming]
  <2>1. incoming \in Desired
    BY ControlAssumption
  <2>2. r \in Job /\ Sound(c, r)
    BY <1>1, <2>1 DEF Job, Sound, Unplanned, JobsSound, Typed, WriteCentral, At
  <2>3. job' \in [Procs -> Job] /\ JobsSound'
    BY <1>1, <1>3, <2>2, OneJob
  <2> QED BY <1>3, <2>1, <2>3 DEF WriteCentral, Typed, TypeOK, kern, env, ldr
<1> QED BY <1>2, <1>3 DEF WriteCentral

LEMMA PutTyped ==
  ASSUME Typed, NEW j \in Procs, NEW p \in Ports, Put(j, p)
  PROVE  Typed'
<1> DEFINE r == [job[j] EXCEPT !.puts = job[j].puts \ {p}]
<1>1. job[j] \in Job /\ Sound(j, job[j])
  BY DEF Typed, TypeOK, JobsSound
<1>2. r \in Job /\ Sound(j, r)
  BY <1>1 DEF Job, Sound, Unplanned
<1>3. job[j].want[p].slot \in Slots
  BY <1>1, BoundSlots DEF Put, Job, Sound
<1>4. map' \in [Ports -> Slots \cup {Closed}]
  BY <1>3 DEF Put, Typed, TypeOK
<1>5. job' \in [Procs -> Job] /\ JobsSound'
  BY <1>2, OneJob DEF Put
<1> QED BY <1>4, <1>5 DEF Put, Typed, TypeOK, disk, env, ldr

LEMMA DeleteTyped ==
  ASSUME Typed, NEW j \in Procs, NEW p \in Ports, Delete(j, p)
  PROVE  Typed'
<1> DEFINE r == [job[j] EXCEPT !.dels = job[j].dels \ {p}]
<1>1. job[j] \in Job /\ Sound(j, job[j])
  BY DEF Typed, TypeOK, JobsSound
<1>2. r \in Job /\ Sound(j, r)
  BY <1>1 DEF Job, Sound, Unplanned
<1>3. CASE LoaderGone /\ UNCHANGED map
  <2>1. /\ job' \in [Procs -> Job] /\ JobsSound' /\ lock' \in {Main, Ctl, NoLock}
        /\ up' \in {"down", "starting", "serving"} /\ reload' \in BOOLEAN
        /\ frozen' \in BOOLEAN
    BY <1>3, GoneKeeps
  <2> QED BY <1>3, <2>1 DEF Delete, Typed, TypeOK, disk, env
<1>4. CASE Return(j) /\ UNCHANGED ldr /\ UNCHANGED map
  <2>1. job' \in [Procs -> Job] /\ JobsSound' /\ lock' \in {Main, Ctl, NoLock}
    BY <1>4, ReturnKeeps
  <2> QED BY <1>4, <2>1 DEF Delete, Typed, TypeOK, disk, env, ldr
<1>5. CASE /\ map' = [map EXCEPT ![p] = Closed]
           /\ job' = [job EXCEPT ![j] = r] /\ UNCHANGED <<ldr, lock>>
  <2>1. map' \in [Ports -> Slots \cup {Closed}]
    BY <1>5 DEF Typed, TypeOK
  <2>2. job' \in [Procs -> Job] /\ JobsSound'
    BY <1>2, <1>5, OneJob
  <2> QED BY <1>5, <2>1, <2>2 DEF Delete, Typed, TypeOK, disk, env, ldr
<1> QED BY <1>3, <1>4, <1>5 DEF Delete

LEMMA StepTyped ==
  ASSUME Typed, NEW j \in Procs, Step(j)
  PROVE  Typed'
<1>1. CASE Finish(j)
  BY <1>1, EndTyped DEF Finish
<1> QED
  BY <1>1, LockMutexTyped, LoadOpenTyped, LoadCloseTyped, LoadReconcileTyped,
     MapOpenTyped, MapPlanTyped, WriteFileTyped, PutTyped, DeleteTyped DEF Step

LEMMA MainStepTyped ==
  ASSUME Typed, MainStep
  PROVE  Typed'
<1>0. /\ Main \in Procs /\ Main \notin Clis /\ Ctl # Main
      /\ job[Main] \in Job /\ Sound(Main, job[Main])
  BY ProcsFacts, ControlAssumption DEF Typed, TypeOK, JobsSound, Main, Ctl
<1>1. CASE LoadStartup
  <2> DEFINE want == IF haveFile THEN file ELSE Seed
             r    == [job[Main] EXCEPT !.at = "attach", !.want = want]
  <2>1. want \in Desired /\ "attach" \in Phases
    BY ControlAssumption DEF Typed, TypeOK, Phases
  <2>2. r \in Job /\ Sound(Main, r)
    BY <1>0, <1>1, <2>1 DEF Job, Sound, Unplanned, LoadStartup, At
  <2>3. CASE LoaderGone /\ UNCHANGED disk
    <3>1. /\ job' \in [Procs -> Job] /\ JobsSound' /\ lock' \in {Main, Ctl, NoLock}
          /\ up' \in {"down", "starting", "serving"} /\ reload' \in BOOLEAN
          /\ frozen' \in BOOLEAN
      BY <2>3, GoneKeeps
    <3> QED BY <1>1, <2>3, <3>1 DEF LoadStartup, Typed, TypeOK, disk, kern, env
  <2>4. CASE /\ file' = want /\ haveFile' = TRUE
             /\ job' = [job EXCEPT ![Main] = r] /\ UNCHANGED <<ldr, lock>>
    <3>1. job' \in [Procs -> Job] /\ JobsSound'
      BY <1>0, <2>2, <2>4, OneJob
    <3> QED BY <1>1, <2>1, <2>4, <3>1 DEF LoadStartup, Typed, TypeOK, ldr, kern, env
  <2> QED BY <1>1, <2>3, <2>4 DEF LoadStartup
<1>2. CASE AttachAndPin
  <2> DEFINE r == [job[Main] EXCEPT !.at = "apply", !.puts = Bound(job[Main].want)]
  <2>1. r \in Job /\ Sound(Main, r)
    BY <1>0, <1>2 DEF Job, Sound, Unplanned, AttachAndPin, At, Phases, Bound
  <2>2. job' \in [Procs -> Job] /\ JobsSound'
    BY <1>0, <1>2, <2>1, OneJob DEF AttachAndPin
  <2> QED BY <1>2, <2>2 DEF AttachAndPin, Typed, TypeOK, disk, env, ldr
<1>3. CASE BeginInitialReconcile
  <2> DEFINE r == [job[Main] EXCEPT !.op = "initial", !.at = "map"]
  <2>1. r \in Job /\ Sound(Main, r)
    BY <1>0, <1>3 DEF Job, Sound, Unplanned, BeginInitialReconcile, Applied,
                      Ops, Phases
  <2> QED BY <1>0, <1>3, <2>1, MoveTyped DEF BeginInitialReconcile, Typed, TypeOK
<1>4. CASE Serve
  <2>1. job' \in [Procs -> Job] /\ JobsSound'
    BY <1>0, <1>4, IdleTyped, IdleSound, OneJob DEF Serve
  <2> QED BY <1>4, <2>1 DEF Serve, Typed, TypeOK, disk, kern, env
<1>5. CASE BeginReload
  <2> DEFINE r == Start("reload", "lock", Nothing, {})
  <2>1. r \in Job /\ Sound(Main, r)
    BY <1>0, JobTyped, DesiredClosed DEF Ops, Phases, Sound, Start
  <2>2. job' \in [Procs -> Job] /\ JobsSound'
    BY <1>0, <1>5, <2>1, OneJob DEF BeginReload
  <2> QED BY <1>5, <2>2 DEF BeginReload, Typed, TypeOK, disk, kern, env
<1> QED
  BY <1>0, <1>1, <1>2, <1>3, <1>4, <1>5, LoadReloadTyped, StepTyped DEF MainStep

LEMMA LoaderTyped ==
  ASSUME Typed, LoaderNext
  PROVE  Typed'
<1>1. CASE StartLoader
  <2> DEFINE r == Start("startup", "load", Nothing, {})
  <2>1. r \in Job /\ Sound(Main, r)
    BY JobTyped, DesiredClosed DEF Ops, Phases, Sound, Start
  <2>2. job' \in [Procs -> Job] /\ JobsSound'
    BY <1>1, <2>1, ProcsFacts, OneJob DEF StartLoader
  <2> QED BY <1>1, <2>2 DEF StartLoader, Typed, TypeOK, disk, kern, env
<1>2. CASE LoaderGone /\ UNCHANGED <<disk, kern, env>>
  <2>1. /\ job' \in [Procs -> Job] /\ JobsSound' /\ lock' \in {Main, Ctl, NoLock}
        /\ up' \in {"down", "starting", "serving"} /\ reload' \in BOOLEAN
        /\ frozen' \in BOOLEAN
    BY <1>2, GoneKeeps
  <2> QED BY <1>2, <2>1 DEF Typed, TypeOK, disk, kern, env
<1>3. CASE /\ reload' = TRUE /\ UNCHANGED <<up, frozen, job, lock>>
           /\ UNCHANGED <<disk, kern, env>>
  BY <1>3 DEF Typed, TypeOK, JobsSound, disk, kern, env
<1> QED
  BY <1>1, <1>2, <1>3, MainStepTyped DEF LoaderNext, Sighup, LoaderExits

LEMMA CliTyped ==
  ASSUME Typed, NEW c \in Clis, CliRequest(c) \/ CliStep(c)
  PROVE  Typed'
<1>0. c \in Procs
  BY ProcsFacts
<1>1. ASSUME NEW ports \in PortSets, NEW b \in Binding, RequestOpenMode(c, ports, b)
      PROVE  Typed'
  BY <1>0, <1>1, AcceptTyped, DesiredClosed DEF RequestOpenMode, Ops, AllCliOps, PortSets
<1>2. ASSUME NEW incoming \in Centrals, RequestCentral(c, incoming)
      PROVE  Typed'
  BY <1>0, <1>2, AcceptTyped, ControlAssumption DEF RequestCentral, Ops, AllCliOps
<1>3. ASSUME NEW b \in Binding, RequestImport(c, b)
      PROVE  Typed'
  <2> DEFINE want == Overlay(file, Ask(Importable(real, policy, Skip), b))
             r    == Start("import", "write", want, {})
  <2>1. want \in Desired
    BY DesiredClosed, ControlAssumption DEF Importable, Typed, TypeOK
  <2>2. r \in Job /\ Sound(c, r)
    BY <2>1, JobTyped DEF Ops, AllCliOps, Phases, Sound, Start
  <2> QED BY <1>0, <1>3, <2>2, MoveTyped DEF RequestImport, Typed, TypeOK
<1>4. CASE RequestCloseAll(c) \/ Freeze(c, TRUE)
  <2> DEFINE r == Start("closeall", "map", Nothing, {})
  <2>1. r \in Job /\ Sound(c, r)
    BY JobTyped, DesiredClosed DEF Ops, AllCliOps, Phases, Sound, Start
  <2>2. job' = [job EXCEPT ![c] = r]
    BY <1>4 DEF RequestCloseAll, Freeze
  <2>3. job' \in [Procs -> Job] /\ JobsSound'
    BY <1>0, <2>1, <2>2, OneJob
  <2> QED
    BY <1>4, <2>3 DEF RequestCloseAll, Freeze, Typed, TypeOK, disk, kern, env, ldr
<1> QED
  BY <1>0, <1>1, <1>2, <1>3, <1>4, RequestTyped, StepTyped, LoadCentralTyped,
     WriteCentralTyped, RegateTyped, MapCloseAllTyped DEF CliRequest, CliStep

LEMMA NextTyped ==
  ASSUME Typed, Next
  PROVE  Typed'
<1>1. ASSUME NEW c \in Clis, Freeze(c, FALSE) \/ Unfreeze(c)
      PROVE  Typed'
  BY <1>1 DEF Freeze, Unfreeze, Typed, TypeOK, JobsSound, disk, kern, env
<1>2. CASE EditPolicy \/ EditNginx
  BY <1>2 DEF EditPolicy, EditNginx, Typed, TypeOK, JobsSound, disk, kern, ldr
<1>3. CASE HandEdit
  <2>1. edits' \in 0..MaxEdits
    BY <1>3, ControlAssumption DEF HandEdit, Typed, TypeOK
  <2> QED
    BY <1>3, <2>1, ControlAssumption DEF HandEdit, Typed, TypeOK, JobsSound, kern, ldr
<1>4. CASE CliDies
  <2>1. PICK c \in Clis : KillCli(c)
    BY <1>4 DEF CliDies
  <2>2. job' \in [Procs -> Job] /\ JobsSound'
    BY <2>1, IdleTyped, IdleSound, ProcsFacts, OneJob DEF KillCli
  <2> QED BY <2>1, <2>2 DEF KillCli, Typed, TypeOK, disk, kern, env, ldr
<1> QED
  BY <1>1, <1>2, <1>3, <1>4, LoaderTyped, RequestTyped, StepTyped, CliTyped, ProcsFacts
     DEF Next, SocketNext, CliNext

\* Types hold through every interleaving of requests, reloads, commands, deaths
\* of processes and hand edits; every key of the map has a slot (all handlers).
THEOREM TypeCorrect == Spec => []TypeOK
<1>1. Typed /\ [Next]_vars => Typed'
  <2> SUFFICES ASSUME Typed, [Next]_vars PROVE Typed'
    OBVIOUS
  <2>1. CASE UNCHANGED vars
    BY <2>1 DEF vars, Typed, TypeOK, JobsSound
  <2> QED BY <2>1, NextTyped
<1>2. Typed => TypeOK
  BY DEF Typed
<1> QED BY <1>1, <1>2, TypedInit, PTL DEF Spec

(***************************************************************************)
(* Admission.  Every desired state a job carries past its load step was    *)
(* accepted by a policy that was in force when it was loaded.  Hence no    *)
(* port that all policies refuse ever reaches the map, and no command      *)
(* leaves a file that no policy accepts.                                   *)
(***************************************************************************)

\* Phases after the load step, where `want' is what will be written or applied.
Settled == {"map", "write", "gate", "attach", "apply"}

Vetted(r) == /\ r.at \in Settled => \E pol \in Policies : Valid(r.want, pol)
             /\ r.op = "drop" => r.want = Nothing

JobsVetted == \A j \in Procs : Vetted(job[j])

Admitted == Typed /\ JobsVetted /\ NeverRefused

\* An empty desired state passes every policy (policy.rs validate).
LEMMA NothingValid == \A pol \in Policy : Valid(Nothing, pol)
<1> SUFFICES ASSUME NEW pol \in Policy PROVE Valid(Nothing, pol)
  OBVIOUS
<1>1. Bound(Nothing) = {} /\ \A t \in Tenants : OwnedBy(Nothing, t) = {}
  BY DEF Nothing, Bound, OwnedBy
<1>2. pol.perMachine \in Nat /\ pol.perTenant \in Nat
  BY DEF Policy
<1> QED BY <1>1, <1>2, FS_EmptySet DEF Valid

\* The runtime reserve only makes a policy stricter (policy.rs reserve_listen_target).
LEMMA ReserveStricter ==
  ASSUME NEW x \in Desired, NEW pol \in Policy, NEW ts \in SUBSET Ports,
         Valid(x, WithReserve(pol, ts))
  PROVE  Valid(x, pol)
<1>1. /\ Refused(pol) \subseteq Refused(WithReserve(pol, ts))
      /\ WithReserve(pol, ts).perMachine = pol.perMachine
      /\ WithReserve(pol, ts).perTenant = pol.perTenant
  BY DEF WithReserve, Refused, Policy
<1> QED BY <1>1 DEF Valid

\* Removing bindings keeps a desired state valid (ctl.rs apply_remove).
LEMMA WithoutValid ==
  ASSUME NEW x \in Desired, NEW pol \in Policy, NEW ports \in SUBSET Ports,
         Valid(x, pol)
  PROVE  Valid(Without(x, ports), pol)
<1> DEFINE y == Without(x, ports)
<1>1. IsFiniteSet(Ports) /\ Bound(x) \subseteq Ports
  BY PortsAssumption DEF Bound
<1>2. Bound(y) \subseteq Bound(x)
  BY DEF Without, Bound
<1>3. ASSUME NEW t \in Tenants PROVE OwnedBy(y, t) \subseteq OwnedBy(x, t)
  BY DEF Without, OwnedBy, Bound
<1>4. pol.perMachine \in Nat /\ pol.perTenant \in Nat
  BY DEF Policy
<1>5. Cardinality(Bound(y)) <= pol.perMachine
  <2>1. IsFiniteSet(Bound(x))
    BY <1>1, FS_Subset
  <2>2. /\ Cardinality(Bound(y)) \in Nat /\ Cardinality(Bound(x)) \in Nat
        /\ Cardinality(Bound(y)) <= Cardinality(Bound(x))
    BY <1>2, <2>1, FS_Subset, FS_CardinalityType
  <2> QED BY <1>4, <2>2 DEF Valid
<1>6. ASSUME NEW t \in Tenants PROVE Cardinality(OwnedBy(y, t)) <= pol.perTenant
  <2>1. IsFiniteSet(OwnedBy(x, t))
    BY <1>1, FS_Subset DEF OwnedBy
  <2>2. /\ Cardinality(OwnedBy(y, t)) \in Nat /\ Cardinality(OwnedBy(x, t)) \in Nat
        /\ Cardinality(OwnedBy(y, t)) <= Cardinality(OwnedBy(x, t))
    BY <1>3, <2>1, FS_Subset, FS_CardinalityType
  <2>3. Cardinality(OwnedBy(x, t)) <= pol.perTenant
    BY DEF Valid
  <2> QED BY <1>4, <2>2, <2>3
<1>7. Bound(y) \cap Refused(pol) = {}
  BY <1>2 DEF Valid
<1> QED BY <1>5, <1>6, <1>7 DEF Valid

LEMMA OneVetted ==
  ASSUME Typed, JobsVetted, NEW j \in Procs, NEW r,
         job' = [job EXCEPT ![j] = r], Vetted(r)
  PROVE  JobsVetted'
  BY DEF Typed, TypeOK, JobsVetted, Vetted

LEMMA EndVetted ==
  ASSUME Typed, JobsVetted, NEW j \in Procs, Return(j)
  PROVE  JobsVetted'
  BY OneVetted DEF Return, Idle, Start, Vetted, Settled

LEMMA GoneVetted ==
  ASSUME Typed, JobsVetted, LoaderGone
  PROVE  JobsVetted'
  BY ProcsFacts DEF Typed, TypeOK, LoaderGone, JobsVetted, Vetted, Settled, Idle, Start

\* The policy in force when a file or a request is loaded is one of Policies.
LEMMA PolicyNow == Typed => policy \in Policies /\ policy \in Policy
  BY ControlAssumption DEF Typed, TypeOK

LEMMA LoadVetted ==
  ASSUME Typed, JobsVetted, NEW j \in Procs,
         LoadOpen(j) \/ LoadClose(j) \/ LoadReconcile(j)
  PROVE  JobsVetted'
<1>0. /\ job[j] \in Job /\ job[j].dels \in SUBSET Ports /\ file \in Desired
      /\ policy \in Policies /\ policy \in Policy
  BY PolicyNow DEF Typed, TypeOK, Job
<1>1. CASE Return(j)
  BY <1>1, EndVetted
<1>2. CASE LoadOpen(j) /\ ~Return(j)
  <2> DEFINE want == Overlay(file, job[j].want)
             r == [job[j] EXCEPT !.at = "map", !.want = want,
                                 !.puts = Bound(job[j].want), !.real = real]
  <2>1. job' = [job EXCEPT ![j] = r] /\ Valid(want, policy) /\ job[j].op # "drop"
    BY <1>2 DEF LoadOpen, At, Opens
  <2>2. r.want = want /\ r.op # "drop"
    BY <1>0, <2>1 DEF Job
  <2> QED BY <1>0, <2>1, <2>2, OneVetted DEF Vetted
<1>3. CASE LoadClose(j) /\ ~Return(j)
  <2> DEFINE want == Without(file, job[j].dels)
             r == [job[j] EXCEPT !.at = "write", !.want = want]
             q == [job[j] EXCEPT !.at = "apply"]
  <2>1. CASE job' = [job EXCEPT ![j] = r] /\ Valid(file, policy) /\ job[j].op # "drop"
    <3>1. r.want = want /\ r.op # "drop" /\ Valid(want, policy)
      BY <1>0, <2>1, WithoutValid DEF Job
    <3> QED BY <1>0, <2>1, <3>1, OneVetted DEF Vetted
  <2>2. CASE job' = [job EXCEPT ![j] = q] /\ job[j].op = "drop"
    <3>1. q.want = Nothing /\ Valid(Nothing, policy)
      BY <1>0, <2>2, NothingValid DEF Job, JobsVetted, Vetted
    <3> QED BY <1>0, <2>2, <3>1, OneVetted DEF Vetted
  <2> QED BY <1>3, <2>1, <2>2 DEF LoadClose, At, Closes
<1>4. CASE LoadReconcile(j) /\ ~Return(j)
  <2> DEFINE r == [job[j] EXCEPT !.at = "map", !.want = file, !.real = real]
  <2>1. job' = [job EXCEPT ![j] = r] /\ Valid(file, policy) /\ job[j].op = "reconcile"
    BY <1>4 DEF LoadReconcile, At
  <2>2. r.want = file /\ r.op = "reconcile"
    BY <1>0, <2>1 DEF Job
  <2> QED BY <1>0, <2>1, <2>2, OneVetted DEF Vetted
<1> QED BY <1>1, <1>2, <1>3, <1>4

\* A job that moves on with the desired state it already had.
LEMMA KeptVetted ==
  ASSUME Typed, JobsVetted, NEW j \in Procs, NEW r,
         job' = [job EXCEPT ![j] = r], r.want = job[j].want,
         r.op = job[j].op \/ r.op # "drop", job[j].at \in Settled
  PROVE  JobsVetted'
  BY OneVetted DEF JobsVetted, Vetted

LEMMA WorkVetted ==
  ASSUME Typed, JobsVetted, NEW j \in Procs,
         MapOpen(j) \/ MapPlan(j) \/ WriteFile(j)
  PROVE  JobsVetted'
<1>0. job[j] \in Job /\ job[j].at \in Settled
  BY DEF Typed, TypeOK, MapOpen, MapPlan, WriteFile, At, Settled
<1>1. CASE Return(j)
  BY <1>1, EndVetted
<1>2. CASE MapOpen(j) /\ ~Return(j)
  <2> DEFINE r == [job[j] EXCEPT !.at = IF job[j].op \in FileOpens THEN "write" ELSE "apply"]
  <2>1. job' = [job EXCEPT ![j] = r]
    BY <1>2 DEF MapOpen
  <2>2. r.want = job[j].want /\ r.op = job[j].op
    BY <1>0 DEF Job
  <2> QED BY <1>0, <2>1, <2>2, KeptVetted
<1>3. CASE MapPlan(j) /\ ~Return(j)
  <2> DEFINE r == [job[j] EXCEPT !.at = "apply",
                                 !.puts = PlanPuts(job[j].want, map),
                                 !.dels = PlanDels(job[j].want, map)]
  <2>1. job' = [job EXCEPT ![j] = r]
    BY <1>3 DEF MapPlan
  <2>2. r.want = job[j].want /\ r.op = job[j].op
    BY <1>0 DEF Job
  <2> QED BY <1>0, <2>1, <2>2, KeptVetted
<1>4. CASE WriteFile(j) /\ ~Return(j)
  <2> DEFINE r == [job[j] EXCEPT !.at = "apply"]
  <2>1. job' = [job EXCEPT ![j] = r]
    BY <1>4 DEF WriteFile
  <2>2. r.want = job[j].want /\ r.op = job[j].op
    BY <1>0 DEF Job
  <2> QED BY <1>0, <2>1, <2>2, KeptVetted
<1> QED BY <1>1, <1>2, <1>3, <1>4

\* What a job puts is bound in a desired state some policy accepted.
LEMMA PutsAllowed ==
  ASSUME Typed, JobsVetted, NEW j \in Procs, NEW p \in Ports, Put(j, p)
  PROVE  \E pol \in Policies : p \notin Refused(pol)
<1>1. p \in Bound(job[j].want)
  BY DEF Put, Typed, JobsSound, Sound
<1>2. PICK pol \in Policies : Valid(job[j].want, pol)
  BY DEF Put, JobsVetted, Vetted, Settled
<1> QED BY <1>1, <1>2 DEF Valid

LEMMA KeysAdmitted ==
  ASSUME Typed, JobsVetted, NeverRefused, NEW j \in Procs, NEW p \in Ports,
         Put(j, p) \/ Delete(j, p)
  PROVE  JobsVetted' /\ NeverRefused'
<1>0. job[j] \in Job /\ job[j].at \in Settled /\ map \in [Ports -> Slots \cup {Closed}]
  BY DEF Typed, TypeOK, Put, Delete, Settled
<1>1. CASE Put(j, p)
  <2> DEFINE r == [job[j] EXCEPT !.puts = job[j].puts \ {p}]
  <2>1. r.want = job[j].want /\ r.op = job[j].op
    BY <1>0 DEF Job
  <2>2. JobsVetted'
    BY <1>0, <1>1, <2>1, KeptVetted DEF Put
  <2>3. \A q \in Ports : q # p => map'[q] = map[q]
    BY <1>0, <1>1 DEF Put
  <2>4. NeverRefused'
    BY <1>1, <2>3, PutsAllowed DEF NeverRefused, Open
  <2> QED BY <2>2, <2>4
<1>2. CASE Delete(j, p)
  <2> DEFINE r == [job[j] EXCEPT !.dels = job[j].dels \ {p}]
  <2>1. r.want = job[j].want /\ r.op = job[j].op
    BY <1>0 DEF Job
  <2>2. ASSUME job' = [job EXCEPT ![j] = r] PROVE JobsVetted'
    BY <1>0, <2>1, <2>2, KeptVetted
  <2>3. JobsVetted'
    BY <1>2, <2>2, GoneVetted, EndVetted DEF Delete
  <2>4. \A q \in Ports : map'[q] = map[q] \/ map'[q] = Closed
    BY <1>0, <1>2 DEF Delete
  <2>5. NeverRefused'
    BY <2>4 DEF NeverRefused, Open
  <2> QED BY <2>3, <2>5
<1> QED BY <1>1, <1>2

LEMMA StepAdmitted ==
  ASSUME Typed, JobsVetted, NeverRefused, NEW j \in Procs, Step(j)
  PROVE  JobsVetted' /\ NeverRefused'
<1>1. CASE LockMutex(j)
  <2> DEFINE r == [job[j] EXCEPT !.at = "load"]
  <2>1. job[j] \in Job
    BY DEF Typed, TypeOK
  <2>2. r.at = "load" /\ r.op = job[j].op /\ r.want = job[j].want
    BY <2>1 DEF Job
  <2>3. Vetted(r)
    BY <2>2 DEF Vetted, JobsVetted, Settled
  <2>4. JobsVetted'
    BY <1>1, <2>3, OneVetted DEF LockMutex
  <2> QED BY <1>1, <2>4 DEF LockMutex, NeverRefused, Open, kern
<1>2. CASE LoadOpen(j) \/ LoadClose(j) \/ LoadReconcile(j)
  <2>1. map' = map
    BY <1>2 DEF LoadOpen, LoadClose, LoadReconcile, kern
  <2> QED BY <1>2, <2>1, LoadVetted DEF NeverRefused, Open
<1>3. CASE MapOpen(j) \/ MapPlan(j) \/ WriteFile(j)
  <2>1. map' = map
    BY <1>3 DEF MapOpen, MapPlan, WriteFile, kern
  <2> QED BY <1>3, <2>1, WorkVetted DEF NeverRefused, Open
<1>4. CASE Finish(j)
  BY <1>4, EndVetted DEF Finish, NeverRefused, Open, kern
<1> QED BY <1>1, <1>2, <1>3, <1>4, KeysAdmitted DEF Step

\* A job that has not been loaded yet: nothing was accepted, nothing need be.
LEMMA FreshVetted ==
  ASSUME Typed, JobsVetted, NEW j \in Procs, NEW op, NEW at, NEW want, NEW dels,
         job' = [job EXCEPT ![j] = Start(op, at, want, dels)],
         at \notin Settled \/ want = Nothing, op # "drop" \/ want = Nothing
  PROVE  JobsVetted'
<1>1. \E pol \in Policies : Valid(Nothing, pol)
  BY NothingValid, ControlAssumption
<1>2. Vetted(Start(op, at, want, dels))
  BY <1>1 DEF Vetted, Start
<1> QED BY <1>2, OneVetted

LEMMA AcceptVetted ==
  ASSUME Typed, JobsVetted, NEW j \in Procs, NEW op, NEW want, NEW dels,
         Accept(j, op, want, dels), op # "drop" \/ want = Nothing
  PROVE  JobsVetted' /\ map' = map
  BY FreshVetted DEF Accept, Settled, kern

LEMMA RequestVetted ==
  ASSUME Typed, JobsVetted, NEW j \in Procs, Request(j)
  PROVE  JobsVetted' /\ map' = map
<1>1. ASSUME NEW ports, NEW b, RequestOpen(j, ports, b)
      PROVE  JobsVetted' /\ map' = map
  <2>1. PICK op \in {"open", "overlay"} : Accept(j, op, Ask(ports, b), {})
    BY <1>1 DEF RequestOpen
  <2> QED BY <2>1, AcceptVetted
<1>2. ASSUME NEW ports, NEW bulk, RequestClose(j, ports, bulk)
      PROVE  JobsVetted' /\ map' = map
  BY <1>2, AcceptVetted DEF RequestClose
<1>3. ASSUME RequestReconcile(j) PROVE JobsVetted' /\ map' = map
  BY <1>3, AcceptVetted DEF RequestReconcile
<1> QED BY <1>1, <1>2, <1>3 DEF Request

LEMMA MainVetted ==
  ASSUME Typed, JobsVetted,
         \/ LoadStartup \/ AttachAndPin \/ BeginInitialReconcile \/ Serve
         \/ BeginReload \/ LoadReload
  PROVE  JobsVetted' /\ map' = map
<1>0. /\ Main \in Procs /\ job[Main] \in Job /\ file \in Desired
      /\ policy \in Policies /\ policy \in Policy
  BY ProcsFacts, PolicyNow DEF Typed, TypeOK
<1>1. map' = map
  BY DEF LoadStartup, AttachAndPin, BeginInitialReconcile, Serve, BeginReload,
         LoadReload, kern
<1>2. CASE LoadStartup
  <2> DEFINE want == IF haveFile THEN file ELSE Seed
             r    == [job[Main] EXCEPT !.at = "attach", !.want = want]
  <2>1. CASE LoaderGone
    BY <1>1, <2>1, GoneVetted
  <2>2. CASE /\ job' = [job EXCEPT ![Main] = r]
             /\ Valid(want, WithReserve(policy, Targets))
    <3>1. want \in Desired /\ Targets \in SUBSET Ports
      BY <1>0, ControlAssumption
    <3>2. Valid(want, policy)
      BY <1>0, <2>2, <3>1, ReserveStricter
    <3>3. r.want = want /\ r.op = "startup"
      BY <1>0, <1>2 DEF Job, LoadStartup, At
    <3> HIDE DEF want, r
    <3>4. Vetted(r)
      BY <1>0, <3>2, <3>3 DEF Vetted
    <3> QED BY <1>0, <1>1, <2>2, <3>4, OneVetted
  <2> QED BY <1>2, <2>1, <2>2 DEF LoadStartup
<1>3. CASE AttachAndPin
  <2> DEFINE r == [job[Main] EXCEPT !.at = "apply", !.puts = Bound(job[Main].want)]
  <2>1. r.want = job[Main].want /\ r.op = job[Main].op
    BY <1>0 DEF Job
  <2> QED BY <1>0, <1>1, <1>3, <2>1, KeptVetted DEF AttachAndPin, At, Settled
<1>4. CASE BeginInitialReconcile
  <2> DEFINE r == [job[Main] EXCEPT !.op = "initial", !.at = "map"]
  <2>1. r.want = job[Main].want /\ r.op = "initial"
    BY <1>0 DEF Job
  <2> QED
    BY <1>0, <1>1, <1>4, <2>1, KeptVetted DEF BeginInitialReconcile, Applied, Settled
<1>5. CASE Serve
  BY <1>0, <1>1, <1>5, FreshVetted DEF Serve, Idle
<1>6. CASE BeginReload
  BY <1>0, <1>1, <1>6, FreshVetted DEF BeginReload, Settled
<1>7. CASE LoadReload
  <2> DEFINE r == [job[Main] EXCEPT !.at = "map", !.want = file]
  <2>1. CASE Return(Main)
    BY <1>0, <1>1, <2>1, EndVetted
  <2>2. CASE job' = [job EXCEPT ![Main] = r] /\ Valid(file, policy)
    <3>1. r.want = file /\ r.op = "reload"
      BY <1>0, <1>7 DEF Job, LoadReload, At
    <3> QED BY <1>0, <1>1, <2>2, <3>1, OneVetted DEF Vetted
  <2> QED BY <1>7, <2>1, <2>2 DEF LoadReload
<1> QED BY <1>2, <1>3, <1>4, <1>5, <1>6, <1>7

LEMMA CliVetted ==
  ASSUME Typed, JobsVetted, NEW c \in Clis, ~Request(c), ~Step(c),
         CliRequest(c) \/ CliStep(c)
  PROVE  JobsVetted' /\ map' = map
<1>0. /\ c \in Procs /\ job[c] \in Job /\ job[c].want \in Desired
      /\ policy \in Policies /\ file \in Desired
  BY ProcsFacts, PolicyNow DEF Typed, TypeOK, Job
<1>1. ASSUME NEW ports, NEW b, RequestOpenMode(c, ports, b)
      PROVE  JobsVetted' /\ map' = map
  BY <1>0, <1>1, AcceptVetted DEF RequestOpenMode
<1>2. ASSUME NEW incoming, RequestCentral(c, incoming)
      PROVE  JobsVetted' /\ map' = map
  BY <1>0, <1>2, AcceptVetted DEF RequestCentral
<1>3. ASSUME NEW b, RequestImport(c, b)
      PROVE  JobsVetted' /\ map' = map
  <2> DEFINE want == Overlay(file, Ask(Importable(real, policy, Skip), b))
  <2>1. PICK r : r = Start("import", "write", want, {})
    OBVIOUS
  <2>2. Vetted(r)
    BY <1>0, <1>3, <2>1 DEF Vetted, Start, RequestImport
  <2> QED BY <1>0, <1>3, <2>1, <2>2, OneVetted DEF RequestImport, kern
<1>4. CASE RequestCloseAll(c) \/ Freeze(c, TRUE)
  BY <1>0, <1>4, FreshVetted DEF RequestCloseAll, Freeze, kern
<1>5. CASE WriteCentral(c)
  <2>1. CASE Return(c)
    BY <1>0, <1>5, <2>1, EndVetted DEF WriteCentral, kern
  <2>2. ASSUME NEW incoming \in Centrals, Valid(incoming, policy),
               job' = [job EXCEPT ![c].at = "gate", ![c].want = incoming]
        PROVE  JobsVetted' /\ map' = map
    <3> DEFINE r == [job[c] EXCEPT !.at = "gate", !.want = incoming]
    <3>1. r.want = incoming /\ r.op = "central"
      BY <1>0, <1>5 DEF Job, WriteCentral, At
    <3>2. Vetted(r)
      BY <1>0, <2>2, <3>1 DEF Vetted
    <3> QED BY <1>0, <1>5, <2>2, <3>2, OneVetted DEF WriteCentral, kern
  <2> QED BY <1>5, <2>1, <2>2 DEF WriteCentral
<1>6. CASE LoadCentral(c)
  <2> DEFINE r == [job[c] EXCEPT !.at = "write"]
  <2>1. CASE Return(c)
    BY <1>0, <1>6, <2>1, EndVetted DEF LoadCentral, kern
  <2>2. CASE job' = [job EXCEPT ![c] = r] /\ Valid(job[c].want, policy)
    <3>1. r.want = job[c].want /\ r.op = "central"
      BY <1>0, <1>6 DEF Job, LoadCentral, At
    <3> QED BY <1>0, <1>6, <2>2, <3>1, OneVetted DEF Vetted, LoadCentral, kern
  <2> QED BY <1>6, <2>1, <2>2 DEF LoadCentral
<1>7. CASE Regate(c)
  <2> DEFINE r == [job[c] EXCEPT !.op = "reconcile", !.at = "load"]
  <2>1. CASE Return(c)
    BY <1>0, <1>7, <2>1, EndVetted DEF Regate, kern
  <2>2. CASE job' = [job EXCEPT ![c] = r]
    <3>1. r.at = "load" /\ r.op = "reconcile"
      BY <1>0 DEF Job
    <3>2. Vetted(r)
      BY <3>1 DEF Vetted, Settled
    <3> QED BY <1>0, <1>7, <2>2, <3>2, OneVetted DEF Regate, kern
  <2> QED BY <1>7, <2>1, <2>2 DEF Regate
<1>8. CASE MapCloseAll(c)
  <2> DEFINE r == [job[c] EXCEPT !.at = "apply", !.dels = Open(map)]
  <2>1. CASE Return(c)
    BY <1>0, <1>8, <2>1, EndVetted DEF MapCloseAll, kern
  <2>2. CASE job' = [job EXCEPT ![c] = r]
    <3>1. r.want = job[c].want /\ r.op = job[c].op
      BY <1>0 DEF Job
    <3> QED
      BY <1>0, <1>8, <2>2, <3>1, KeptVetted DEF MapCloseAll, At, Settled, kern
  <2> QED BY <1>8, <2>1, <2>2 DEF MapCloseAll
<1> QED
  BY <1>1, <1>2, <1>3, <1>4, <1>5, <1>6, <1>7, <1>8 DEF CliRequest, CliStep

LEMMA NextAdmitted ==
  ASSUME Admitted, Next
  PROVE  Admitted'
<1> SUFFICES JobsVetted' /\ NeverRefused'
  BY NextTyped DEF Admitted
<1>1. Typed /\ JobsVetted /\ NeverRefused
  BY DEF Admitted
<1>2. ASSUME JobsVetted', map' = map PROVE JobsVetted' /\ NeverRefused'
  BY <1>1, <1>2 DEF NeverRefused, Open
<1>3. ASSUME UNCHANGED job, map' = map PROVE JobsVetted' /\ NeverRefused'
  BY <1>1, <1>2, <1>3 DEF JobsVetted, Vetted
<1>4. ASSUME NEW j \in Procs, Request(j) \/ Step(j)
      PROVE  JobsVetted' /\ NeverRefused'
  BY <1>1, <1>2, <1>4, RequestVetted, StepAdmitted
<1>5. CASE LoaderNext
  <2>1. CASE StartLoader
    BY <1>1, <1>2, <2>1, ProcsFacts, FreshVetted DEF StartLoader, Settled, kern
  <2>2. CASE MainStep
    BY <1>1, <1>2, <1>4, <2>2, MainVetted, ProcsFacts DEF MainStep
  <2>3. CASE Sighup \/ LoaderExits
    BY <1>1, <1>2, <1>3, <2>3, GoneVetted DEF Sighup, LoaderExits, kern
  <2> QED BY <1>5, <2>1, <2>2, <2>3 DEF LoaderNext
<1>6. ASSUME NEW c \in Clis, CliRequest(c) \/ CliStep(c)
      PROVE  JobsVetted' /\ NeverRefused'
  BY <1>1, <1>2, <1>4, <1>6, CliVetted, ProcsFacts
<1>7. ASSUME NEW c \in Clis, Freeze(c, FALSE) \/ Unfreeze(c)
      PROVE  JobsVetted' /\ NeverRefused'
  BY <1>3, <1>7 DEF Freeze, Unfreeze, kern
<1>8. CASE EditPolicy \/ EditNginx \/ HandEdit
  BY <1>3, <1>8 DEF EditPolicy, EditNginx, HandEdit, kern
<1>9. CASE CliDies
  <2>1. PICK c \in Clis : KillCli(c)
    BY <1>9 DEF CliDies
  <2>2. JobsVetted'
    BY <1>1, <2>1, FreshVetted, ProcsFacts DEF KillCli, Idle, Settled
  <2> QED BY <1>2, <2>1, <2>2 DEF KillCli, kern
<1> QED
  BY <1>4, <1>5, <1>6, <1>7, <1>8, <1>9, ProcsFacts DEF Next, SocketNext, CliNext

LEMMA AdmittedInit == Init => Admitted
<1> SUFFICES ASSUME Init PROVE Admitted
  OBVIOUS
<1>1. JobsVetted
  BY DEF Init, JobsVetted, Vetted, Idle, Start, Settled
<1>2. NeverRefused
  BY DEF Init, NeverRefused, Open
<1> QED BY <1>1, <1>2, TypedInit DEF Admitted

\* No port that all policies refuse is ever steered, however hand edits, reloads,
\* commands, crashes and policy changes interleave (policy.rs validate_binding).
THEOREM RefusedNeverSteered == Spec => []NeverRefused
<1>1. Admitted /\ [Next]_vars => Admitted'
  <2> SUFFICES ASSUME Admitted, [Next]_vars PROVE Admitted'
    OBVIOUS
  <2>1. CASE UNCHANGED vars
    BY <2>1 DEF vars, Admitted, Typed, TypeOK, JobsSound, JobsVetted, Vetted,
               NeverRefused, Open
  <2> QED BY <2>1, NextAdmitted
<1>2. Admitted => NeverRefused
  BY DEF Admitted
<1> QED BY <1>1, <1>2, AdmittedInit, PTL DEF Spec

\* Who may write ports.conf: a job at its rename, the loader when it seeds the
\* file or keeps it, and an editor.
LEMMA FileWriters ==
  ASSUME SocketNext \/ CliNext \/ CliDies
  PROVE  \/ file' = file \/ LoadStartup
         \/ \E j \in Procs : WriteFile(j) \/ (j \in Clis /\ WriteCentral(j))
<1>1. ASSUME NEW j \in Procs, Step(j), ~WriteFile(j) PROVE file' = file
  BY <1>1 DEF Step, LockMutex, LoadOpen, LoadClose, LoadReconcile, MapOpen, MapPlan,
              Put, Delete, Finish, disk
<1>2. ASSUME NEW j, Request(j) PROVE file' = file
  BY <1>2 DEF Request, RequestOpen, RequestClose, RequestReconcile, Accept, disk
<1>3. ASSUME MainStep, ~LoadStartup, ~Step(Main) PROVE file' = file
  BY <1>3 DEF MainStep, AttachAndPin, BeginInitialReconcile, Serve, BeginReload,
              LoadReload, disk
<1>4. ASSUME NEW c, CliRequest(c) PROVE file' = file
  BY <1>2, <1>4 DEF CliRequest, RequestOpenMode, RequestCentral, RequestImport,
                    RequestCloseAll, Freeze, Accept, disk
<1>5. ASSUME NEW c \in Clis, CliStep(c), ~Step(c), ~WriteCentral(c)
      PROVE  file' = file
  BY <1>5 DEF CliStep, LoadCentral, Regate, MapCloseAll, disk
<1>6. ASSUME LoaderNext, ~MainStep PROVE file' = file
  BY <1>6 DEF LoaderNext, StartLoader, Sighup, LoaderExits, disk
<1>7. CASE LoaderNext
  BY <1>1, <1>3, <1>6, <1>7, ProcsFacts
<1>8. CASE EditPolicy \/ EditNginx \/ \E c \in Clis : Freeze(c, FALSE) \/ Unfreeze(c)
  BY <1>8 DEF EditPolicy, EditNginx, Freeze, Unfreeze, disk
<1>9. CASE CliDies
  BY <1>9 DEF CliDies, KillCli, disk
<1> QED
  BY <1>1, <1>2, <1>4, <1>5, <1>7, <1>8, <1>9, ProcsFacts DEF SocketNext, CliNext

\* Requests, commands, reloads, crashes and restarts never leave a ports.conf that
\* no policy in force would accept: a lost update loses bindings, it never makes
\* the file unloadable (desired.rs write, ctl.rs, main.rs run_attached).
THEOREM CommandsKeepFileAdmissible == CommandSpec => []FileAdmissible
<1> DEFINE Step0 == SocketNext \/ CliNext \/ CliDies
           Inv   == Admitted /\ FileAdmissible
<1>1. Init => Inv
  <2> SUFFICES ASSUME Init PROVE FileAdmissible
    BY AdmittedInit
  <2> QED BY NothingValid, ControlAssumption DEF Init, FileAdmissible
<1>2. Inv /\ [Step0]_vars => Inv'
  <2> SUFFICES ASSUME Admitted, FileAdmissible, [Step0]_vars PROVE Inv'
    OBVIOUS
  <2>1. CASE UNCHANGED vars
    BY <2>1 DEF vars, Admitted, Typed, TypeOK, JobsSound, JobsVetted, Vetted,
               NeverRefused, Open, FileAdmissible
  <2>2. CASE Step0
    <3>1. Admitted'
      BY <2>2, NextAdmitted DEF Next
    <3>2. CASE file' = file
      BY <3>1, <3>2 DEF FileAdmissible
    <3>3. CASE LoadStartup
      <4>1. Typed /\ policy \in Policies /\ policy \in Policy /\ Targets \in SUBSET Ports
        BY PolicyNow, ControlAssumption DEF Admitted
      <4>2. CASE UNCHANGED disk
        BY <3>2, <4>2 DEF disk
      <4>3. CASE Valid(file', WithReserve(policy, Targets))
        <5>1. file' \in Desired
          BY <3>1 DEF Admitted, Typed, TypeOK
        <5> QED BY <3>1, <4>1, <4>3, <5>1, ReserveStricter DEF FileAdmissible
      <4> QED BY <3>3, <4>2, <4>3 DEF LoadStartup
    <3>4. ASSUME NEW j \in Procs, WriteFile(j) PROVE Inv'
      BY <3>1, <3>4 DEF WriteFile, Admitted, JobsVetted, Vetted, Settled, FileAdmissible
    <3>5. ASSUME NEW c \in Clis, WriteCentral(c) PROVE Inv'
      <4>1. policy \in Policies
        BY PolicyNow DEF Admitted
      <4> QED BY <3>1, <3>2, <3>5, <4>1 DEF WriteCentral, FileAdmissible, disk
    <3> QED BY <2>2, <3>2, <3>3, <3>4, <3>5, FileWriters
  <2> QED BY <2>1, <2>2
<1>3. Inv => FileAdmissible
  OBVIOUS
<1> QED BY <1>1, <1>2, <1>3, PTL DEF CommandSpec

(***************************************************************************)
(* The emergency close.  Only an opening job puts keys, and every way to   *)
(* start one but `-mode open-port' passes the freeze gate or is the        *)
(* loader's own.                                                           *)
(***************************************************************************)

Opener(r) == r.op \in Opens \cup Loader \cup {"reconcile", "central"}

Harmless(r) == Opener(r) \/ r.puts = {}

JobsHarmless == \A j \in Procs : Harmless(job[j])

LEMMA OneHarmless ==
  ASSUME Typed, JobsHarmless, NEW j \in Procs, NEW r,
         job' = [job EXCEPT ![j] = r], Harmless(r)
  PROVE  JobsHarmless'
  BY DEF Typed, TypeOK, JobsHarmless, Harmless, Opener

LEMMA EndHarmless ==
  ASSUME Typed, JobsHarmless, NEW j \in Procs, Return(j)
  PROVE  JobsHarmless'
  BY OneHarmless DEF Return, Idle, Start, Harmless

LEMMA StartHarmless ==
  ASSUME Typed, JobsHarmless, NEW j \in Procs, NEW op, NEW at, NEW want, NEW dels,
         job' = [job EXCEPT ![j] = Start(op, at, want, dels)]
  PROVE  JobsHarmless'
  BY OneHarmless DEF Start, Harmless

LEMMA GoneHarmless ==
  ASSUME Typed, JobsHarmless, LoaderGone
  PROVE  JobsHarmless'
  BY ProcsFacts DEF Typed, TypeOK, LoaderGone, JobsHarmless, Harmless, Opener, Idle, Start

\* A job that goes on as what it was, with no more to put than before.
LEMMA GoesOnHarmless ==
  ASSUME Typed, JobsHarmless, NEW j \in Procs, NEW r \in Job,
         job' = [job EXCEPT ![j] = r], r.op = job[j].op, r.puts \subseteq job[j].puts
  PROVE  JobsHarmless'
<1>1. Harmless(r)
  BY DEF JobsHarmless, Harmless, Opener
<1> QED BY <1>1, OneHarmless

LEMMA StepHarmless ==
  ASSUME Typed, JobsHarmless, NEW j \in Procs, Step(j)
  PROVE  JobsHarmless'
<1>0. job[j] \in Job
  BY DEF Typed, TypeOK
<1>1. CASE Return(j) \/ LoaderGone
  BY <1>1, EndHarmless, GoneHarmless
<1>2. CASE LoadOpen(j) /\ ~Return(j)
  <2> DEFINE r == [job[j] EXCEPT !.at = "map", !.want = Overlay(file, job[j].want),
                                 !.puts = Bound(job[j].want), !.real = real]
  <2>1. job' = [job EXCEPT ![j] = r] /\ r.op \in Opens
    BY <1>0, <1>2 DEF LoadOpen, At, Job
  <2> QED BY <2>1, OneHarmless DEF Harmless, Opener
<1>3. CASE MapPlan(j) /\ ~Return(j)
  <2> DEFINE r == [job[j] EXCEPT !.at = "apply", !.puts = PlanPuts(job[j].want, map),
                                 !.dels = PlanDels(job[j].want, map)]
  <2>1. job' = [job EXCEPT ![j] = r] /\ r.op \in Loader \cup {"reconcile"}
    BY <1>0, <1>3 DEF MapPlan, At, Job, Strict, Loader
  <2> QED BY <2>1, OneHarmless DEF Harmless, Opener
\* The others change the place, the state that is wanted, and what is left to do.
<1>4. ASSUME ~Return(j), ~LoaderGone,
             \/ LockMutex(j) \/ LoadClose(j) \/ LoadReconcile(j) \/ MapOpen(j) \/ WriteFile(j)
             \/ \E p \in Ports : Put(j, p) \/ Delete(j, p)
      PROVE  /\ job'[j].op = job[j].op /\ job'[j].puts \subseteq job[j].puts
             /\ \A v \in Procs \ {j} : job'[v] = job[v]
  BY <1>0, <1>4 DEF LockMutex, LoadClose, LoadReconcile, MapOpen, WriteFile, Put, Delete, Typed,
                    TypeOK, Job
<1>5. CASE Finish(j)
  BY <1>1, <1>5 DEF Finish
<1>6. ASSUME job'[j].op = job[j].op, job'[j].puts \subseteq job[j].puts,
             \A v \in Procs \ {j} : job'[v] = job[v]
      PROVE  JobsHarmless'
  BY <1>6 DEF JobsHarmless, Harmless, Opener
<1> QED BY <1>1, <1>2, <1>3, <1>4, <1>5, <1>6 DEF Step

LEMMA NextHarmless ==
  ASSUME Typed, JobsHarmless, Next
  PROVE  JobsHarmless'
<1>1. ASSUME NEW j \in Procs, Request(j) PROVE JobsHarmless'
  BY <1>1, StartHarmless DEF Request, RequestOpen, RequestClose, RequestReconcile, Accept
<1>2. ASSUME NEW c \in Clis, CliRequest(c) PROVE JobsHarmless'
  BY <1>1, <1>2, ProcsFacts, StartHarmless
     DEF CliRequest, RequestOpenMode, RequestCentral, RequestImport, RequestCloseAll, Freeze, Accept
<1>3. ASSUME NEW c \in Clis, CliStep(c) PROVE JobsHarmless'
  <2>0. c \in Procs /\ job[c] \in Job
    BY ProcsFacts DEF Typed, TypeOK
  <2>1. CASE Return(c) \/ Step(c)
    BY <2>0, <2>1, EndHarmless, StepHarmless
  <2>2. ASSUME ~Return(c), LoadCentral(c) \/ WriteCentral(c) \/ Regate(c) \/ MapCloseAll(c)
        PROVE  /\ Opener(job'[c]) \/ (job'[c].op = job[c].op /\ job'[c].puts = job[c].puts)
               /\ \A v \in Procs \ {c} : job'[v] = job[v]
    BY <2>0, <2>2 DEF LoadCentral, WriteCentral, Regate, MapCloseAll, Typed, TypeOK, Job, Opener
  <2> QED BY <1>3, <2>1, <2>2 DEF CliStep, JobsHarmless, Harmless, Opener
<1>4. CASE MainStep
  <2>0. Main \in Procs /\ job[Main] \in Job
    BY ProcsFacts DEF Typed, TypeOK
  <2>1. CASE Return(Main) \/ LoaderGone \/ Step(Main)
    BY <2>0, <2>1, EndHarmless, GoneHarmless, StepHarmless
  <2>2. CASE Serve \/ BeginReload
    BY <2>0, <2>2, StartHarmless DEF Serve, BeginReload, Idle
  <2>3. ASSUME ~Return(Main), ~LoaderGone,
               LoadStartup \/ AttachAndPin \/ BeginInitialReconcile \/ LoadReload
        PROVE  Opener(job'[Main]) /\ \A v \in Procs \ {Main} : job'[v] = job[v]
    BY <2>0, <2>3 DEF LoadStartup, AttachAndPin, BeginInitialReconcile, LoadReload, Typed, TypeOK,
                      Job, Opener, Loader, At, Applied
  <2> QED BY <1>4, <2>1, <2>2, <2>3 DEF MainStep, JobsHarmless, Harmless, Opener
<1>5. CASE StartLoader \/ Sighup \/ LoaderExits \/ CliDies
  <2>1. CASE LoaderGone \/ UNCHANGED job
    BY <2>1, GoneHarmless DEF JobsHarmless, Harmless, Opener
  <2>2. CASE StartLoader \/ CliDies
    BY <2>2, ProcsFacts, StartHarmless DEF StartLoader, CliDies, KillCli, Idle
  <2> QED BY <1>5, <2>1, <2>2 DEF Sighup, LoaderExits
<1>6. CASE EditPolicy \/ EditNginx \/ HandEdit \/ \E c \in Clis : Freeze(c, FALSE) \/ Unfreeze(c)
  BY <1>6 DEF EditPolicy, EditNginx, HandEdit, Freeze, Unfreeze, JobsHarmless, Harmless, Opener
<1> QED BY <1>1, <1>2, <1>3, <1>4, <1>5, <1>6, ProcsFacts, StepHarmless
        DEF Next, SocketNext, CliNext, LoaderNext

\* Everything is closed, and nobody is about to open anything.
LEMMA ClosedStep ==
  ASSUME "openmode" \notin CliOps, Typed, JobsHarmless, AllClosed, Next, frozen', ~Opening(Main)'
  PROVE  AllClosed'
<1>0. /\ \A j \in Procs : ~Opener(job[j]) /\ job[j].puts = {}
      /\ map \in [Ports -> Slots \cup {Closed}] /\ job \in [Procs -> Job] /\ Main \in Procs
      /\ Open(map) = {} /\ frozen
  BY ProcsFacts DEF AllClosed, Opening, Opener, JobsHarmless, Harmless, Typed, TypeOK
<1>1. ASSUME map' = map, \A j \in Procs : ~Opener(job'[j]) PROVE AllClosed'
  BY <1>0, <1>1 DEF AllClosed, Opening, Opener, Open
<1>2. ASSUME map' = map, NEW j \in Procs, NEW r, job' = [job EXCEPT ![j] = r], ~Opener(r)
      PROVE  AllClosed'
  BY <1>0, <1>1, <1>2
<1>3. ASSUME map' = map, NEW j \in Procs, Return(j) PROVE AllClosed'
  <2>1. ~Opener(Idle)
    BY DEF Opener, Idle, Start, Opens, Loader
  <2> QED BY <1>2, <1>3, <2>1 DEF Return
<1>4. ASSUME map' = map, LoaderGone PROVE AllClosed'
  <2>1. ~Opener(Idle)
    BY DEF Opener, Idle, Start, Opens, Loader
  <2> QED BY <1>0, <1>1, <1>4, <2>1 DEF LoaderGone
\* No gate lets an opening job begin while the machine is frozen.
<1>5. ASSUME NEW j \in Procs, Request(j) PROVE AllClosed'
  <2>1. PICK op \in {"close", "drop"}, dels \in PortSets : Accept(j, op, Nothing, dels)
    BY <1>0, <1>5 DEF Request, RequestOpen, RequestClose, RequestReconcile, Closes
  <2>2. ~Opener(Start(op, IF j = Ctl THEN "lock" ELSE "load", Nothing, dels))
    BY DEF Opener, Start, Opens, Loader
  <2> QED BY <1>2, <2>1, <2>2 DEF Accept, kern
\* Nor does a step of a job that opens nothing.
<1>6. ASSUME NEW j \in Procs, Step(j) PROVE AllClosed'
  <2>1. CASE Return(j) \/ LoaderGone
    <3>1. map' = map
      BY <1>0, <1>6, <2>1 DEF Step, LockMutex, LoadOpen, LoadClose, LoadReconcile, MapOpen, MapPlan,
                         WriteFile, Put, Delete, Finish, kern, Open
    <3> QED BY <1>3, <1>4, <2>1, <3>1
  <2>2. ASSUME ~Return(j), ~LoaderGone
        PROVE  /\ job'[j].op = job[j].op /\ \A v \in Procs \ {j} : job'[v] = job[v]
               /\ map' = map
    <3>1. CASE \E p \in Ports : Delete(j, p)
      BY <1>0, <2>2, <3>1 DEF Delete, Open, Job
    <3>2. CASE LockMutex(j) \/ LoadClose(j) \/ MapOpen(j) \/ WriteFile(j)
      BY <1>0, <2>2, <3>2 DEF LockMutex, LoadClose, MapOpen, WriteFile, Job, kern
    <3> QED BY <1>0, <1>6, <2>2, <3>1, <3>2
            DEF Step, LoadOpen, LoadReconcile, MapPlan, Put, Finish, At, Opener, Strict, Loader
  <2> QED BY <1>0, <1>1, <2>1, <2>2 DEF Opener
<1>7. ASSUME NEW c \in Clis, CliRequest(c) PROVE AllClosed'
  <2>0. c \in Procs
    BY ProcsFacts
  <2>1. CASE Request(c)
    BY <1>5, <2>0, <2>1
  <2>2. CASE RequestCloseAll(c) \/ Freeze(c, TRUE)
    <3>1. ~Opener(Start("closeall", "map", Nothing, {}))
      BY DEF Opener, Start, Opens, Loader
    <3> QED BY <1>2, <2>0, <2>2, <3>1 DEF RequestCloseAll, Freeze, kern
  <2> QED BY <1>0, <1>7, <2>1, <2>2 DEF CliRequest, RequestOpenMode, RequestCentral, RequestImport
<1>8. ASSUME NEW c \in Clis, CliStep(c) PROVE AllClosed'
  <2>0. c \in Procs /\ job[c] \in Job
    BY <1>0, ProcsFacts
  <2>1. CASE Step(c)
    BY <1>6, <2>0, <2>1
  <2>2. CASE MapCloseAll(c)
    <3>1. CASE Return(c)
      BY <1>3, <2>0, <2>2, <3>1 DEF MapCloseAll, kern
    <3>2. CASE job' = [job EXCEPT ![c].at = "apply", ![c].dels = Open(map)]
      <4> DEFINE r == [job[c] EXCEPT !.at = "apply", !.dels = Open(map)]
      <4>1. r.op = job[c].op
        BY <2>0 DEF Job
      <4>2. ~Opener(r)
        BY <1>0, <2>0, <4>1 DEF Opener
      <4> QED BY <1>2, <2>0, <2>2, <3>2, <4>2 DEF MapCloseAll, kern
    <3> QED BY <2>2, <3>1, <3>2 DEF MapCloseAll
  <2> QED BY <1>0, <1>8, <2>0, <2>1, <2>2
          DEF CliStep, LoadCentral, WriteCentral, Regate, At, Opener
<1>9. CASE LoaderNext
  <2>1. CASE LoaderGone \/ UNCHANGED job
    <3>1. ~Step(Main) => map' = map
      BY <1>9 DEF LoaderNext, StartLoader, MainStep, LoadStartup, AttachAndPin,
                  BeginInitialReconcile, Serve, BeginReload, LoadReload, Sighup, LoaderExits, kern
    <3> QED BY <1>0, <1>1, <1>4, <1>6, <2>1, <3>1
  <2>2. CASE Step(Main)
    BY <1>0, <1>6, <2>2
  <2>3. CASE StartLoader \/ BeginReload
    BY <1>0, <2>3 DEF StartLoader, BeginReload, Opening, Start, Loader
  <2> QED BY <1>0, <1>9, <2>1, <2>2, <2>3
          DEF LoaderNext, MainStep, LoadStartup, AttachAndPin, BeginInitialReconcile, Serve,
              LoadReload, Sighup, LoaderExits, Applied, At, Opener, Loader
<1>10. CASE CliDies
  <2>1. ~Opener(Idle)
    BY DEF Opener, Idle, Start, Opens, Loader
  <2> QED BY <1>2, <1>10, <2>1, ProcsFacts DEF CliDies, KillCli, kern
<1>11. CASE EditPolicy \/ EditNginx \/ HandEdit \/ \E c \in Clis : Freeze(c, FALSE) \/ Unfreeze(c)
  <2>1. UNCHANGED <<map, job>>
    BY <1>11 DEF EditPolicy, EditNginx, HandEdit, Freeze, Unfreeze, kern
  <2> QED BY <1>0, <1>1, <2>1
<1> QED BY <1>5, <1>6, <1>7, <1>8, <1>9, <1>10, <1>11, ProcsFacts DEF Next, SocketNext, CliNext

\* A frozen machine on which everything is closed stays closed, whatever is requested
\* and whoever was half way through: only an unfreeze, a reload or a restart ends it.
\* `-mode open-port', which passes no gate, is the exception (freeze.rs, main.rs).
THEOREM EmergencyCloseStays ==
  ASSUME "openmode" \notin CliOps PROVE Spec => EmergencyCloseHolds
<1> DEFINE Inv == Typed /\ JobsHarmless
<1>1. Init => Inv
  BY TypedInit DEF Init, JobsHarmless, Harmless, Idle, Start
<1>2. Inv /\ [Next]_vars => Inv'
  BY NextTyped, NextHarmless DEF vars, Typed, TypeOK, JobsSound, JobsHarmless, Harmless, Opener
<1>3. Inv /\ [Next]_vars => [AllClosed => AllClosed' \/ ~frozen' \/ (Opening(Main))']_vars
  BY ClosedStep
<1> QED BY <1>1, <1>2, <1>3, PTL DEF Spec, EmergencyCloseHolds

(***************************************************************************)
(* Two tracks.  With nginx listening on R, whatever is on its way into the *)
(* file or the map has been compared with R, or comes from a place that    *)
(* was: only the startup, the reload and import-listens trust their input. *)
(***************************************************************************)

\* nginx.conf stays as it is, import-listens is not used, neither the arguments of the
\* unit nor an editor bind a port nginx listens on, and the central file does not
\* change its mind about it between the two times apply-central reads it.
Undisputed(R) ==
  /\ RealSets = {R} /\ "import" \notin CliOps
  /\ R \cap Bound(Seed) = {} /\ \A d \in Edits : R \cap Bound(d) = {}
  /\ \A x, y \in Centrals : R \cap Bound(x) = {} => R \cap Bound(y) = {}

Apart(R, r) ==
  /\ r.at \in Settled => R \cap Bound(r.want) = {}
  /\ r.op = "drop" => r.want = Nothing
  /\ r.op = "central" /\ r.at \in {"lock", "load", "write"} => r.want \in Centrals
  /\ r.op # "import"

JobsApart(R) == \A j \in Procs : Apart(R, job[j])

FileApart(R) == R \cap Bound(file) = {}
MapApart(R)  == R \cap Open(map) = {}

TracksApart(R) == Typed /\ JobsApart(R) /\ FileApart(R) /\ MapApart(R)

LEMMA NothingBound == Bound(Nothing) = {}
  BY DEF Bound, Nothing

LEMMA RealIs ==
  ASSUME NEW R, RealSets = {R}, Typed PROVE real = R
  BY DEF Typed, TypeOK

LEMMA OneApart ==
  ASSUME NEW R, Typed, JobsApart(R), NEW j \in Procs, NEW r,
         job' = [job EXCEPT ![j] = r], Apart(R, r)
  PROVE  JobsApart(R)'
  BY DEF Typed, TypeOK, JobsApart, Apart

LEMMA IdleApart == ASSUME NEW R PROVE Apart(R, Idle)
  BY DEF Apart, Idle, Start, Settled

LEMMA EndApart ==
  ASSUME NEW R, Typed, JobsApart(R), NEW j \in Procs, Return(j)
  PROVE  JobsApart(R)'
  BY IdleApart, OneApart DEF Return

LEMMA GoneApart ==
  ASSUME NEW R, Typed, JobsApart(R), LoaderGone
  PROVE  JobsApart(R)'
  BY ProcsFacts, IdleApart DEF Typed, TypeOK, LoaderGone, JobsApart, Apart

\* A job that begins: nothing was compared yet, nothing need be.
LEMMA FreshApart ==
  ASSUME NEW R, Typed, JobsApart(R), NEW j \in Procs, NEW op, NEW at, NEW want, NEW dels,
         job' = [job EXCEPT ![j] = Start(op, at, want, dels)],
         at \notin Settled \/ want = Nothing, op # "drop" \/ want = Nothing,
         op = "central" => want \in Centrals, op # "import"
  PROVE  JobsApart(R)'
<1>1. Apart(R, Start(op, at, want, dels))
  BY NothingBound DEF Apart, Start
<1> QED BY <1>1, OneApart

LEMMA BeginsApart ==
  ASSUME NEW R, Typed, JobsApart(R), NEW j \in Procs, NEW op,
         op \notin {"drop", "central", "import"},
         NEW at \in {"lock", "load"}, NEW want, NEW dels,
         job' = [job EXCEPT ![j] = Start(op, at, want, dels)]
  PROVE  JobsApart(R)'
  BY FreshApart DEF Settled

\* A job that moves on with the desired state it already had.
LEMMA KeptApart ==
  ASSUME NEW R, Typed, JobsApart(R), NEW j \in Procs, NEW r,
         job' = [job EXCEPT ![j] = r], r.want = job[j].want,
         r.op = job[j].op, job[j].at \in Settled, r.at \in Settled,
         r.op = "central" => r.at # "write"
  PROVE  JobsApart(R)'
<1>1. Apart(R, r)
  BY DEF JobsApart, Apart, Settled
<1> QED BY <1>1, OneApart

LEMMA LoadApart ==
  ASSUME NEW R, RealSets = {R}, TracksApart(R), NEW j \in Procs,
         LoadOpen(j) \/ LoadClose(j) \/ LoadReconcile(j)
  PROVE  JobsApart(R)'
<1>0. /\ Typed /\ job[j] \in Job /\ real = R /\ JobsApart(R) /\ FileApart(R)
      /\ Apart(R, job[j])
  BY RealIs DEF TracksApart, Typed, TypeOK, JobsApart
<1>1. CASE Return(j)
  BY <1>0, <1>1, EndApart
<1>2. CASE LoadOpen(j) /\ ~Return(j)
  <2> DEFINE want == Overlay(file, job[j].want)
             r == [job[j] EXCEPT !.at = "map", !.want = want,
                                 !.puts = Bound(job[j].want), !.real = real]
  <2>1. /\ job' = [job EXCEPT ![j] = r] /\ job[j].op \in Opens
        /\ real \cap (Bound(file) \cup Bound(job[j].want)) = {}
    BY <1>2 DEF LoadOpen, At
  <2>2. R \cap Bound(want) = {}
    BY <1>0, <2>1 DEF Overlay, Bound
  <2>3. r.want = want /\ r.op \in Opens
    BY <1>0, <2>1 DEF Job
  <2> HIDE DEF want
  <2>4. Apart(R, r)
    BY <2>2, <2>3 DEF Apart, Opens
  <2> QED BY <1>0, <2>1, <2>4, OneApart
<1>3. CASE LoadClose(j) /\ ~Return(j)
  <2> DEFINE want == Without(file, job[j].dels)
             r == [job[j] EXCEPT !.at = "write", !.want = want]
             q == [job[j] EXCEPT !.at = "apply"]
  <2>1. CASE job' = [job EXCEPT ![j] = r] /\ job[j].op = "close"
    <3>1. r.want = want /\ r.op = "close" /\ R \cap Bound(want) = {}
      BY <1>0, <2>1 DEF Job, Without, Bound, FileApart
    <3>2. Apart(R, r)
      BY <3>1 DEF Apart
    <3> QED BY <1>0, <2>1, <3>2, OneApart
  <2>2. CASE job' = [job EXCEPT ![j] = q] /\ job[j].op = "drop"
    <3>1. q.want = Nothing /\ q.op = "drop"
      BY <1>0, <2>2 DEF Job, Apart
    <3>2. Apart(R, q)
      BY <3>1, NothingBound DEF Apart
    <3> QED BY <1>0, <2>2, <3>2, OneApart
  <2>3. job[j].op \in {"close", "drop"}
    BY <1>3 DEF LoadClose, At, Closes
  <2>4. \/ job' = [job EXCEPT ![j] = r] /\ job[j].op # "drop"
        \/ job' = [job EXCEPT ![j] = q] /\ job[j].op = "drop"
        \/ job' = [job EXCEPT ![j] = r] /\ ~pinned
    BY <1>3 DEF LoadClose
  <2> QED BY <1>3, <2>1, <2>2, <2>3 DEF LoadClose
<1>4. CASE LoadReconcile(j) /\ ~Return(j)
  <2> DEFINE r == [job[j] EXCEPT !.at = "map", !.want = file, !.real = real]
  <2>1. job' = [job EXCEPT ![j] = r] /\ job[j].op = "reconcile"
    BY <1>4 DEF LoadReconcile, At
  <2>2. r.want = file /\ r.op = "reconcile"
    BY <1>0, <2>1 DEF Job
  <2>3. Apart(R, r)
    BY <1>0, <2>2 DEF Apart, FileApart
  <2> QED BY <1>0, <2>1, <2>3, OneApart
<1> QED BY <1>1, <1>2, <1>3, <1>4

LEMMA WorkApart ==
  ASSUME NEW R, TracksApart(R), NEW j \in Procs, MapOpen(j) \/ MapPlan(j) \/ WriteFile(j)
  PROVE  JobsApart(R)' /\ FileApart(R)'
<1>0. /\ Typed /\ job[j] \in Job /\ job[j].at \in Settled /\ JobsApart(R) /\ FileApart(R)
      /\ Apart(R, job[j])
  BY DEF TracksApart, Typed, TypeOK, JobsApart, MapOpen, MapPlan, WriteFile, At, Settled
<1>1. CASE Return(j)
  <2>1. JobsApart(R)'
    BY <1>0, <1>1, EndApart
  <2> QED BY <1>0, <2>1 DEF FileApart, Apart, MapOpen, MapPlan, WriteFile, disk
<1>2. CASE MapOpen(j) /\ ~Return(j)
  <2> DEFINE r == [job[j] EXCEPT !.at = IF job[j].op \in FileOpens THEN "write" ELSE "apply"]
  <2>1. job' = [job EXCEPT ![j] = r] /\ job[j].op # "central" /\ UNCHANGED disk
    BY <1>2 DEF MapOpen, At, Opens
  <2>2. r.want = job[j].want /\ r.op = job[j].op /\ r.at \in Settled
    BY <1>0 DEF Job, Settled
  <2> QED BY <1>0, <2>1, <2>2, KeptApart DEF FileApart, disk
<1>3. CASE MapPlan(j) /\ ~Return(j)
  <2> DEFINE r == [job[j] EXCEPT !.at = "apply",
                                 !.puts = PlanPuts(job[j].want, map),
                                 !.dels = PlanDels(job[j].want, map)]
  <2>1. job' = [job EXCEPT ![j] = r] /\ UNCHANGED disk
    BY <1>3 DEF MapPlan
  <2>2. r.want = job[j].want /\ r.op = job[j].op /\ r.at = "apply"
    BY <1>0 DEF Job
  <2> QED BY <1>0, <2>1, <2>2, KeptApart DEF FileApart, Settled, disk
<1>4. CASE WriteFile(j) /\ ~Return(j)
  <2> DEFINE r == [job[j] EXCEPT !.at = "apply"]
  <2>1. job' = [job EXCEPT ![j] = r] /\ file' = job[j].want
    BY <1>4 DEF WriteFile
  <2>2. r.want = job[j].want /\ r.op = job[j].op /\ r.at = "apply"
    BY <1>0 DEF Job
  <2> QED BY <1>0, <2>1, <2>2, KeptApart DEF FileApart, Apart, Settled
<1> QED BY <1>1, <1>2, <1>3, <1>4

LEMMA KeysApart ==
  ASSUME NEW R, TracksApart(R), NEW j \in Procs, NEW p \in Ports, Put(j, p) \/ Delete(j, p)
  PROVE  JobsApart(R)' /\ FileApart(R)' /\ MapApart(R)'
<1>0. /\ Typed /\ job[j] \in Job /\ Sound(j, job[j]) /\ job[j].at \in Settled
      /\ map \in [Ports -> Slots \cup {Closed}]
      /\ JobsApart(R) /\ FileApart(R) /\ MapApart(R) /\ Apart(R, job[j]) /\ UNCHANGED disk
  BY DEF TracksApart, Typed, TypeOK, JobsSound, JobsApart, Put, Delete, Settled
<1>1. CASE Put(j, p)
  <2> DEFINE r == [job[j] EXCEPT !.puts = job[j].puts \ {p}]
  <2>1. r.want = job[j].want /\ r.op = job[j].op /\ r.at = job[j].at
    BY <1>0 DEF Job
  <2>2. JobsApart(R)'
    BY <1>0, <1>1, <2>1, KeptApart DEF Put
  <2>3. p \notin R
    BY <1>0, <1>1 DEF Put, Sound, Apart
  <2>4. \A q \in Ports : q # p => map'[q] = map[q]
    BY <1>0, <1>1 DEF Put
  <2> QED BY <1>0, <2>2, <2>3, <2>4 DEF MapApart, FileApart, Open, disk
<1>2. CASE Delete(j, p)
  <2> DEFINE r == [job[j] EXCEPT !.dels = job[j].dels \ {p}]
  <2>1. r.want = job[j].want /\ r.op = job[j].op /\ r.at = job[j].at
    BY <1>0 DEF Job
  <2>2. ASSUME job' = [job EXCEPT ![j] = r] PROVE JobsApart(R)'
    BY <1>0, <1>2, <2>1, <2>2, KeptApart DEF Delete
  <2>3. JobsApart(R)'
    BY <1>0, <1>2, <2>2, GoneApart, EndApart DEF Delete
  <2>4. \A q \in Ports : map'[q] = map[q] \/ map'[q] = Closed
    BY <1>0, <1>2 DEF Delete
  <2> QED BY <1>0, <2>3, <2>4 DEF MapApart, FileApart, Open, disk
<1> QED BY <1>1, <1>2

LEMMA StepApart ==
  ASSUME NEW R, RealSets = {R}, TracksApart(R), NEW j \in Procs, Step(j)
  PROVE  JobsApart(R)' /\ FileApart(R)' /\ MapApart(R)'
<1>0. Typed /\ JobsApart(R) /\ FileApart(R) /\ MapApart(R) /\ job[j] \in Job
  BY DEF TracksApart, Typed, TypeOK
<1>1. CASE LockMutex(j)
  <2> DEFINE r == [job[j] EXCEPT !.at = "load"]
  <2>1. /\ r.at = "load" /\ r.op = job[j].op /\ r.want = job[j].want
        /\ job' = [job EXCEPT ![j] = r] /\ UNCHANGED <<disk, map>>
    BY <1>0, <1>1 DEF LockMutex, Job, kern
  <2>2. job[j].op # "central" \/ job[j].want \in Centrals
    BY <1>0, <1>1 DEF LockMutex, JobsApart, Apart
  <2> QED BY <1>0, <2>1, <2>2, OneApart
          DEF JobsApart, Apart, Settled, FileApart, MapApart, Open, disk
<1>2. CASE LoadOpen(j) \/ LoadClose(j) \/ LoadReconcile(j)
  <2>1. UNCHANGED <<disk, map>>
    BY <1>2 DEF LoadOpen, LoadClose, LoadReconcile, kern
  <2> QED BY <1>0, <1>2, <2>1, LoadApart DEF FileApart, MapApart, disk
<1>3. CASE MapOpen(j) \/ MapPlan(j) \/ WriteFile(j)
  <2>1. UNCHANGED map
    BY <1>3 DEF MapOpen, MapPlan, WriteFile, kern
  <2> QED BY <1>0, <1>3, <2>1, WorkApart DEF MapApart
<1>4. CASE Finish(j)
  BY <1>0, <1>4, EndApart DEF Finish, FileApart, MapApart, disk, kern
<1> QED BY <1>1, <1>2, <1>3, <1>4, KeysApart DEF Step

LEMMA RequestApart ==
  ASSUME NEW R, TracksApart(R), NEW j \in Procs, Request(j)
  PROVE  JobsApart(R)' /\ UNCHANGED <<disk, map>>
<1>0. Typed /\ JobsApart(R)
  BY DEF TracksApart
<1>1. ASSUME NEW op \in {"open", "overlay", "close", "drop", "reconcile"}, NEW want, NEW dels,
             Accept(j, op, want, dels), op # "drop" \/ want = Nothing
      PROVE  JobsApart(R)' /\ UNCHANGED <<disk, map>>
  BY <1>0, <1>1, FreshApart DEF Accept, Settled, kern
<1> QED BY <1>1 DEF Request, RequestOpen, RequestClose, RequestReconcile, Closes

LEMMA MainApart ==
  ASSUME NEW R, Undisputed(R), TracksApart(R), MainStep
  PROVE  JobsApart(R)' /\ FileApart(R)' /\ MapApart(R)'
<1>0. /\ Typed /\ JobsApart(R) /\ FileApart(R) /\ MapApart(R)
      /\ Main \in Procs /\ job[Main] \in Job /\ Apart(R, job[Main])
  BY ProcsFacts DEF TracksApart, Typed, TypeOK, JobsApart
<1>1. CASE Step(Main)
  BY <1>0, <1>1, StepApart DEF Undisputed
<1>2. ASSUME JobsApart(R)', UNCHANGED <<disk, map>>
      PROVE  JobsApart(R)' /\ FileApart(R)' /\ MapApart(R)'
  BY <1>0, <1>2 DEF FileApart, MapApart, disk
<1>3. CASE LoadStartup
  <2> DEFINE want == IF haveFile THEN file ELSE Seed
             r    == [job[Main] EXCEPT !.at = "attach", !.want = want]
  <2>1. CASE LoaderGone /\ UNCHANGED disk
    BY <1>0, <1>2, <1>3, <2>1, GoneApart DEF LoadStartup, kern
  <2>2. CASE job' = [job EXCEPT ![Main] = r] /\ file' = want
    <3>1. R \cap Bound(want) = {}
      BY <1>0 DEF FileApart, Undisputed
    <3>2. r.want = want /\ r.op = "startup"
      BY <1>0, <1>3 DEF Job, LoadStartup, At
    <3> HIDE DEF want
    <3>3. Apart(R, r)
      BY <3>1, <3>2 DEF Apart
    <3> HIDE DEF r
    <3>4. JobsApart(R)'
      BY <1>0, <2>2, <3>3, OneApart
    <3> QED BY <1>0, <1>3, <2>2, <3>1, <3>4 DEF LoadStartup, FileApart, MapApart, kern
  <2> QED BY <1>3, <2>1, <2>2 DEF LoadStartup
<1>4. CASE AttachAndPin
  <2> DEFINE r == [job[Main] EXCEPT !.at = "apply", !.puts = Bound(job[Main].want)]
  <2>1. r.want = job[Main].want /\ r.op = job[Main].op /\ r.at = "apply"
    BY <1>0 DEF Job
  <2>2. JobsApart(R)'
    BY <1>0, <1>4, <2>1, KeptApart DEF AttachAndPin, At, Settled
  <2> QED BY <1>2, <1>4, <2>2 DEF AttachAndPin
<1>5. CASE BeginInitialReconcile
  <2> DEFINE r == [job[Main] EXCEPT !.op = "initial", !.at = "map"]
  <2>1. r.want = job[Main].want /\ r.op = "initial"
    BY <1>0 DEF Job
  <2>2. Apart(R, r)
    BY <1>0, <1>5, <2>1 DEF BeginInitialReconcile, Applied, Apart, Settled
  <2> QED BY <1>0, <1>2, <1>5, <2>2, OneApart DEF BeginInitialReconcile, kern
<1>6. CASE Serve
  BY <1>0, <1>2, <1>6, IdleApart, OneApart DEF Serve, kern
<1>7. CASE BeginReload
  <2>1. JobsApart(R)'
    BY <1>0, <1>7, BeginsApart DEF BeginReload
  <2> QED BY <1>2, <1>7, <2>1 DEF BeginReload, kern
<1>8. CASE LoadReload
  <2> DEFINE r == [job[Main] EXCEPT !.at = "map", !.want = file]
  <2>1. CASE Return(Main)
    BY <1>0, <1>2, <1>8, <2>1, EndApart DEF LoadReload, kern
  <2>2. CASE job' = [job EXCEPT ![Main] = r]
    <3>1. r.want = file /\ r.op = "reload"
      BY <1>0, <1>8 DEF Job, LoadReload, At
    <3>2. Apart(R, r)
      BY <1>0, <3>1 DEF Apart, FileApart
    <3> QED BY <1>0, <1>2, <1>8, <2>2, <3>2, OneApart DEF LoadReload, kern
  <2> QED BY <1>8, <2>1, <2>2 DEF LoadReload
<1> QED BY <1>1, <1>3, <1>4, <1>5, <1>6, <1>7, <1>8 DEF MainStep

LEMMA CliApart ==
  ASSUME NEW R, Undisputed(R), TracksApart(R), NEW c \in Clis, CliRequest(c) \/ CliStep(c)
  PROVE  JobsApart(R)' /\ FileApart(R)' /\ MapApart(R)'
<1>0. /\ Typed /\ JobsApart(R) /\ FileApart(R) /\ MapApart(R) /\ real = R
      /\ c \in Procs /\ job[c] \in Job /\ Apart(R, job[c])
  BY ProcsFacts, RealIs DEF TracksApart, Typed, TypeOK, JobsApart, Undisputed
<1>1. CASE Step(c)
  BY <1>0, <1>1, StepApart DEF Undisputed
<1>2. ASSUME JobsApart(R)', UNCHANGED <<disk, map>>
      PROVE  JobsApart(R)' /\ FileApart(R)' /\ MapApart(R)'
  BY <1>0, <1>2 DEF FileApart, MapApart, disk
<1>3. CASE CliRequest(c)
  <2>1. CASE Request(c)
    BY <1>0, <1>2, <2>1, RequestApart
  <2>2. ASSUME NEW ports, NEW b, RequestOpenMode(c, ports, b)
        PROVE  JobsApart(R)' /\ UNCHANGED <<disk, map>>
    BY <1>0, <2>2, BeginsApart DEF RequestOpenMode, Accept, kern
  <2>3. ASSUME NEW incoming \in Centrals, RequestCentral(c, incoming)
        PROVE  JobsApart(R)' /\ UNCHANGED <<disk, map>>
    BY <1>0, <2>3, FreshApart DEF RequestCentral, Accept, Settled, kern
  <2>4. CASE RequestCloseAll(c) \/ Freeze(c, TRUE)
    <3>1. JobsApart(R)'
      BY <1>0, <2>4, FreshApart DEF RequestCloseAll, Freeze
    <3> QED BY <1>2, <2>4, <3>1 DEF RequestCloseAll, Freeze, kern
  <2>5. ASSUME NEW b PROVE ~RequestImport(c, b)
    BY DEF RequestImport, Undisputed
  <2> QED BY <1>2, <1>3, <2>1, <2>2, <2>3, <2>4, <2>5 DEF CliRequest
\* The central file is compared with the listens before it is read the second time.
<1>4. CASE LoadCentral(c)
  <2> DEFINE r == [job[c] EXCEPT !.at = "write"]
  <2>1. CASE Return(c)
    BY <1>0, <1>2, <1>4, <2>1, EndApart DEF LoadCentral, kern
  <2>2. CASE job' = [job EXCEPT ![c] = r] /\ R \cap Bound(job[c].want) = {}
    <3>1. r.want = job[c].want /\ r.op = "central" /\ job[c].at = "load" /\ job[c].op = "central"
      BY <1>0, <1>4 DEF Job, LoadCentral, At
    <3>2. Apart(R, r)
      BY <1>0, <2>2, <3>1 DEF Apart
    <3> QED BY <1>0, <1>2, <1>4, <2>2, <3>2, OneApart DEF LoadCentral, kern
  <2> QED BY <1>0, <1>4, <2>1, <2>2 DEF LoadCentral
<1>5. CASE WriteCentral(c)
  <2>1. CASE Return(c) /\ UNCHANGED disk
    BY <1>0, <1>2, <1>5, <2>1, EndApart DEF WriteCentral, kern
  <2>2. ASSUME NEW incoming \in Centrals, file' = incoming,
               job' = [job EXCEPT ![c].at = "gate", ![c].want = incoming]
        PROVE  JobsApart(R)' /\ FileApart(R)' /\ MapApart(R)'
    <3> DEFINE r == [job[c] EXCEPT !.at = "gate", !.want = incoming]
    <3>1. job[c].want \in Centrals /\ R \cap Bound(job[c].want) = {}
      BY <1>0, <1>5 DEF WriteCentral, At, Apart, Settled
    <3>2. R \cap Bound(incoming) = {}
      BY <2>2, <3>1 DEF Undisputed
    <3>3. r.want = incoming /\ r.op = "central" /\ r.at = "gate"
      BY <1>0, <1>5 DEF Job, WriteCentral, At
    <3>4. Apart(R, r)
      BY <3>2, <3>3 DEF Apart
    <3>5. JobsApart(R)'
      BY <1>0, <2>2, <3>4, OneApart
    <3> QED BY <1>0, <1>5, <2>2, <3>2, <3>5 DEF WriteCentral, FileApart, MapApart, kern
  <2> QED BY <1>5, <2>1, <2>2 DEF WriteCentral
<1>6. CASE Regate(c)
  <2> DEFINE r == [job[c] EXCEPT !.op = "reconcile", !.at = "load"]
  <2>1. CASE Return(c)
    BY <1>0, <1>2, <1>6, <2>1, EndApart DEF Regate, kern
  <2>2. CASE job' = [job EXCEPT ![c] = r]
    <3>1. r.at = "load" /\ r.op = "reconcile"
      BY <1>0 DEF Job
    <3>2. Apart(R, r)
      BY <3>1 DEF Apart, Settled
    <3> QED BY <1>0, <1>2, <1>6, <2>2, <3>2, OneApart DEF Regate, kern
  <2> QED BY <1>6, <2>1, <2>2 DEF Regate
<1>7. CASE MapCloseAll(c)
  <2> DEFINE r == [job[c] EXCEPT !.at = "apply", !.dels = Open(map)]
  <2>1. CASE Return(c)
    BY <1>0, <1>2, <1>7, <2>1, EndApart DEF MapCloseAll, kern
  <2>2. CASE job' = [job EXCEPT ![c] = r]
    <3>1. r.want = job[c].want /\ r.op = job[c].op /\ r.at = "apply"
      BY <1>0 DEF Job
    <3>2. JobsApart(R)'
      BY <1>0, <1>7, <2>2, <3>1, KeptApart DEF MapCloseAll, At, Settled
    <3> QED BY <1>2, <1>7, <3>2 DEF MapCloseAll, kern
  <2> QED BY <1>7, <2>1, <2>2 DEF MapCloseAll
<1> QED BY <1>1, <1>3, <1>4, <1>5, <1>6, <1>7 DEF CliStep

LEMMA NextApart ==
  ASSUME NEW R, Undisputed(R), TracksApart(R), Next
  PROVE  TracksApart(R)'
<1>0. Typed /\ Typed' /\ JobsApart(R) /\ FileApart(R) /\ MapApart(R) /\ RealSets = {R}
  BY NextTyped DEF TracksApart, Undisputed
<1>1. ASSUME JobsApart(R)', FileApart(R)', MapApart(R)' PROVE TracksApart(R)'
  BY <1>0, <1>1 DEF TracksApart
<1>2. ASSUME JobsApart(R)', UNCHANGED <<disk, map>> PROVE TracksApart(R)'
  BY <1>0, <1>2 DEF TracksApart, FileApart, MapApart, disk
<1>3. ASSUME NEW j \in Procs, Request(j) \/ Step(j) PROVE TracksApart(R)'
  BY <1>0, <1>1, <1>2, <1>3, RequestApart, StepApart
<1>4. CASE LoaderNext
  <2>1. CASE StartLoader
    <3>1. JobsApart(R)'
      BY <1>0, <2>1, ProcsFacts, BeginsApart DEF StartLoader
    <3> QED BY <1>2, <2>1, <3>1 DEF StartLoader, kern
  <2>2. CASE Sighup \/ LoaderExits
    <3>1. JobsApart(R)'
      BY <1>0, <2>2, GoneApart DEF Sighup, LoaderExits, JobsApart
    <3> QED BY <1>2, <2>2, <3>1 DEF Sighup, LoaderExits, kern
  <2> QED BY <1>1, <1>4, <2>1, <2>2, MainApart DEF LoaderNext
<1>5. ASSUME NEW c \in Clis, CliRequest(c) \/ CliStep(c) PROVE TracksApart(R)'
  BY <1>1, <1>5, CliApart
<1>6. CASE EditPolicy \/ EditNginx \/ \E c \in Clis : Freeze(c, FALSE) \/ Unfreeze(c)
  <2>1. UNCHANGED <<disk, map, job>>
    BY <1>6 DEF EditPolicy, EditNginx, Freeze, Unfreeze, kern
  <2> QED BY <1>0, <1>2, <2>1 DEF JobsApart
<1>7. CASE HandEdit
  BY <1>0, <1>1, <1>7 DEF HandEdit, Undisputed, JobsApart, FileApart, MapApart, kern
<1>8. CASE CliDies
  <2>1. JobsApart(R)'
    BY <1>0, <1>8, IdleApart, OneApart, ProcsFacts DEF CliDies, KillCli
  <2> QED BY <1>2, <1>8, <2>1 DEF CliDies, KillCli, kern
<1> QED BY <1>3, <1>4, <1>5, <1>6, <1>7, <1>8, ProcsFacts DEF Next, SocketNext, CliNext

\* No port nginx listens on itself is ever steered, whatever is requested, reloaded or
\* killed at whatever moment, as long as the inputs nobody compares with nginx.conf,
\* the arguments of the unit, an edit by hand and import-listens, keep off it
\* (ctl.rs fail_on_overlap and its callers).
THEOREM TracksStayApart ==
  ASSUME NEW R, Undisputed(R) PROVE Spec => []DualTrack
<1>1. Init => TracksApart(R)
  BY TypedInit, IdleApart, NothingBound
     DEF Init, TracksApart, JobsApart, FileApart, MapApart, Open
<1>2. TracksApart(R) /\ [Next]_vars => TracksApart(R)'
  <2> SUFFICES ASSUME TracksApart(R), [Next]_vars PROVE TracksApart(R)'
    OBVIOUS
  <2>1. CASE UNCHANGED vars
    BY <2>1 DEF vars, TracksApart, Typed, TypeOK, JobsSound, JobsApart, FileApart, MapApart
  <2> QED BY <2>1, NextApart
<1>3. TracksApart(R) => DualTrack
  BY RealIs DEF TracksApart, MapApart, DualTrack, Undisputed
<1> QED BY <1>1, <1>2, <1>3, PTL DEF Spec
===============================================================================
