----------------------------- MODULE ControlPlane -----------------------------
(***************************************************************************)
(* The control plane of the loader: who may change the desired-state file  *)
(* and the pinned open_ports map, and in which order they do it.           *)
(*                                                                         *)
(* Processes.  Main is the loader's main thread: startup, the first        *)
(* reconcile, then the loop that serves SIGHUP.  Ctl is its control-socket *)
(* thread, which takes one request at a time.  Every member of Clis is one *)
(* invocation of the root command line, outside the loader's mutex.  An    *)
(* operation is a job that goes through                                    *)
(*                                                                         *)
(*    (lock) -> load -> map -> (write) -> apply -> idle                    *)
(*                                                                         *)
(* one step per place where another process can get in between: the mutex, *)
(* the read of the file, the read of the map, the rename that replaces the *)
(* file, and every single key put or deleted (a batch call of the kernel   *)
(* is not atomic either).                                                  *)
(***************************************************************************)
EXTENDS PortPolicy

CONSTANTS
  Clis,       \* concurrent command-line processes
  CliOps,     \* the commands operators use, a subset of AllCliOps
  Policies,   \* contents policy.conf may have
  RealSets,   \* sets of real listens nginx.conf may declare
  Targets,    \* ports of -target and -tls-target
  Skip,       \* import-listens -skip
  Seed,       \* the -ports/-tls-ports arguments of the loader unit
  Centrals,   \* contents of the central desired-state file
  Edits,      \* files an operator may write by hand
  MaxEdits,   \* bound on hand edits
  RuntimeDirKept  \* does /run/waf-sklookup survive a stop of the service?

Main   == "main"
Ctl    == "ctl"
NoLock == "none"
Procs  == {Main, Ctl} \cup Clis

AllCliOps == {"open", "overlay", "close", "drop", "openmode", "reconcile",
              "central", "import", "closeall", "freeze"}

ASSUME ControlAssumption ==
  /\ Clis \cap {Main, Ctl, NoLock} = {}
  /\ CliOps \subseteq AllCliOps
  /\ Policies # {} /\ Policies \subseteq Policy
  /\ RealSets # {} /\ RealSets \subseteq SUBSET Ports
  /\ Targets \subseteq Ports /\ Skip \subseteq Ports
  /\ Seed \in Desired
  /\ Centrals \subseteq Desired /\ Edits \subseteq Desired
  /\ MaxEdits \in Nat /\ RuntimeDirKept \in BOOLEAN

VARIABLES
  file, haveFile,   \* ports.conf (Nothing while the file does not exist)
  map, pinned,      \* the open_ports map and its pin
  frozen,           \* the freeze file exists
  policy, real,     \* policy.conf; the real listens nginx.conf declares
  up,               \* the loader: "down", "starting" or "serving"
  reload,           \* SIGHUP received, not yet looked at
  lock,             \* holder of the `mutations' mutex
  job,              \* what every process is doing
  edits             \* hand edits so far

disk == <<file, haveFile>>
kern == <<map, pinned>>
env  == <<policy, real, edits>>
ldr  == <<up, reload, frozen>>
vars == <<file, haveFile, map, pinned, frozen, policy, real, up, reload,
          lock, job, edits>>

(***************************************************************************)
(* A job.  `want' is what the request asks for until the desired file has  *)
(* been read, and from then on the state that will be written or applied.  *)
(* `real' is the copy of the real listens the overlap check uses.          *)
(***************************************************************************)
Ops    == AllCliOps \cup {"none", "startup", "initial", "reload"}
Phases == {"idle", "lock", "gate", "load", "map", "write", "attach", "apply"}

Job == [op : Ops, at : Phases, want : Desired, puts : SUBSET Ports,
        dels : SUBSET Ports, real : SUBSET Ports]

Start(op, at, want, dels) ==
  [op |-> op, at |-> at, want |-> want, puts |-> {}, dels |-> dels, real |-> {}]

Idle == Start("none", "idle", Nothing, {})

Opens     == {"open", "overlay", "openmode"}
FileOpens == {"open", "openmode"}
Closes    == {"close", "drop"}
Loader    == {"startup", "initial", "reload"}
Strict    == {"initial", "reload"}      \* reconcile_map, not bulk_delete_ports

At(j, phase, ops) == job[j].at = phase /\ job[j].op \in ops

Release(j) == lock' = IF lock = j THEN NoLock ELSE lock

\* The job ends, well or not: the mutex guard is dropped.
Return(j) == job' = [job EXCEPT ![j] = Idle] /\ Release(j)

\* The loader process is gone, and with it its mutex and its flock.  systemd
\* removes the RuntimeDirectory of a stopped unit, with the freeze file in it.
LoaderGone ==
  /\ up' = "down" /\ reload' = FALSE
  /\ frozen' = (frozen /\ RuntimeDirKept)
  /\ job' = [job EXCEPT ![Main] = Idle, ![Ctl] = Idle]
  /\ lock' = NoLock

TypeOK ==
  /\ file \in Desired /\ haveFile \in BOOLEAN
  /\ map \in [Ports -> Slots \cup {Closed}] /\ pinned \in BOOLEAN
  /\ frozen \in BOOLEAN /\ policy \in Policies /\ real \in RealSets
  /\ up \in {"down", "starting", "serving"} /\ reload \in BOOLEAN
  /\ lock \in {Main, Ctl, NoLock}
  /\ job \in [Procs -> Job]
  /\ edits \in 0..MaxEdits

Init ==
  /\ file = Nothing /\ haveFile = FALSE
  /\ map = [p \in Ports |-> Closed] /\ pinned = FALSE
  /\ frozen = FALSE /\ policy \in Policies /\ real \in RealSets
  /\ up = "down" /\ reload = FALSE /\ lock = NoLock
  /\ job = [j \in Procs |-> Idle]
  /\ edits = 0

-------------------------------------------------------------------------------
(* Accepting work.  The freeze gate is looked at here, before the mutex.   *)

\* Mutant: the command line waits for the loader's mutex.
MutAcceptLocksAll(j, op, want, dels) ==
  /\ job[j] = Idle
  /\ j = Ctl => up = "serving"
  /\ job' = [job EXCEPT ![j] = Start(op, "lock", want, dels)]
  /\ UNCHANGED <<disk, kern, env, ldr, lock>>

Accept(j, op, want, dels) ==
  /\ job[j] = Idle
  /\ j = Ctl => up = "serving"
  /\ job' = [job EXCEPT ![j] =
               Start(op, IF j = Ctl THEN "lock" ELSE "load", want, dels)]
  /\ UNCHANGED <<disk, kern, env, ldr, lock>>

\* add/open/bulk add/fill, on the socket or the command line (-no-file: overlay).
RequestOpen(j, ports, b) ==
  /\ ~frozen
  /\ \E op \in IF j = Ctl THEN {"open"} ELSE CliOps \cap {"open", "overlay"} :
       Accept(j, op, Ask(ports, b), {})

\* `-mode open-port', which has no freeze gate.
RequestOpenMode(c, ports, b) ==
  /\ "openmode" \in CliOps
  /\ Accept(c, "openmode", Ask(ports, b), {})

\* remove/close, on the socket or the command line; only its bulk form is gated.
RequestClose(j, ports, bulk) ==
  /\ bulk => ~frozen
  /\ \E op \in IF j = Ctl THEN {"close"} ELSE CliOps \cap Closes :
       Accept(j, op, Nothing, ports)

\* Mutant: reconcile is not gated.
MutRequestReconcileUngated(j) ==
  /\ j \in Clis => "reconcile" \in CliOps
  /\ Accept(j, "reconcile", Nothing, {})

RequestReconcile(j) ==
  /\ ~frozen
  /\ j \in Clis => "reconcile" \in CliOps
  /\ Accept(j, "reconcile", Nothing, {})

RequestCentral(c, incoming) ==
  /\ "central" \in CliOps /\ ~frozen
  /\ Accept(c, "central", incoming, {})

\* Mutant: what import-listens is about to write is not validated.
MutRequestImportUnchecked(c, b) ==
  LET ports == Importable(real, policy, Skip) IN
  /\ "import" \in CliOps /\ ~frozen /\ job[c] = Idle /\ ports # {}
  /\ Valid(file, policy)
  /\ job' = [job EXCEPT ![c] =
               Start("import", "write", Overlay(file, Ask(ports, b)), {})]
  /\ UNCHANGED <<disk, kern, env, ldr, lock>>

\* import-listens: one policy, read at the start, filters the listens and admits the
\* merged set, so that the gate and the load are one step.
RequestImport(c, b) ==
  LET ports == Importable(real, policy, Skip)
      want  == Overlay(file, Ask(ports, b))
  IN
  /\ "import" \in CliOps /\ ~frozen /\ job[c] = Idle /\ ports # {}
  /\ Valid(file, policy) /\ Valid(want, policy)
  /\ job' = [job EXCEPT ![c] = Start("import", "write", want, {})]
  /\ UNCHANGED <<disk, kern, env, ldr, lock>>

RequestCloseAll(c) ==
  /\ "closeall" \in CliOps /\ job[c] = Idle
  /\ job' = [job EXCEPT ![c] = Start("closeall", "map", Nothing, {})]
  /\ UNCHANGED <<disk, kern, env, ldr, lock>>

\* freeze [-close-all]: the freeze file first, then the emergency close.
Freeze(c, closeAll) ==
  /\ "freeze" \in CliOps /\ job[c] = Idle
  /\ frozen' = TRUE
  /\ job' = IF closeAll
            THEN [job EXCEPT ![c] = Start("closeall", "map", Nothing, {})]
            ELSE job
  /\ UNCHANGED <<disk, kern, env, up, reload, lock>>

Unfreeze(c) ==
  /\ job[c] = Idle
  /\ frozen' = FALSE
  /\ UNCHANGED <<disk, kern, env, up, reload, lock, job>>

-------------------------------------------------------------------------------
(* The steps of a job.                                                     *)

\* Mutant: the mutex does not exclude the other thread.
MutLockMutexShared(j) ==
  /\ job[j].at = "lock"
  /\ lock' = j
  /\ job' = [job EXCEPT ![j].at = "load"]
  /\ UNCHANGED <<disk, kern, env, ldr>>

LockMutex(j) ==
  /\ job[j].at = "lock" /\ lock = NoLock
  /\ lock' = j
  /\ job' = [job EXCEPT ![j].at = "load"]
  /\ UNCHANGED <<disk, kern, env, ldr>>

\* Mutant: the merged set is never validated.
MutLoadOpenUnchecked(j) ==
  LET ask == job[j].want IN
  /\ At(j, "load", Opens)
  /\ IF Valid(file, policy) /\ real \cap (Bound(file) \cup Bound(ask)) = {}
     THEN /\ job' = [job EXCEPT ![j].at = "map", ![j].want = Overlay(file, ask),
                                ![j].puts = Bound(ask), ![j].real = real]
          /\ UNCHANGED lock
     ELSE Return(j)
  /\ UNCHANGED <<disk, kern, env, ldr>>

\* desired_or_empty, overlap with the request, policy on the merged set.
LoadOpen(j) ==
  LET ask  == job[j].want
      want == Overlay(file, ask)
  IN
  /\ At(j, "load", Opens)
  /\ IF /\ Valid(file, policy) /\ Valid(want, policy)
        /\ real \cap (Bound(file) \cup Bound(ask)) = {}
     THEN /\ job' = [job EXCEPT ![j].at = "map", ![j].want = want,
                                ![j].puts = Bound(ask), ![j].real = real]
          /\ UNCHANGED lock
     ELSE Return(j)
  /\ UNCHANGED <<disk, kern, env, ldr>>

\* The map must be pinned; with a file, it must exist and be valid as it is.
LoadClose(j) ==
  /\ At(j, "load", Closes)
  /\ IF job[j].op = "drop" /\ pinned
     THEN job' = [job EXCEPT ![j].at = "apply"] /\ UNCHANGED lock
     ELSE IF pinned /\ haveFile /\ Valid(file, policy)
     THEN /\ job' = [job EXCEPT ![j].at = "write",
                                ![j].want = Without(file, job[j].dels)]
          /\ UNCHANGED lock
     ELSE Return(j)
  /\ UNCHANGED <<disk, kern, env, ldr>>

\* ctl_reconcile has a gate of its own: a request of the socket passes two of them.
LoadReconcile(j) ==
  /\ At(j, "load", {"reconcile"})
  /\ IF (j = Ctl => ~frozen) /\ haveFile /\ Valid(file, policy) /\ real \cap Bound(file) = {}
     THEN /\ job' = [job EXCEPT ![j].at = "map", ![j].want = file,
                                ![j].real = real]
          /\ UNCHANGED lock
     ELSE Return(j)
  /\ UNCHANGED <<disk, kern, env, ldr>>

\* Mutant: the reloaded file is not validated.
MutLoadReloadUnchecked ==
  /\ At(Main, "load", {"reload"})
  /\ IF haveFile
     THEN /\ job' = [job EXCEPT ![Main].at = "map", ![Main].want = file]
          /\ UNCHANGED lock
     ELSE Return(Main)
  /\ UNCHANGED <<disk, kern, env, ldr>>

\* SIGHUP: policy.conf alone, no runtime reserve, no gate, no overlap check.
LoadReload ==
  /\ At(Main, "load", {"reload"})
  /\ IF haveFile /\ Valid(file, policy)
     THEN /\ job' = [job EXCEPT ![Main].at = "map", ![Main].want = file]
          /\ UNCHANGED lock
     ELSE Return(Main)
  /\ UNCHANGED <<disk, kern, env, ldr>>

\* Mutant: only the map is compared with the real listens.
MutLoadCentralNoOverlap(c) ==
  /\ At(c, "load", {"central"})
  /\ IF Valid(job[c].want, policy) /\ (pinned => real \cap Open(map) = {})
     THEN job' = [job EXCEPT ![c].at = "write"] /\ UNCHANGED lock
     ELSE Return(c)
  /\ UNCHANGED <<disk, kern, env, ldr>>

\* The map is part of the overlap check only when it is pinned.
LoadCentral(c) ==
  LET want == job[c].want IN
  /\ At(c, "load", {"central"})
  /\ IF /\ Valid(want, policy) /\ real \cap Bound(want) = {}
        /\ pinned => real \cap Open(map) = {}
     THEN job' = [job EXCEPT ![c].at = "write"] /\ UNCHANGED lock
     ELSE Return(c)
  /\ UNCHANGED <<disk, kern, env, ldr>>

\* apply-central ends in ctl_reconcile, which passes the gate a second time.
Regate(c) ==
  /\ At(c, "gate", {"central"})
  /\ IF frozen THEN Return(c)
     ELSE /\ job' = [job EXCEPT ![c].op = "reconcile", ![c].at = "load"]
          /\ UNCHANGED lock
  /\ UNCHANGED <<disk, kern, env, ldr>>

OverlapFree(j) == job[j].real \cap (Bound(job[j].want) \cup Open(map)) = {}

MapOpen(j) ==
  /\ At(j, "map", Opens)
  /\ IF pinned /\ OverlapFree(j)
     THEN /\ job' = [job EXCEPT ![j].at =
                       IF job[j].op \in FileOpens THEN "write" ELSE "apply"]
          /\ UNCHANGED lock
     ELSE Return(j)
  /\ UNCHANGED <<disk, kern, env, ldr>>

\* Mutant: a plan without deletes, keys the file no longer names stay.
MutMapPlanNoDeletes(j) ==
  /\ At(j, "map", Strict \cup {"reconcile"})
  /\ IF job[j].op = "reconcile" => pinned /\ OverlapFree(j)
     THEN /\ job' = [job EXCEPT ![j].at = "apply",
                                ![j].puts = PlanPuts(job[j].want, map)]
          /\ UNCHANGED lock
     ELSE Return(j)
  /\ UNCHANGED <<disk, kern, env, ldr>>

\* ReconcilePlan against the map as it is now; only ctl_reconcile checks overlap.
MapPlan(j) ==
  /\ At(j, "map", Strict \cup {"reconcile"})
  /\ IF job[j].op = "reconcile" => pinned /\ OverlapFree(j)
     THEN /\ job' = [job EXCEPT ![j].at = "apply",
                                ![j].puts = PlanPuts(job[j].want, map),
                                ![j].dels = PlanDels(job[j].want, map)]
          /\ UNCHANGED lock
     ELSE Return(j)
  /\ UNCHANGED <<disk, kern, env, ldr>>

MapCloseAll(c) ==
  /\ At(c, "map", {"closeall"})
  /\ IF pinned
     THEN /\ job' = [job EXCEPT ![c].at = "apply", ![c].dels = Open(map)]
          /\ UNCHANGED lock
     ELSE Return(c)
  /\ UNCHANGED <<disk, kern, env, ldr>>

\* desired::write: a temporary file, fsync, rename.  import-listens stops here.
WriteFile(j) ==
  /\ job[j].at = "write" /\ job[j].op # "central"
  /\ file' = job[j].want /\ haveFile' = TRUE
  /\ IF job[j].op = "import" THEN Return(j)
     ELSE job' = [job EXCEPT ![j].at = "apply"] /\ UNCHANGED lock
  /\ UNCHANGED <<kern, env, ldr>>

\* apply_cache reads the central file and the policy a second time, and checks the
\* policy but not the overlap again.
WriteCentral(c) ==
  /\ At(c, "write", {"central"})
  /\ \E incoming \in Centrals :
       IF Valid(incoming, policy)
       THEN /\ file' = incoming /\ haveFile' = TRUE
            /\ job' = [job EXCEPT ![c].at = "gate", ![c].want = incoming]
            /\ UNCHANGED lock
       ELSE Return(c) /\ UNCHANGED disk
  /\ UNCHANGED <<kern, env, ldr>>

\* put_primary before put_tls, every put before the first delete.
Put(j, p) ==
  LET slot(q) == job[j].want[q].slot IN
  /\ job[j].at = "apply" /\ p \in job[j].puts
  /\ slot(p) = "primary" \/ \A q \in job[j].puts : slot(q) # "primary"
  /\ map' = [map EXCEPT ![p] = slot(p)]
  /\ job' = [job EXCEPT ![j].puts = @ \ {p}]
  /\ UNCHANGED <<disk, pinned, env, ldr, lock>>

\* bulk_delete_ports forgives a missing key, reconcile_map's delete does not:
\* the reload gives up with the rest of its plan, and the loader does not start.
Delete(j, p) ==
  /\ job[j].at = "apply" /\ job[j].puts = {} /\ p \in job[j].dels
  /\ IF job[j].op \in Strict /\ map[p] = Closed
     THEN /\ IF job[j].op = "initial" THEN LoaderGone
             ELSE Return(j) /\ UNCHANGED ldr
          /\ UNCHANGED map
     ELSE /\ map' = [map EXCEPT ![p] = Closed]
          /\ job' = [job EXCEPT ![j].dels = @ \ {p}]
          /\ UNCHANGED <<ldr, lock>>
  /\ UNCHANGED <<disk, pinned, env>>

Applied(j) ==
  job[j].at = "apply" /\ job[j].puts = {} /\ job[j].dels = {}

\* Mutant: the mutex guard outlives the job.
MutFinishKeepsMutex(j) ==
  /\ Applied(j) /\ job[j].op \notin {"startup", "initial"}
  /\ job' = [job EXCEPT ![j] = Idle]
  /\ UNCHANGED <<disk, kern, env, ldr, lock>>

Finish(j) ==
  /\ Applied(j) /\ job[j].op \notin {"startup", "initial"}
  /\ Return(j)
  /\ UNCHANGED <<disk, kern, env, ldr>>

-------------------------------------------------------------------------------
(* The life of the loader process.                                         *)

\* One loader at a time: acquire_loader_lock refuses a second one.
StartLoader ==
  /\ up = "down"
  /\ up' = "starting"
  /\ job' = [job EXCEPT ![Main] = Start("startup", "load", Nothing, {})]
  /\ UNCHANGED <<disk, kern, env, reload, frozen, lock>>

\* Read the desired file, or seed it, under the policy with the runtime reserve.
LoadStartup ==
  LET pol  == WithReserve(policy, Targets)
      want == IF haveFile THEN file ELSE Seed
  IN
  /\ At(Main, "load", {"startup"})
  /\ IF Valid(want, pol)
     THEN /\ file' = want /\ haveFile' = TRUE
          /\ job' = [job EXCEPT ![Main].at = "attach", ![Main].want = want]
          /\ UNCHANGED <<ldr, lock>>
     ELSE LoaderGone /\ UNCHANGED disk
  /\ UNCHANGED <<kern, env>>

\* Attach, pin the maps (a pinned map keeps its keys), install the handlers.
AttachAndPin ==
  /\ At(Main, "attach", {"startup"})
  /\ pinned' = TRUE
  /\ job' = [job EXCEPT ![Main].at = "apply", ![Main].puts = Bound(job[Main].want)]
  /\ UNCHANGED <<disk, map, env, ldr, lock>>

\* The listens are there and open_steered_ports is done: reconcile the map
\* with the desired state that was read before the wait.
BeginInitialReconcile ==
  /\ Applied(Main) /\ job[Main].op = "startup"
  /\ job' = [job EXCEPT ![Main].op = "initial", ![Main].at = "map"]
  /\ UNCHANGED <<disk, kern, env, ldr, lock>>

\* The control socket opens and the main loop begins.
Serve ==
  /\ Applied(Main) /\ job[Main].op = "initial"
  /\ up' = "serving"
  /\ job' = [job EXCEPT ![Main] = Idle]
  /\ UNCHANGED <<disk, kern, env, reload, frozen, lock>>

\* Mutant: the signal is dropped when a request holds the mutex.
MutBeginReloadTryLock ==
  /\ up = "serving" /\ job[Main] = Idle /\ reload
  /\ reload' = FALSE
  /\ job' = IF lock = NoLock
            THEN [job EXCEPT ![Main] = Start("reload", "lock", Nothing, {})]
            ELSE job
  /\ UNCHANGED <<disk, kern, env, up, frozen, lock>>

BeginReload ==
  /\ up = "serving" /\ job[Main] = Idle /\ reload
  /\ reload' = FALSE
  /\ job' = [job EXCEPT ![Main] = Start("reload", "lock", Nothing, {})]
  /\ UNCHANGED <<disk, kern, env, up, frozen, lock>>

\* Before the handlers are installed SIGHUP has its default action.
Sighup ==
  /\ up # "down"
  /\ IF At(Main, "load", {"startup"}) \/ At(Main, "attach", {"startup"})
     THEN LoaderGone
     ELSE reload' = TRUE /\ UNCHANGED <<up, frozen, job, lock>>
  /\ UNCHANGED <<disk, kern, env>>

\* The loader exits: killed, stopped, or no listen appeared within -wait.
LoaderExits ==
  /\ up # "down"
  /\ LoaderGone
  /\ UNCHANGED <<disk, kern, env>>

KillCli(c) ==
  /\ job[c] # Idle
  /\ job' = [job EXCEPT ![c] = Idle]
  /\ UNCHANGED <<disk, kern, env, ldr, lock>>

-------------------------------------------------------------------------------
(* What operators do besides running commands.                             *)

EditPolicy ==
  /\ policy' \in Policies
  /\ UNCHANGED <<disk, kern, real, edits, ldr, lock, job>>

EditNginx ==
  /\ real' \in RealSets
  /\ UNCHANGED <<disk, kern, policy, edits, ldr, lock, job>>

HandEdit ==
  /\ edits < MaxEdits
  /\ edits' = edits + 1
  /\ file' \in Edits /\ haveFile' = TRUE
  /\ UNCHANGED <<kern, policy, real, ldr, lock, job>>

-------------------------------------------------------------------------------
PortSets == SUBSET Ports \ {{}}

Request(j) ==
  \/ \E ports \in PortSets :
       \/ \E b \in Binding : RequestOpen(j, ports, b)
       \/ \E bulk \in BOOLEAN : RequestClose(j, ports, bulk)
  \/ RequestReconcile(j)

Step(j) ==
  \/ LockMutex(j)
  \/ LoadOpen(j) \/ LoadClose(j) \/ LoadReconcile(j)
  \/ MapOpen(j) \/ MapPlan(j)
  \/ WriteFile(j)
  \/ \E p \in Ports : Put(j, p) \/ Delete(j, p)
  \/ Finish(j)

MainStep ==
  \/ LoadStartup \/ AttachAndPin \/ BeginInitialReconcile \/ Serve
  \/ BeginReload \/ LoadReload \/ Step(Main)

CliRequest(c) ==
  \/ Request(c)
  \/ \E ports \in PortSets, b \in Binding : RequestOpenMode(c, ports, b)
  \/ \E incoming \in Centrals : RequestCentral(c, incoming)
  \/ \E b \in Binding : RequestImport(c, b)
  \/ RequestCloseAll(c)
  \/ Freeze(c, TRUE)

CliStep(c) ==
  LoadCentral(c) \/ WriteCentral(c) \/ Regate(c) \/ MapCloseAll(c) \/ Step(c)

LoaderNext == StartLoader \/ MainStep \/ Sighup \/ LoaderExits
SocketNext ==
  \/ LoaderNext \/ Request(Ctl) \/ Step(Ctl) \/ EditPolicy \/ EditNginx
  \/ \E c \in Clis : Freeze(c, FALSE) \/ Unfreeze(c)
CliNext == \E c \in Clis : CliRequest(c) \/ CliStep(c)
CliDies == \E c \in Clis : KillCli(c)
Next    == SocketNext \/ CliNext \/ CliDies \/ HandEdit

\* The product API alone: the socket, SIGHUP, restarts and policy changes.
SocketSpec == Init /\ [][SocketNext]_vars

\* With the root command line, killed anywhere; with hand edits.
CommandSpec == Init /\ [][SocketNext \/ CliNext \/ CliDies]_vars
Spec        == Init /\ [][Next]_vars

\* The scheduler lets both threads of the loader run.  A thread that waits for
\* the mutex gets it if it is released again and again: between two requests the
\* control thread sleeps in accept or blocks in a read, outside the mutex.
Fairness ==
  /\ WF_vars(MainStep) /\ WF_vars(Step(Ctl))
  /\ SF_vars(LockMutex(Main)) /\ SF_vars(LockMutex(Ctl))
LiveSpec == Init /\ [][SocketNext \/ HandEdit]_vars /\ Fairness

-------------------------------------------------------------------------------
(* Properties.                                                             *)

Synced == \A p \in Ports : map[p] = SlotOf(file, p)

\* Whenever the loader serves and no mutation holds the mutex, the live map is
\* exactly what ports.conf says: whatever requests, reloads, policy edits,
\* crashes and restarts came before (main.rs run_attached, sockctl.rs execute).
InSync == up = "serving" /\ lock = NoLock => Synced

Promise == INSTANCE DesiredState
             WITH saved <- file, have <- haveFile, live <- map, serving <- up = "serving"

\* The product API is atomic to its users: each request changes the file the one
\* before it left, none is lost, and every single write of the map brings a port to
\* what ports.conf says at that moment, never to what it said when the request, the
\* reload or the startup read it (sockctl.rs execute, main.rs reconcile).
KeepsPromise == Promise!Spec

\* The ports steered at any moment, also in the middle of a mutation or after a
\* crash, would be admitted as a machine-wide set by a policy that was in force:
\* none is refused and they are within the machine quota (policy.rs validate).
MapAdmissible ==
  \E pol \in Policies : /\ Open(map) \cap Refused(pol) = {}
                        /\ Cardinality(Open(map)) <= pol.perMachine

\* No command leaves a ports.conf that no policy in force would accept, however
\* commands, requests and restarts race: a lost update loses bindings, it never
\* makes the file unloadable (desired.rs write after load_with_policy).
FileAdmissible == \E pol \in Policies : Valid(file, pol)

\* A port that every policy refuses is never steered, whoever edits the file,
\* overlays the map or races with whom (policy.rs validate_binding, all callers).
NeverRefused ==
  \A p \in Open(map) : \E pol \in Policies : p \notin Refused(pol)

\* No port is a real nginx listen and steered at once (ctl.rs fail_on_overlap).
DualTrack == real \cap Open(map) = {}

\* Jobs that may still open a port.
Opening(j) == job[j].op \in Opens \cup Loader \cup {"reconcile", "central"}

AllClosed == frozen /\ Open(map) = {} /\ \A j \in Procs : ~Opening(j)

\* Once the machine is frozen, everything is closed and the openings accepted
\* before have drained, nothing is steered until somebody unfreezes it or the
\* loader itself reloads or restarts (freeze.rs reject_if_frozen, its callers).
EmergencyCloseHolds ==
  [][AllClosed => AllClosed' \/ ~frozen' \/ (Opening(Main))']_vars

\* A SIGHUP after the last hand edit brings the map to the file, unless the file
\* is invalid or the loader goes away (main.rs, the SIGHUP branch of the loop).
ReloadApplied ==
  (up = "serving" /\ reload /\ edits = MaxEdits)
    ~> (Synced \/ up # "serving" \/ ~Valid(file, policy))

\* Every request the control thread took is answered (sockctl.rs execute).
CtlAnswered == (job[Ctl] # Idle) ~> (job[Ctl] = Idle)
===============================================================================
