----------------------------- MODULE Upgrade_proofs -----------------------------
(***************************************************************************)
(* Machine-checked proofs about Upgrade, for any number of programs and of *)
(* concurrent commands.                                                    *)
(***************************************************************************)
EXTENDS Upgrade, TLAPS

Processes == Workers \cup {Loader}

(***************************************************************************)
(* Type correctness, with what an upgrade carries through all its steps:   *)
(* the object it loaded and the program it opened at the start.  Both      *)
(* exist, so that neither the update nor a way back can empty the link.    *)
(***************************************************************************)

Carries(r) == r.op = "activate" => r.cand \in Programs /\ r.old \in Programs

Ours == {"none", "activate", "rollback", "detach"}

\* Each command is at a place of its own.
OnRoad(r) ==
  /\ r.op = "none" <=> r.at = "idle"
  /\ r.op = "detach" <=> r.at = "unpin"
  /\ r.op = "start" <=> r.at \in {"attach", "keep"}

JobsTyped ==
  /\ job \in [Processes -> Job]
  /\ \A w \in Processes : Carries(job[w]) /\ OnRoad(job[w])
  /\ \A w \in Workers : job[w].op \in Ours
  /\ job[Loader].op \in {"none", "start"}

Typed == TypeOK /\ JobsTyped

LEMMA IdleFacts ==
  Idle \in Job /\ Carries(Idle) /\ OnRoad(Idle) /\ Idle.op = "none" /\ Idle.at = "idle"
  BY DEF Idle, Job, Places, Pinned, Terminal, Phase, Carries, OnRoad

LEMMA ProcessFacts ==
  Loader \in Processes /\ Workers \subseteq Processes /\ Loader \notin Workers
  BY UpgradeAssumption DEF Processes

LEMMA TypedInit == Init => Typed
<1> SUFFICES ASSUME Init PROVE Typed
  OBVIOUS
<1>1. JobsTyped
  BY IdleFacts, ProcessFacts DEF Init, JobsTyped, Processes, Ours
<1> QED BY <1>1, UpgradeAssumption DEF Init, Typed, TypeOK, JobsTyped, Pinned, Processes

\* One job is replaced.
LEMMA OneJob ==
  ASSUME Typed, NEW w \in Processes, NEW r \in Job, job' = [job EXCEPT ![w] = r],
         Carries(r), OnRoad(r),
         r.op \in (IF w \in Workers THEN Ours ELSE {"none", "start"})
  PROVE  JobsTyped'
  BY ProcessFacts DEF Typed, JobsTyped, Processes

LEMMA ReturnTyped ==
  ASSUME Typed, NEW w \in Processes, Return(w)
  PROVE  JobsTyped'
  BY OneJob, IdleFacts DEF Return, Ours

\* A command goes on, with another phase to write if need be.
LEMMA MoveTyped ==
  ASSUME Typed, NEW w \in Workers, NEW place \in Places, NEW live \in BOOLEAN,
         NEW end \in Terminal, job[w].op \in {"activate", "rollback"},
         place \notin {"idle", "unpin", "attach", "keep"},
         job' = [job EXCEPT ![w] = [job[w] EXCEPT !.at = place, !.live = live, !.end = end]]
  PROVE  JobsTyped'
<1> DEFINE r == [job[w] EXCEPT !.at = place, !.live = live, !.end = end]
<1>1. job[w] \in Job /\ Carries(job[w]) /\ w \in Processes
  BY ProcessFacts DEF Typed, JobsTyped
<1>2. /\ r \in Job /\ r.op = job[w].op /\ r.at = place
      /\ r.cand = job[w].cand /\ r.old = job[w].old
  BY <1>1 DEF Job
<1>3. OnRoad(r) /\ Carries(r) /\ r.op \in Ours
  BY <1>1, <1>2 DEF OnRoad, Carries, Ours
<1> QED BY <1>1, <1>2, <1>3, OneJob

LEMMA GoingTyped ==
  ASSUME Typed, NEW w \in Workers, NEW place \in Places, Going(w, place),
         job[w].op \in {"activate", "rollback"},
         place \notin {"idle", "unpin", "attach", "keep"}
  PROVE  JobsTyped'
<1>1. job \in [Processes -> Job] /\ w \in Processes /\ job[w] \in Job
  BY ProcessFacts DEF Typed, JobsTyped
<1>2. job[w].live \in BOOLEAN /\ job[w].end \in Terminal
  BY <1>1 DEF Job
<1>3. [job[w] EXCEPT !.at = place]
        = [job[w] EXCEPT !.at = place, !.live = job[w].live, !.end = job[w].end]
  BY <1>1 DEF Job
<1>4. job' = [job EXCEPT ![w] = [job[w] EXCEPT !.at = place, !.live = job[w].live,
                                               !.end = job[w].end]]
  BY <1>1, <1>3 DEF Going
<1> QED BY <1>2, <1>4, MoveTyped

LEMMA EndingTyped ==
  ASSUME Typed, NEW w \in Workers, NEW place \in Places, NEW phase \in Terminal,
         Ending(w, place, phase), job[w].op \in {"activate", "rollback"},
         place \notin {"idle", "unpin", "attach", "keep"}
  PROVE  JobsTyped'
<1>1. job \in [Processes -> Job] /\ w \in Processes /\ job[w] \in Job
  BY ProcessFacts DEF Typed, JobsTyped
<1>2. job[w].live \in BOOLEAN
  BY <1>1 DEF Job
<1>3. [job[w] EXCEPT !.at = place, !.end = phase]
        = [job[w] EXCEPT !.at = place, !.live = job[w].live, !.end = phase]
  BY <1>1 DEF Job
<1>4. job' = [job EXCEPT ![w] = [job[w] EXCEPT !.at = place, !.live = job[w].live,
                                               !.end = phase]]
  BY <1>1, <1>3 DEF Ending
<1> QED BY <1>2, <1>4, MoveTyped

LEMMA WorkerAt ==
  ASSUME Typed, NEW w \in Workers
  PROVE  /\ job[w] \in Job /\ w \in Processes /\ Carries(job[w]) /\ OnRoad(job[w])
         /\ job[w].op \in Ours
         /\ job[w].at \in {"park", "restore", "drop", "mark"}
              => job[w].op \in {"activate", "rollback"}
  BY ProcessFacts DEF Typed, JobsTyped, OnRoad, Ours

\* A refused rename leaves a mark in the history unless there was no prog_previous.
LEMMA RefusedMoves ==
  ASSUME Refused
  PROVE  /\ prog' = prog /\ previous' = previous /\ disturbed \subseteq disturbed'
         /\ disturbed' \subseteq disturbed \cup {"refused"}
         /\ ("restarted" \in disturbed') = ("restarted" \in disturbed)
         /\ "refused" \notin disturbed' => previous = None /\ disturbed' = disturbed
         /\ disturbed' = {} => previous = None /\ disturbed = {}
  BY DEF Refused

LEMMA ActivateTyped ==
  ASSUME Typed, NEW w \in Workers, Activate(w)
  PROVE  Typed'
<1>0. /\ job[w] \in Job /\ w \in Processes /\ Carries(job[w]) /\ job \in [Processes -> Job]
      /\ TypeOK
  BY WorkerAt DEF Typed, JobsTyped
<1>1. ASSUME NEW object \in Programs, BeginUpgrade(w, object) PROVE Typed'
  <2>1. PICK r : r = [Idle EXCEPT !.op = "activate", !.at = "preflight", !.cand = object,
                                  !.old = prog]
    OBVIOUS
  <2>2. /\ prog \in Programs /\ job' = [job EXCEPT ![w] = r] /\ base' = prog
        /\ UNCHANGED <<pins, link, journal, disturbed>>
    BY <1>0, <1>1, <2>1 DEF BeginUpgrade, TypeOK, Pinned
  <2>3. /\ r \in Job /\ r.op = "activate" /\ r.at = "preflight" /\ r.cand = object
        /\ r.old = prog
    BY <2>1, <2>2, IdleFacts DEF Job, Places, Pinned
  <2>4. JobsTyped'
    BY <1>0, <2>2, <2>3, OneJob DEF Carries, OnRoad, Ours
  <2> QED BY <1>0, <2>2, <2>4 DEF Typed, TypeOK, JobsTyped, pins, link, Processes
<1>2. CASE Preflight(w)
  <2>1. JobsTyped'
    BY <1>2, <1>0, ReturnTyped, GoingTyped DEF Preflight, At, Places
  <2> QED BY <1>0, <1>2, <2>1 DEF Preflight, Typed, TypeOK, JobsTyped, pins, link, hist, Phase, Terminal, Processes
<1>3. CASE WritePrepared(w)
  <2>1. JobsTyped'
    BY <1>3, GoingTyped DEF WritePrepared, At, Places
  <2> QED BY <1>0, <1>3, <2>1 DEF WritePrepared, Typed, TypeOK, JobsTyped, pins, link, hist, Phase, Processes
<1>4. CASE PinCandidate(w)
  <2>1. JobsTyped'
    <3>1. CASE Return(w)
      BY <1>0, <3>1, ReturnTyped
    <3>2. CASE Ending(w, "mark", "failed")
      BY <1>4, <3>2, EndingTyped DEF PinCandidate, At, Places, Terminal
    <3>3. CASE job' = [job EXCEPT ![w].at = "activating", ![w].live = linkProg # None]
      <4>1. [job[w] EXCEPT !.at = "activating", !.live = (linkProg # None)]
              = [job[w] EXCEPT !.at = "activating", !.live = (linkProg # None),
                               !.end = job[w].end]
        BY <1>0 DEF Job
      <4>2. job' = [job EXCEPT ![w] = [job[w] EXCEPT !.at = "activating",
                                         !.live = (linkProg # None), !.end = job[w].end]]
        BY <1>0, <3>3, <4>1
      <4>3. job[w].end \in Terminal /\ (linkProg # None) \in BOOLEAN /\ "activating" \in Places
            /\ job[w].op = "activate"
        BY <1>0, <1>4 DEF Job, Places, PinCandidate, At
      <4> QED BY <4>2, <4>3, MoveTyped
    <3> QED BY <1>4, <3>1, <3>2, <3>3 DEF PinCandidate
  <2>2. candidate' \in Pinned
    BY <1>0, <1>4 DEF PinCandidate, Job, Pinned
  <2> QED BY <1>0, <1>4, <2>1, <2>2 DEF PinCandidate, Typed, TypeOK, JobsTyped, link, hist, Processes
<1>5. CASE MarkActivating(w)
  <2>1. JobsTyped'
    BY <1>5, GoingTyped DEF MarkActivating, At, Places
  <2> QED BY <1>0, <1>5, <2>1 DEF MarkActivating, Typed, TypeOK, JobsTyped, pins, link, hist, Phase, Processes
<1>6. CASE UpdateLink(w)
  <2>1. JobsTyped'
    BY <1>6, GoingTyped, EndingTyped DEF UpdateLink, At, Places, Terminal
  <2>2. linkProg' \in Pinned
    BY <1>0, <1>6 DEF UpdateLink, Job, TypeOK
  <2> QED BY <1>0, <1>6, <2>1, <2>2 DEF UpdateLink, Typed, TypeOK, JobsTyped, pins, hist, Processes
<1>7. CASE SwapOut(w)
  <2>1. JobsTyped'
    BY <1>7, GoingTyped DEF SwapOut, At, Places
  <2> QED BY <1>0, <1>7, <2>1, RefusedMoves DEF SwapOut, Typed, TypeOK, JobsTyped, link, Pinned, Processes
<1>8. CASE Promote(w)
  <2>1. JobsTyped'
    BY <1>8, GoingTyped DEF Promote, At, Places
  <2> QED BY <1>0, <1>8, <2>1 DEF Promote, Typed, TypeOK, JobsTyped, link, hist, Pinned, Processes
<1>9. CASE MarkHealthy(w)
  <2>1. JobsTyped'
    BY <1>9, GoingTyped DEF MarkHealthy, At, Places
  <2> QED BY <1>0, <1>9, <2>1 DEF MarkHealthy, Typed, TypeOK, JobsTyped, pins, link, hist, Phase, Processes
<1>10. CASE HealthCheck(w)
  <2>1. JobsTyped'
    BY <1>10, GoingTyped DEF HealthCheck, At, Places
  <2> QED BY <1>0, <1>10, <2>1 DEF HealthCheck, Typed, TypeOK, JobsTyped, pins, link, hist, Phase, Processes
<1>11. CASE Commit(w)
  <2>1. JobsTyped'
    BY <1>0, <1>11, ReturnTyped DEF Commit
  <2> QED BY <1>0, <1>11, <2>1 DEF Commit, Typed, TypeOK, JobsTyped, pins, link, hist, Phase, Terminal, Processes
<1> QED
  BY <1>1, <1>2, <1>3, <1>4, <1>5, <1>6, <1>7, <1>8, <1>9, <1>10, <1>11 DEF Activate

LEMMA WayBackTyped ==
  ASSUME Typed, NEW w \in Workers, WayBack(w)
  PROVE  Typed'
<1>0. /\ job[w] \in Job /\ w \in Processes /\ Carries(job[w]) /\ job \in [Processes -> Job]
      /\ TypeOK
      /\ job[w].at \in {"park", "restore", "drop", "mark"}
           => job[w].op \in {"activate", "rollback"}
  BY WorkerAt DEF Typed, JobsTyped
<1>1. CASE UndoSwap(w)
  <2>1. JobsTyped'
    BY <1>1, EndingTyped DEF UndoSwap, At, Places, Terminal
  <2>2. linkProg' \in Pinned
    BY <1>0, <1>1 DEF UndoSwap, Job, TypeOK
  <2> QED BY <1>0, <1>1, <2>1, <2>2 DEF UndoSwap, Typed, TypeOK, JobsTyped, pins, hist, Processes
<1>2. CASE RevertUnhealthy(w)
  <2>1. JobsTyped'
    BY <1>2, EndingTyped DEF RevertUnhealthy, At, Places, Terminal
  <2>2. linkProg' \in Pinned
    BY <1>0, <1>2 DEF RevertUnhealthy, Job, TypeOK
  <2> QED BY <1>0, <1>2, <2>1, <2>2 DEF RevertUnhealthy, Typed, TypeOK, JobsTyped, pins, hist, Processes
<1>3. CASE BeginRollback(w)
  <2>1. PICK place \in {"drop", "revert"} :
          job' = [job EXCEPT ![w] = [[Idle EXCEPT !.op = "rollback"] EXCEPT !.at = place]]
    BY <1>3 DEF BeginRollback
  <2>2. PICK r : r = [[Idle EXCEPT !.op = "rollback"] EXCEPT !.at = place]
    OBVIOUS
  <2>3. r \in Job /\ r.op = "rollback" /\ r.at = place
    BY <2>2, IdleFacts DEF Job, Places
  <2>4. JobsTyped'
    <3>1. job' = [job EXCEPT ![w] = r]
      BY <2>1, <2>2
    <3>2. Carries(r) /\ OnRoad(r) /\ r.op \in Ours
      BY <2>3 DEF Carries, OnRoad, Ours
    <3> QED BY <1>0, <2>3, <3>1, <3>2, OneJob
  <2>5. base' \in Programs /\ journal' \in Phase \cup {None}
    BY <1>0, <1>3 DEF BeginRollback, TypeOK, Pinned, Phase
  <2> QED BY <1>0, <1>3, <2>4, <2>5 DEF BeginRollback, Typed, TypeOK, JobsTyped, pins, link, Processes
<1>4. CASE RevertToPrevious(w)
  <2>1. JobsTyped'
    <3>1. job[w].op = "rollback" /\ {"park", "mark"} \subseteq Places
      BY <1>4 DEF RevertToPrevious, At, Places
    <3>2. CASE Return(w)
      BY <1>0, <3>2, ReturnTyped
    <3>3. CASE Going(w, "park")
      BY <3>1, <3>3, GoingTyped
    <3>4. CASE Ending(w, "mark", "failed")
      BY <3>1, <3>4, EndingTyped DEF Terminal
    <3> QED BY <1>4, <3>2, <3>3, <3>4 DEF RevertToPrevious
  <2> QED BY <1>0, <1>4, <2>1 DEF RevertToPrevious, Typed, TypeOK, JobsTyped, pins, hist, Processes
<1>5. CASE Park(w)
  <2>1. JobsTyped'
    BY <1>0, <1>5, GoingTyped DEF Park, Places
  <2> QED BY <1>0, <1>5, <2>1 DEF Park, Typed, TypeOK, JobsTyped, link, hist, Pinned, Processes
<1>6. CASE Restore(w)
  <2>1. JobsTyped'
    BY <1>0, <1>6, ReturnTyped, GoingTyped DEF Restore, Places
  <2> QED BY <1>0, <1>6, <2>1, RefusedMoves DEF Restore, Typed, TypeOK, JobsTyped, link, Pinned, Processes
<1>7. CASE DropCandidate(w)
  <2>1. JobsTyped'
    BY <1>0, <1>7, GoingTyped DEF DropCandidate, Places
  <2> QED BY <1>0, <1>7, <2>1 DEF DropCandidate, Typed, TypeOK, JobsTyped, link, hist, Pinned, Processes
<1>8. CASE MarkEnd(w)
  <2>1. JobsTyped'
    BY <1>0, <1>8, ReturnTyped DEF MarkEnd
  <2>2. journal' \in Phase
    BY <1>0, <1>8 DEF MarkEnd, Job, Phase
  <2> QED BY <1>0, <1>8, <2>1, <2>2 DEF MarkEnd, Typed, TypeOK, JobsTyped, pins, link, hist, Processes
<1> QED BY <1>1, <1>2, <1>3, <1>4, <1>5, <1>6, <1>7, <1>8 DEF WayBack

LEMMA OthersTyped ==
  ASSUME Typed,
         \/ \E w \in Workers : Detach(w) \/ Unpin(w)
         \/ RestartLoader \/ AttachOrUpgrade \/ PinProg
         \/ \E w \in Processes : Die(w)
  PROVE  Typed'
<1>0. /\ job \in [Processes -> Job] /\ Loader \in Processes /\ job[Loader] \in Job
      /\ Workers \subseteq Processes /\ TypeOK
  BY ProcessFacts DEF Typed, JobsTyped
<1>1. ASSUME NEW w \in Workers, Detach(w) PROVE Typed'
  <2>1. PICK r : r = [Idle EXCEPT !.op = "detach", !.at = "unpin"]
    OBVIOUS
  <2>2. r \in Job /\ r.op = "detach" /\ r.at = "unpin"
    BY <2>1, IdleFacts DEF Job, Places
  <2>3. job' = [v \in Processes |-> IF v = w THEN r ELSE [job[v] EXCEPT !.live = FALSE]]
    BY <1>0, <1>1, <2>1 DEF Detach
  <2>4. ASSUME NEW v \in Processes
        PROVE  /\ [job[v] EXCEPT !.live = FALSE] \in Job
               /\ [job[v] EXCEPT !.live = FALSE].op = job[v].op
               /\ Carries([job[v] EXCEPT !.live = FALSE])
               /\ OnRoad([job[v] EXCEPT !.live = FALSE])
    BY <1>0, <2>4 DEF Job, Carries, OnRoad, Typed, JobsTyped
  <2>5. Carries(r) /\ OnRoad(r) /\ r.op \in Ours
    BY <2>2 DEF Carries, OnRoad, Ours
  <2>6. JobsTyped'
    BY <1>0, <2>2, <2>3, <2>4, <2>5, ProcessFacts DEF Typed, JobsTyped
  <2> QED
    BY <1>0, <1>1, <2>6 DEF Detach, Typed, TypeOK, JobsTyped, pins, hist, Pinned, Processes
<1>2. ASSUME NEW w \in Workers, Unpin(w) PROVE Typed'
  <2>1. JobsTyped'
    BY <1>0, <1>2, ReturnTyped DEF Unpin
  <2> QED BY <1>0, <1>2, <2>1 DEF Unpin, Typed, TypeOK, JobsTyped, pins, hist, Pinned, Processes
<1>3. CASE RestartLoader
  <2>1. PICK r : r = [Idle EXCEPT !.op = "start", !.at = "attach"]
    OBVIOUS
  <2>2. r \in Job /\ r.op = "start" /\ r.at = "attach"
    BY <2>1, IdleFacts DEF Job, Places
  <2>3. JobsTyped'
    <3>1. job' = [job EXCEPT ![Loader] = r]
      BY <1>3, <2>1 DEF RestartLoader
    <3>2. Carries(r) /\ OnRoad(r)
      BY <2>2 DEF Carries, OnRoad
    <3> QED BY <1>0, <2>2, <3>1, <3>2, OneJob, ProcessFacts
  <2> QED BY <1>0, <1>3, <2>3 DEF RestartLoader, Typed, TypeOK, JobsTyped, pins, link, Processes
<1>4. CASE AttachOrUpgrade
  <2>1. CASE Return(Loader)
    <3>1. JobsTyped'
      BY <1>0, <2>1, ReturnTyped
    <3> QED BY <1>0, <1>4, <3>1, UpgradeAssumption
            DEF AttachOrUpgrade, Typed, TypeOK, JobsTyped, pins, link, hist, Pinned, Processes
  <2>2. CASE Going(Loader, "keep")
    <3>1. PICK r : r = [job[Loader] EXCEPT !.at = "keep"]
      OBVIOUS
    <3>2. job' = [job EXCEPT ![Loader] = r] /\ job[Loader].op = "start"
      BY <1>0, <1>4, <2>2, <3>1 DEF Going, AttachOrUpgrade, At
    <3>3. r \in Job /\ r.op = "start" /\ r.at = "keep"
      BY <1>0, <3>1, <3>2 DEF Job, Places
    <3>4. JobsTyped'
      BY <1>0, <3>2, <3>3, OneJob, ProcessFacts DEF Carries, OnRoad
    <3> QED BY <1>0, <1>4, <3>4, UpgradeAssumption
            DEF AttachOrUpgrade, Typed, TypeOK, JobsTyped, pins, link, hist, Pinned, Processes
  <2> QED BY <1>4, <2>1, <2>2 DEF AttachOrUpgrade
<1>5. CASE PinProg
  <2>1. JobsTyped'
    BY <1>0, <1>5, ReturnTyped DEF PinProg
  <2> QED BY <1>0, <1>5, <2>1, UpgradeAssumption
          DEF PinProg, Typed, TypeOK, JobsTyped, link, hist, Pinned, Processes
<1>6. ASSUME NEW w \in Processes, Die(w) PROVE Typed'
  <2>1. JobsTyped'
    BY <1>6, ReturnTyped DEF Die
  <2> QED BY <1>0, <1>6, <2>1 DEF Die, Typed, TypeOK, JobsTyped, pins, link, Processes
<1> QED BY <1>1, <1>2, <1>3, <1>4, <1>5, <1>6

LEMMA TypedStep == Typed /\ [Next]_vars => Typed'
<1> SUFFICES ASSUME Typed, [Next]_vars PROVE Typed'
  OBVIOUS
<1>1. CASE UNCHANGED vars
  BY <1>1 DEF vars, Typed, TypeOK, JobsTyped
<1>2. CASE Next
  BY <1>2, ActivateTyped, WayBackTyped, OthersTyped DEF Next, Processes
<1> QED BY <1>1, <1>2

\* Every state of the upgrade model is well typed, for any programs and workers.
THEOREM UpgradeTyped == Spec => []TypeOK
<1>1. Typed => TypeOK
  BY DEF Typed
<1> QED BY <1>1, TypedInit, TypedStep, PTL DEF Spec

(***************************************************************************)
(* No window.                                                              *)
(***************************************************************************)

\* Only a detach takes the program off the link.
LEMMA WindowStep ==
  ASSUME Typed, Next, linkProg # None, linkProg' = None
  PROVE  \E w \in Workers : "detach" \in {job[w].op, job'[w].op}
<1>0. job \in [Processes -> Job] /\ Workers \subseteq Processes /\ None \notin Programs
  BY ProcessFacts, UpgradeAssumption DEF Typed, JobsTyped
<1>1. ASSUME NEW w \in Workers, Activate(w) PROVE FALSE
  <2>1. CASE UpdateLink(w)
    BY <1>0, <2>1, WorkerAt DEF UpdateLink, At, Carries
  <2> QED
    BY <1>1, <2>1 DEF Activate, BeginUpgrade, Preflight, WritePrepared, PinCandidate,
       MarkActivating, SwapOut, Promote, MarkHealthy, HealthCheck, Commit, link
<1>2. ASSUME NEW w \in Workers, WayBack(w) PROVE FALSE
  <2>1. CASE UndoSwap(w) \/ RevertUnhealthy(w)
    BY <1>0, <2>1, WorkerAt DEF UndoSwap, RevertUnhealthy, At, Carries
  <2>2. CASE RevertToPrevious(w)
    BY <2>2 DEF RevertToPrevious
  <2> QED
    BY <1>2, <2>1, <2>2 DEF WayBack, BeginRollback, Park, Restore, DropCandidate, MarkEnd, link
<1>3. ASSUME NEW w \in Workers, Detach(w) PROVE job'[w].op = "detach"
  <2>1. job'[w] = [Idle EXCEPT !.op = "detach", !.at = "unpin"]
    BY <1>0, <1>3 DEF Detach
  <2> QED BY <2>1 DEF Idle
<1>4. ASSUME NEW w \in Workers, Unpin(w) PROVE job[w].op = "detach"
  BY <1>4 DEF Unpin, At
<1>5. ~(RestartLoader \/ AttachOrUpgrade \/ PinProg \/ \E w \in Processes : Die(w))
  BY <1>0, UpgradeAssumption DEF RestartLoader, AttachOrUpgrade, PinProg, Die, link
<1> QED BY <1>1, <1>2, <1>3, <1>4, <1>5 DEF Next, Processes

\* However many commands upgrade, roll back and detach at the same time, whoever of
\* them is killed and whenever the loader restarts: without a detach, the link is never
\* without a program (upgrade.rs activate, rollback; load.rs).
THEOREM LinkNeverEmptied == Spec => NoWindow
<1>1. Typed /\ [Next]_vars
        => [linkProg # None /\ linkProg' = None
              => \E w \in Workers : "detach" \in {job[w].op, job'[w].op}]_vars
  BY WindowStep
<1> QED BY <1>1, TypedInit, TypedStep, PTL DEF Spec, NoWindow

(***************************************************************************)
(* One upgrade command at a time, killed anywhere, with a loader that      *)
(* restarts at any moment.  What holds at each place of the command that   *)
(* worker w runs:                                                          *)
(***************************************************************************)

Before == {"preflight", "prepare", "pin", "activating", "update", "swap"}
After  == {"promote", "healthy", "health", "commit", "revert", "park"}

Doing(w, op, places) == job[w].op = op /\ job[w].at \in places

\* The program to restore stays in prog until it is renamed, in prog_previous until it
\* is renamed back.
BaseHeld(w) ==
  "refused" \notin disturbed =>
    /\ Doing(w, "activate", Before) => prog = base
    /\ job[w].at \in After => previous = base
    /\ job[w].at \in {"undo", "restore"} => previous = base \/ (previous = None /\ prog = base)
    /\ Doing(w, "rollback", {"restore"}) => previous = base
    /\ Doing(w, "activate", {"drop", "mark"}) => base \in {prog, previous}
    /\ BaseKept

Restarted == "restarted" \in disturbed

\* The journal says committed only when nobody is about to change link or pins.
CommitHeld(w) ==
  /\ job[w].end # "committed"
  /\ Doing(w, "activate", Places \ {"preflight", "prepare"}) => journal # "committed"
  /\ Doing(w, "rollback", {"revert", "park", "restore"}) => journal # "committed"
  /\ ~Restarted => job[Loader].op = "none"
  /\ ~Restarted /\ Doing(w, "activate", {"activating", "update", "swap", "promote"})
       => candidate = job[w].cand
  /\ ~Restarted /\ Doing(w, "activate", {"swap", "promote", "healthy", "health", "commit", "revert"})
       => linkProg = job[w].cand
  /\ ~Restarted /\ Doing(w, "activate", {"healthy", "health", "commit"})
       => prog = job[w].cand
  /\ CommittedRuns

\* With no kill, no restart and no detach: which program the link has at each place.
Undisturbed(w) ==
  /\ linkPin /\ job[w].op # "detach"
  /\ Doing(w, "none", Places) =>
       /\ linkProg = prog
       /\ journal \in {"rolled_back", "failed"} \/ previous = None => prog = base
  /\ Doing(w, "activate", Places) => job[w].old = base
  /\ Doing(w, "activate", {"activating", "update", "swap", "promote", "healthy", "health",
                           "revert", "undo"})
       => job[w].live
  /\ Doing(w, "activate", {"preflight", "prepare", "pin", "activating", "update"})
       => linkProg = prog
  /\ job[w].at \in {"park", "restore"} => linkProg = base
  /\ job[w].at \in {"drop", "mark"} => linkProg = prog /\ prog = base

LinkHeld(w) ==
  /\ disturbed = {} /\ job[w].live => linkProg # None
  /\ disturbed = {} /\ linkProg # None => Undisturbed(w)

Alone(w) == BaseHeld(w) /\ CommitHeld(w) /\ LinkHeld(w)

\* What the ways to replace the job of w leave of it, and of the loader's.
Same(w) ==
  /\ job'[w].op = job[w].op /\ job'[w].cand = job[w].cand
  /\ job'[w].old = job[w].old /\ job'[w].live = job[w].live
  /\ job'[Loader] = job[Loader]

LEMMA GoingMoves ==
  ASSUME Typed, NEW w \in Workers, NEW place, Going(w, place)
  PROVE  Same(w) /\ job'[w].at = place /\ job'[w].end = job[w].end
  BY ProcessFacts DEF Typed, JobsTyped, Going, Same, Job

LEMMA EndingMoves ==
  ASSUME Typed, NEW w \in Workers, NEW place, NEW phase, Ending(w, place, phase)
  PROVE  Same(w) /\ job'[w].at = place /\ job'[w].end = phase
  BY ProcessFacts DEF Typed, JobsTyped, Ending, Same, Job

LEMMA ReturnMoves ==
  ASSUME Typed, NEW w \in Workers, Return(w)
  PROVE  /\ job'[w].op = "none" /\ job'[w].at = "idle" /\ ~job'[w].live
         /\ job'[w].end = "rolled_back" /\ job'[Loader] = job[Loader]
  BY ProcessFacts DEF Typed, JobsTyped, Return, Idle

LEMMA AloneFacts ==
  ASSUME Typed, NEW w \in Workers
  PROVE  /\ job[w] \in Job /\ Carries(job[w]) /\ OnRoad(job[w]) /\ job[w].op \in Ours
         /\ prog \in Pinned /\ previous \in Pinned /\ candidate \in Pinned
         /\ linkProg \in Pinned /\ base \in Programs /\ None \notin Programs
         /\ linkPin \in BOOLEAN /\ journal \in Phase \cup {None} /\ None \notin Phase
  BY WorkerAt, UpgradeAssumption DEF Typed, TypeOK

\* The three ways out of PinCandidate.
LEMMA PinningMoves ==
  ASSUME Typed, NEW w \in Workers, PinCandidate(w)
  PROVE  \/ /\ linkPin /\ candidate' = job[w].cand /\ job'[w].at = "activating"
            /\ job'[w].op = job[w].op /\ job'[w].cand = job[w].cand
            /\ job'[w].old = job[w].old /\ job'[w].live = (linkProg # None)
            /\ job'[w].end = job[w].end /\ job'[Loader] = job[Loader]
         \/ linkPin /\ Same(w) /\ job'[w].at = "mark" /\ job'[w].end = "failed"
         \/ ~linkPin /\ Return(w)
<1>1. CASE /\ linkPin /\ candidate' = job[w].cand
           /\ job' = [job EXCEPT ![w].at = "activating", ![w].live = linkProg # None]
  <2>1. /\ w \in Processes /\ Loader # w /\ job \in [Processes -> Job] /\ job[w] \in Job
    BY ProcessFacts DEF Typed, JobsTyped
  <2>2. PICK r : r = [job[w] EXCEPT !.at = "activating", !.live = (linkProg # None)]
    OBVIOUS
  <2>3. job' = [job EXCEPT ![w] = r]
    BY <1>1, <2>2
  <2>4. job'[w] = r /\ job'[Loader] = job[Loader]
    BY <2>1, <2>3
  <2>5. /\ r.at = "activating" /\ r.live = (linkProg # None) /\ r.op = job[w].op
        /\ r.cand = job[w].cand /\ r.old = job[w].old /\ r.end = job[w].end
    BY <2>1, <2>2 DEF Job
  <2> QED BY <1>1, <2>4, <2>5
<1>2. CASE linkPin /\ candidate' = None /\ Ending(w, "mark", "failed")
  BY <1>2, EndingMoves
<1> QED BY <1>1, <1>2 DEF PinCandidate

\* Every step of an upgrade keeps it.
LEMMA AloneActivates ==
  ASSUME NEW w \in Workers, Typed, Alone(w), Activate(w)
  PROVE  Alone(w)'
<1>0. /\ job[w] \in Job /\ Carries(job[w]) /\ OnRoad(job[w]) /\ job[w].op \in Ours
      /\ prog \in Pinned /\ previous \in Pinned /\ candidate \in Pinned
      /\ linkProg \in Pinned /\ base \in Programs /\ None \notin Programs
      /\ linkPin \in BOOLEAN /\ journal \in Phase \cup {None} /\ None \notin Phase
      /\ Typed /\ BaseHeld(w) /\ CommitHeld(w) /\ LinkHeld(w)
  BY AloneFacts DEF Alone
<1>1. CASE Preflight(w)
  <2>1. BaseHeld(w)'
    BY <1>0, <1>1, GoingMoves, EndingMoves, ReturnMoves
       DEF Preflight, At, pins, link, hist, Same, BaseHeld, Doing, Before, After, BaseKept, Terminal
  <2>2. CommitHeld(w)'
    BY <1>0, <1>1, GoingMoves, EndingMoves, ReturnMoves
       DEF Preflight, At, pins, link, hist, Same, CommitHeld, Doing, Places, Restarted, CommittedRuns, Terminal
  <2>3. LinkHeld(w)'
    BY <1>0, <1>1, GoingMoves, EndingMoves, ReturnMoves
       DEF Preflight, At, pins, link, hist, Same, LinkHeld, Undisturbed, Doing, Places, BaseHeld, CommitHeld, Restarted,
           Before, After, Terminal, Phase
  <2> QED BY <2>1, <2>2, <2>3 DEF Alone
<1>2. CASE WritePrepared(w)
  <2>1. BaseHeld(w)'
    BY <1>0, <1>2, GoingMoves, EndingMoves, ReturnMoves
       DEF WritePrepared, At, pins, link, hist, Same, BaseHeld, Doing, Before, After, BaseKept, Terminal
  <2>2. CommitHeld(w)'
    BY <1>0, <1>2, GoingMoves, EndingMoves, ReturnMoves
       DEF WritePrepared, At, pins, link, hist, Same, CommitHeld, Doing, Places, Restarted, CommittedRuns, Terminal
  <2>3. LinkHeld(w)'
    BY <1>0, <1>2, GoingMoves, EndingMoves, ReturnMoves
       DEF WritePrepared, At, pins, link, hist, Same, LinkHeld, Undisturbed, Doing, Places, BaseHeld, CommitHeld, Restarted,
           Before, After, Terminal, Phase
  <2> QED BY <2>1, <2>2, <2>3 DEF Alone
<1>3. CASE PinCandidate(w)
  <2>1. BaseHeld(w)'
    BY <1>0, <1>3, PinningMoves, ReturnMoves
       DEF PinCandidate, At, pins, link, hist, Same, BaseHeld, Doing, Before, After, BaseKept, Terminal
  <2>2. CommitHeld(w)'
    BY <1>0, <1>3, PinningMoves, ReturnMoves
       DEF PinCandidate, At, pins, link, hist, Same, CommitHeld, Doing, Places, Restarted, CommittedRuns, Terminal
  <2>3. LinkHeld(w)'
    BY <1>0, <1>3, PinningMoves, ReturnMoves
       DEF PinCandidate, At, pins, link, hist, Same, LinkHeld, Undisturbed, Doing, Places, BaseHeld, CommitHeld, Restarted,
           Before, After, Terminal, Phase
  <2> QED BY <2>1, <2>2, <2>3 DEF Alone
<1>4. CASE MarkActivating(w)
  <2>1. BaseHeld(w)'
    BY <1>0, <1>4, GoingMoves, EndingMoves, ReturnMoves
       DEF MarkActivating, At, pins, link, hist, Same, BaseHeld, Doing, Before, After, BaseKept, Terminal
  <2>2. CommitHeld(w)'
    BY <1>0, <1>4, GoingMoves, EndingMoves, ReturnMoves
       DEF MarkActivating, At, pins, link, hist, Same, CommitHeld, Doing, Places, Restarted, CommittedRuns, Terminal
  <2>3. LinkHeld(w)'
    BY <1>0, <1>4, GoingMoves, EndingMoves, ReturnMoves
       DEF MarkActivating, At, pins, link, hist, Same, LinkHeld, Undisturbed, Doing, Places, BaseHeld, CommitHeld, Restarted,
           Before, After, Terminal, Phase
  <2> QED BY <2>1, <2>2, <2>3 DEF Alone
<1>5. CASE UpdateLink(w)
  <2>1. BaseHeld(w)'
    BY <1>0, <1>5, GoingMoves, EndingMoves, ReturnMoves
       DEF UpdateLink, At, pins, link, hist, Same, Carries, BaseHeld, Doing, Before, After, BaseKept, Terminal
  <2>2. CommitHeld(w)'
    BY <1>0, <1>5, GoingMoves, EndingMoves, ReturnMoves
       DEF UpdateLink, At, pins, link, hist, Same, Carries, CommitHeld, Doing, Places, Restarted, CommittedRuns, Terminal
  <2>3. LinkHeld(w)'
    BY <1>0, <1>5, GoingMoves, EndingMoves, ReturnMoves
       DEF UpdateLink, At, pins, link, hist, Same, Carries, LinkHeld, Undisturbed, Doing, Places, BaseHeld, CommitHeld, Restarted,
           Before, After, Terminal, Phase
  <2> QED BY <2>1, <2>2, <2>3 DEF Alone
<1>6. CASE SwapOut(w)
  <2>1. BaseHeld(w)'
    BY <1>0, <1>6, GoingMoves, EndingMoves, ReturnMoves, RefusedMoves
       DEF SwapOut, At, pins, link, Same, BaseHeld, Doing, Before, After, BaseKept, Terminal
  <2>2. CommitHeld(w)'
    BY <1>0, <1>6, GoingMoves, EndingMoves, ReturnMoves, RefusedMoves
       DEF SwapOut, At, pins, link, Same, CommitHeld, Doing, Places, Restarted, CommittedRuns, Terminal
  <2>3. LinkHeld(w)'
    BY <1>0, <1>6, GoingMoves, EndingMoves, ReturnMoves, RefusedMoves
       DEF SwapOut, At, pins, link, Same, LinkHeld, Undisturbed, Doing, Places, BaseHeld, CommitHeld, Restarted,
           Before, After, Terminal, Phase
  <2> QED BY <2>1, <2>2, <2>3 DEF Alone
<1>7. CASE Promote(w)
  <2>1. BaseHeld(w)'
    BY <1>0, <1>7, GoingMoves, EndingMoves, ReturnMoves
       DEF Promote, At, pins, link, hist, Same, BaseHeld, Doing, Before, After, BaseKept, Terminal
  <2>2. CommitHeld(w)'
    BY <1>0, <1>7, GoingMoves, EndingMoves, ReturnMoves
       DEF Promote, At, pins, link, hist, Same, CommitHeld, Doing, Places, Restarted, CommittedRuns, Terminal
  <2>3. LinkHeld(w)'
    BY <1>0, <1>7, GoingMoves, EndingMoves, ReturnMoves
       DEF Promote, At, pins, link, hist, Same, LinkHeld, Undisturbed, Doing, Places, BaseHeld, CommitHeld, Restarted,
           Before, After, Terminal, Phase
  <2> QED BY <2>1, <2>2, <2>3 DEF Alone
<1>8. CASE MarkHealthy(w)
  <2>1. BaseHeld(w)'
    BY <1>0, <1>8, GoingMoves, EndingMoves, ReturnMoves
       DEF MarkHealthy, At, pins, link, hist, Same, BaseHeld, Doing, Before, After, BaseKept, Terminal
  <2>2. CommitHeld(w)'
    BY <1>0, <1>8, GoingMoves, EndingMoves, ReturnMoves
       DEF MarkHealthy, At, pins, link, hist, Same, CommitHeld, Doing, Places, Restarted, CommittedRuns, Terminal
  <2>3. LinkHeld(w)'
    BY <1>0, <1>8, GoingMoves, EndingMoves, ReturnMoves
       DEF MarkHealthy, At, pins, link, hist, Same, LinkHeld, Undisturbed, Doing, Places, BaseHeld, CommitHeld, Restarted,
           Before, After, Terminal, Phase
  <2> QED BY <2>1, <2>2, <2>3 DEF Alone
<1>9. CASE HealthCheck(w)
  <2>1. BaseHeld(w)'
    BY <1>0, <1>9, GoingMoves, EndingMoves, ReturnMoves
       DEF HealthCheck, At, pins, link, hist, Same, BaseHeld, Doing, Before, After, BaseKept, Terminal
  <2>2. CommitHeld(w)'
    BY <1>0, <1>9, GoingMoves, EndingMoves, ReturnMoves
       DEF HealthCheck, At, pins, link, hist, Same, CommitHeld, Doing, Places, Restarted, CommittedRuns, Terminal
  <2>3. LinkHeld(w)'
    BY <1>0, <1>9, GoingMoves, EndingMoves, ReturnMoves
       DEF HealthCheck, At, pins, link, hist, Same, LinkHeld, Undisturbed, Doing, Places, BaseHeld, CommitHeld, Restarted,
           Before, After, Terminal, Phase
  <2> QED BY <2>1, <2>2, <2>3 DEF Alone
<1>10. CASE Commit(w)
  <2>1. BaseHeld(w)'
    BY <1>0, <1>10, GoingMoves, EndingMoves, ReturnMoves
       DEF Commit, At, pins, link, hist, Same, BaseHeld, Doing, Before, After, BaseKept, Terminal
  <2>2. CommitHeld(w)'
    BY <1>0, <1>10, GoingMoves, EndingMoves, ReturnMoves
       DEF Commit, At, pins, link, hist, Same, CommitHeld, Doing, Places, Restarted, CommittedRuns, Terminal
  <2>3. LinkHeld(w)'
    BY <1>0, <1>10, GoingMoves, EndingMoves, ReturnMoves
       DEF Commit, At, pins, link, hist, Same, LinkHeld, Undisturbed, Doing, Places, BaseHeld, CommitHeld, Restarted,
           Before, After, Terminal, Phase
  <2> QED BY <2>1, <2>2, <2>3 DEF Alone
<1>11. ASSUME NEW object \in Programs, BeginUpgrade(w, object) PROVE Alone(w)'
  <2>1. job'[w] = [Idle EXCEPT !.op = "activate", !.at = "preflight", !.cand = object, !.old = prog]
    BY <1>0, <1>11, ProcessFacts DEF BeginUpgrade, Typed, JobsTyped
  <2>2. /\ job'[w].op = "activate" /\ job'[w].at = "preflight" /\ job'[w].cand = object
        /\ job'[w].old = prog /\ ~job'[w].live /\ job'[w].end = "rolled_back"
        /\ job'[Loader] = job[Loader] /\ base' = prog
        /\ UNCHANGED <<prog, previous, candidate, linkPin, linkProg, journal, disturbed>>
        /\ job[w].op = "none" /\ job[w].at = "idle" /\ prog # None /\ linkPin
    BY <1>0, <1>11, <2>1, ProcessFacts, IdleFacts DEF BeginUpgrade, Idle, pins, link, Typed, JobsTyped
  <2>3. BaseHeld(w)'
    BY <1>0, <1>11, <2>2 DEF BeginUpgrade, BaseHeld, Doing, Before, After, BaseKept
  <2>4. CommitHeld(w)'
    BY <1>0, <2>2 DEF CommitHeld, Doing, Places, Restarted, CommittedRuns
  <2>5. LinkHeld(w)'
    BY <1>0, <2>2 DEF LinkHeld, Undisturbed, Doing, Places
  <2> QED BY <2>3, <2>4, <2>5 DEF Alone
<1> QED BY <1>1, <1>2, <1>3, <1>4, <1>5, <1>6, <1>7, <1>8, <1>9, <1>10, <1>11 DEF Activate

\* So does every step of a way back.
LEMMA AloneGoesBack ==
  ASSUME NEW w \in Workers, Typed, Alone(w), WayBack(w)
  PROVE  Alone(w)'
<1>0. /\ job[w] \in Job /\ Carries(job[w]) /\ OnRoad(job[w]) /\ job[w].op \in Ours
      /\ prog \in Pinned /\ previous \in Pinned /\ candidate \in Pinned
      /\ linkProg \in Pinned /\ base \in Programs /\ None \notin Programs
      /\ linkPin \in BOOLEAN /\ journal \in Phase \cup {None} /\ None \notin Phase
      /\ Typed /\ BaseHeld(w) /\ CommitHeld(w) /\ LinkHeld(w)
  BY AloneFacts DEF Alone
<1>1. CASE UndoSwap(w)
  <2>1. BaseHeld(w)'
    BY <1>0, <1>1, GoingMoves, EndingMoves, ReturnMoves
       DEF UndoSwap, At, pins, link, hist, Same, BaseHeld, Doing, Before, After, BaseKept, Terminal
  <2>2. CommitHeld(w)'
    BY <1>0, <1>1, GoingMoves, EndingMoves, ReturnMoves
       DEF UndoSwap, At, pins, link, hist, Same, CommitHeld, Doing, Places, Restarted, CommittedRuns, Terminal
  <2>3. LinkHeld(w)'
    BY <1>0, <1>1, GoingMoves, EndingMoves, ReturnMoves
       DEF UndoSwap, At, pins, link, hist, Same, LinkHeld, Undisturbed, Doing, Places, BaseHeld, CommitHeld, Restarted,
           Before, After, Terminal, Phase
  <2> QED BY <2>1, <2>2, <2>3 DEF Alone
<1>2. CASE RevertUnhealthy(w)
  <2>1. BaseHeld(w)'
    BY <1>0, <1>2, GoingMoves, EndingMoves, ReturnMoves
       DEF RevertUnhealthy, At, pins, link, hist, Same, BaseHeld, Doing, Before, After, BaseKept, Terminal
  <2>2. CommitHeld(w)'
    BY <1>0, <1>2, GoingMoves, EndingMoves, ReturnMoves
       DEF RevertUnhealthy, At, pins, link, hist, Same, CommitHeld, Doing, Places, Restarted, CommittedRuns, Terminal
  <2>3. LinkHeld(w)'
    BY <1>0, <1>2, GoingMoves, EndingMoves, ReturnMoves
       DEF RevertUnhealthy, At, pins, link, hist, Same, LinkHeld, Undisturbed, Doing, Places, BaseHeld, CommitHeld, Restarted,
           Before, After, Terminal, Phase
  <2> QED BY <2>1, <2>2, <2>3 DEF Alone
<1>3. CASE RevertToPrevious(w)
  <2>1. BaseHeld(w)'
    BY <1>0, <1>3, GoingMoves, EndingMoves, ReturnMoves
       DEF RevertToPrevious, At, pins, link, hist, Same, BaseHeld, Doing, Before, After, BaseKept, Terminal
  <2>2. CommitHeld(w)'
    BY <1>0, <1>3, GoingMoves, EndingMoves, ReturnMoves
       DEF RevertToPrevious, At, pins, link, hist, Same, CommitHeld, Doing, Places, Restarted, CommittedRuns, Terminal
  <2>3. LinkHeld(w)'
    BY <1>0, <1>3, GoingMoves, EndingMoves, ReturnMoves
       DEF RevertToPrevious, At, pins, link, hist, Same, LinkHeld, Undisturbed, Doing, Places, BaseHeld, CommitHeld, Restarted,
           Before, After, Terminal, Phase
  <2> QED BY <2>1, <2>2, <2>3 DEF Alone
<1>4. CASE Park(w)
  <2>0. job[w].op \in {"activate", "rollback"} /\ job[w].end \in Terminal
    BY <1>0, <1>4 DEF Park, OnRoad, Job, Ours
  <2>1. BaseHeld(w)'
    BY <1>0, <1>4, <2>0, GoingMoves, EndingMoves, ReturnMoves
       DEF Park, At, pins, link, hist, Same, BaseHeld, Doing, Before, After, BaseKept, Terminal
  <2>2. CommitHeld(w)'
    BY <1>0, <1>4, <2>0, GoingMoves, EndingMoves, ReturnMoves
       DEF Park, At, pins, link, hist, Same, CommitHeld, Doing, Places, Restarted, CommittedRuns, Terminal
  <2>3. LinkHeld(w)'
    BY <1>0, <1>4, <2>0, GoingMoves, EndingMoves, ReturnMoves
       DEF Park, At, pins, link, hist, Same, LinkHeld, Undisturbed, Doing, Places, BaseHeld, CommitHeld, Restarted,
           Before, After, Terminal, Phase
  <2> QED BY <2>1, <2>2, <2>3 DEF Alone
<1>5. CASE Restore(w)
  <2>0. job[w].op \in {"activate", "rollback"} /\ job[w].end \in Terminal
    BY <1>0, <1>5 DEF Restore, OnRoad, Job, Ours
  <2>1. BaseHeld(w)'
    BY <1>0, <1>5, <2>0, GoingMoves, EndingMoves, ReturnMoves, RefusedMoves
       DEF Restore, At, pins, link, Same, BaseHeld, Doing, Before, After, BaseKept, Terminal
  <2>2. CommitHeld(w)'
    BY <1>0, <1>5, <2>0, GoingMoves, EndingMoves, ReturnMoves, RefusedMoves
       DEF Restore, At, pins, link, Same, CommitHeld, Doing, Places, Restarted, CommittedRuns, Terminal
  <2>3. LinkHeld(w)'
    BY <1>0, <1>5, <2>0, GoingMoves, EndingMoves, ReturnMoves, RefusedMoves
       DEF Restore, At, pins, link, Same, LinkHeld, Undisturbed, Doing, Places, BaseHeld, CommitHeld, Restarted,
           Before, After, Terminal, Phase
  <2> QED BY <2>1, <2>2, <2>3 DEF Alone
<1>6. CASE DropCandidate(w)
  <2>0. job[w].op \in {"activate", "rollback"} /\ job[w].end \in Terminal
    BY <1>0, <1>6 DEF DropCandidate, OnRoad, Job, Ours
  <2>1. BaseHeld(w)'
    BY <1>0, <1>6, <2>0, GoingMoves, EndingMoves, ReturnMoves
       DEF DropCandidate, At, pins, link, hist, Same, BaseHeld, Doing, Before, After, BaseKept, Terminal
  <2>2. CommitHeld(w)'
    BY <1>0, <1>6, <2>0, GoingMoves, EndingMoves, ReturnMoves
       DEF DropCandidate, At, pins, link, hist, Same, CommitHeld, Doing, Places, Restarted, CommittedRuns, Terminal
  <2>3. LinkHeld(w)'
    BY <1>0, <1>6, <2>0, GoingMoves, EndingMoves, ReturnMoves
       DEF DropCandidate, At, pins, link, hist, Same, LinkHeld, Undisturbed, Doing, Places, BaseHeld, CommitHeld, Restarted,
           Before, After, Terminal, Phase
  <2> QED BY <2>1, <2>2, <2>3 DEF Alone
<1>7. CASE MarkEnd(w)
  <2>0. job[w].op \in {"activate", "rollback"} /\ job[w].end \in Terminal
    BY <1>0, <1>7 DEF MarkEnd, OnRoad, Job, Ours
  <2>1. BaseHeld(w)'
    BY <1>0, <1>7, <2>0, GoingMoves, EndingMoves, ReturnMoves
       DEF MarkEnd, At, pins, link, hist, Same, BaseHeld, Doing, Before, After, BaseKept, Terminal
  <2>2. CommitHeld(w)'
    BY <1>0, <1>7, <2>0, GoingMoves, EndingMoves, ReturnMoves
       DEF MarkEnd, At, pins, link, hist, Same, CommitHeld, Doing, Places, Restarted, CommittedRuns, Terminal
  <2>3. LinkHeld(w)'
    BY <1>0, <1>7, <2>0, GoingMoves, EndingMoves, ReturnMoves
       DEF MarkEnd, At, pins, link, hist, Same, LinkHeld, Undisturbed, Doing, Places, BaseHeld, CommitHeld, Restarted,
           Before, After, Terminal, Phase
  <2> QED BY <2>1, <2>2, <2>3 DEF Alone
<1>8. CASE BeginRollback(w)
  <2>1. PICK place \in {"drop", "revert"} :
          /\ job' = [job EXCEPT ![w] = [[Idle EXCEPT !.op = "rollback"] EXCEPT !.at = place]]
          /\ place = "drop" => previous = None /\ UNCHANGED <<journal, base>>
          /\ place = "revert" => previous # None /\ linkPin /\ journal' = "rolling_back" /\ base' = previous
    BY <1>8 DEF BeginRollback
  <2>2. job'[w] = [[Idle EXCEPT !.op = "rollback"] EXCEPT !.at = place]
    BY <1>0, <2>1, ProcessFacts DEF Typed, JobsTyped
  <2>3. /\ job'[w].op = "rollback" /\ job'[w].at = place
        /\ ~job'[w].live /\ job'[w].end = "rolled_back"
        /\ job'[Loader] = job[Loader]
        /\ UNCHANGED <<prog, previous, candidate, linkPin, linkProg, disturbed>>
        /\ job[w].op = "none" /\ job[w].at = "idle"
    BY <1>0, <1>8, <2>1, <2>2, ProcessFacts, IdleFacts DEF BeginRollback, Idle, pins, link, Typed, JobsTyped
  <2>4. BaseHeld(w)'
    BY <1>0, <2>1, <2>3 DEF BaseHeld, Doing, Before, After, BaseKept
  <2>5. CommitHeld(w)'
    BY <1>0, <2>1, <2>3 DEF CommitHeld, Doing, Places, Restarted, CommittedRuns
  <2>6. LinkHeld(w)'
    BY <1>0, <2>1, <2>3 DEF LinkHeld, Undisturbed, Doing, Places
  <2> QED BY <2>4, <2>5, <2>6 DEF Alone
<1> QED BY <1>1, <1>2, <1>3, <1>4, <1>5, <1>6, <1>7, <1>8 DEF WayBack


\* Nobody but w upgrades: what the other steps leave.
LEMMA AloneUndisturbed ==
  ASSUME NEW w, Workers = {w}, Typed, Alone(w),
         \/ Detach(w) \/ Unpin(w) \/ RestartLoader \/ AttachOrUpgrade \/ PinProg
         \/ Die(w) \/ Die(Loader)
  PROVE  Alone(w)'
<1>0. /\ w \in Workers /\ w \in Processes /\ Loader \in Processes /\ Loader # w
      /\ job \in [Processes -> Job]
      /\ job[w] \in Job /\ Carries(job[w]) /\ OnRoad(job[w]) /\ job[w].op \in Ours
      /\ prog \in Pinned /\ previous \in Pinned /\ base \in Programs /\ None \notin Programs
      /\ journal \in Phase \cup {None} /\ None \notin Phase
      /\ Typed /\ BaseHeld(w) /\ CommitHeld(w) /\ LinkHeld(w)
  BY AloneFacts, ProcessFacts DEF Alone, Typed, JobsTyped
<1>1. CASE Detach(w)
  <2>1. /\ job'[w] = [Idle EXCEPT !.op = "detach", !.at = "unpin"]
        /\ job'[Loader] = [job[Loader] EXCEPT !.live = FALSE]
    BY <1>0, <1>1 DEF Detach
  <2>2. /\ job'[w].op = "detach" /\ job'[w].at = "unpin" /\ ~job'[w].live
        /\ job'[w].end = "rolled_back"
    BY <2>1 DEF Idle
  <2>3. job'[Loader].op = job[Loader].op
    BY <1>0, <2>1 DEF Job
  <2> QED BY <1>0, <1>1, <2>2, <2>3
          DEF Detach, Alone, BaseHeld, CommitHeld, LinkHeld, Doing, Before, After, BaseKept,
              CommittedRuns, Restarted, pins, hist
<1>2. CASE Unpin(w)
  BY <1>0, <1>2, ReturnMoves
     DEF Unpin, Alone, BaseHeld, CommitHeld, LinkHeld, Doing, Before, After, BaseKept,
         CommittedRuns, Restarted, pins, hist
<1>3. CASE RestartLoader
  <2>1. job'[w] = job[w] /\ "restarted" \in disturbed' /\ disturbed' # {}
    BY <1>0, <1>3 DEF RestartLoader
  <2> QED BY <1>0, <1>3, <2>1
          DEF RestartLoader, Alone, BaseHeld, CommitHeld, LinkHeld, Doing, BaseKept,
              CommittedRuns, Restarted, Terminal, Phase, pins, link
<1>4. CASE AttachOrUpgrade
  <2>1. job'[w] = job[w] /\ Restarted /\ disturbed # {}
    BY <1>0, <1>4 DEF AttachOrUpgrade, At, Going, Return, CommitHeld, Restarted
  <2> QED BY <1>0, <1>4, <2>1
          DEF AttachOrUpgrade, Alone, BaseHeld, CommitHeld, LinkHeld, Doing, BaseKept,
              CommittedRuns, Restarted, pins, hist
<1>5. CASE PinProg
  <2>1. job'[w] = job[w] /\ Restarted /\ disturbed # {}
    BY <1>0, <1>5 DEF PinProg, At, Return, CommitHeld, Restarted
  <2> QED BY <1>0, <1>5, <2>1
          DEF PinProg, Alone, BaseHeld, CommitHeld, LinkHeld, Doing, BaseKept,
              CommittedRuns, Restarted, link, hist
<1>6. CASE Die(w)
  BY <1>0, <1>6, ReturnMoves
     DEF Die, Alone, BaseHeld, CommitHeld, LinkHeld, Doing, Before, After, BaseKept,
         CommittedRuns, Restarted, pins, link
<1>7. CASE Die(Loader)
  <2>1. job'[w] = job[w] /\ job'[Loader].op = "none" /\ disturbed' # {}
    BY <1>0, <1>7, IdleFacts DEF Die, Return
  <2> QED BY <1>0, <1>7, <2>1
          DEF Die, Alone, BaseHeld, CommitHeld, LinkHeld, Doing, BaseKept,
              CommittedRuns, Restarted, pins, link
<1> QED BY <1>1, <1>2, <1>3, <1>4, <1>5, <1>6, <1>7

LEMMA AloneInit == ASSUME NEW w \in Workers, Init PROVE Alone(w)
<1>1. job[w] = Idle /\ job[Loader] = Idle
  BY DEF Init
<1> QED BY <1>1, UpgradeAssumption
        DEF Init, Idle, Alone, BaseHeld, CommitHeld, LinkHeld, Undisturbed, Doing, Before, After,
            BaseKept, CommittedRuns, Restarted, Terminal, Phase

LEMMA AloneStep ==
  ASSUME NEW w, Workers = {w}
  PROVE  Typed /\ Alone(w) /\ [Next]_vars => Alone(w)'
<1> SUFFICES ASSUME Typed, Alone(w), [Next]_vars PROVE Alone(w)'
  OBVIOUS
<1>1. CASE UNCHANGED vars
  BY <1>1 DEF vars, Alone, BaseHeld, CommitHeld, LinkHeld, Undisturbed, Doing, BaseKept,
              CommittedRuns, Restarted
<1>2. CASE Next
  BY <1>2, AloneActivates, AloneGoesBack, AloneUndisturbed DEF Next
<1> QED BY <1>1, <1>2

LEMMA AloneAlways ==
  ASSUME NEW w, Workers = {w}
  PROVE  Spec => []Alone(w)
<1>1. Init => Alone(w)
  BY AloneInit
<1>2. Typed /\ Alone(w) /\ [Next]_vars => Alone(w)'
  BY AloneStep
<1> QED BY <1>1, <1>2, TypedInit, TypedStep, PTL DEF Spec

\* With one upgrade command at a time: as long as the journal is not terminal, the
\* program a way back has to restore is in prog or prog_previous, wherever commands
\* and loader are killed and whatever is refused, save a rename beside an older
\* prog_previous (upgrade.rs activate, rollback).
THEOREM WayBackExists == ASSUME NEW w, Workers = {w} PROVE Spec => []BaseKept
<1>1. Alone(w) => BaseKept
  BY DEF Alone, BaseHeld, BaseKept
<1> QED BY <1>1, AloneAlways, PTL

\* With one upgrade command at a time: a committed journal speaks of the program that
\* steers, until the loader restarts (upgrade.rs activate, rollback).
THEOREM CommittedMeansRunning == ASSUME NEW w, Workers = {w} PROVE Spec => []CommittedRuns
<1>1. Alone(w) => CommittedRuns
  BY DEF Alone, CommitHeld
<1> QED BY <1>1, AloneAlways, PTL

\* With one upgrade command at a time: an upgrade or a rollback that was not disturbed
\* leaves link and prog on one program, the one from before when it failed
\* (upgrade.rs activate, rollback, every error path).
THEOREM UpgradeIsAtomic == ASSUME NEW w, Workers = {w} PROVE Spec => []AllOrNothing
<1>1. ASSUME Typed, Alone(w), Quiet, disturbed = {}, linkProg # None
      PROVE  linkProg = prog /\ (journal \in {"rolled_back", "failed"} => prog = base)
  <2>1. job[w] = Idle
    BY <1>1 DEF Quiet
  <2>2. job[w].op = "none" /\ job[w].at \in Places
    BY <2>1 DEF Idle, Places
  <2> QED BY <1>1, <2>2 DEF Alone, LinkHeld, Undisturbed, Doing
<1>2. Typed /\ Alone(w) => AllOrNothing
  BY <1>1 DEF AllOrNothing
<1>3. Spec => []Typed
  BY TypedInit, TypedStep, PTL DEF Spec
<1> QED BY <1>2, <1>3, AloneAlways, PTL

===============================================================================
