-------------------------------- MODULE Upgrade --------------------------------
(***************************************************************************)
(* Replacing the BPF program of the primary sk_lookup link: upgrade.rs     *)
(* (activate, rollback) with the two other writers of the same pins, the   *)
(* start of the loader (load.rs load_and_attach) and detach-primary        *)
(* (pin.rs).                                                               *)
(*                                                                         *)
(* A command keeps its place in `job'; one step is one effect another      *)
(* command, or a crash, can come after: a journal replaced by rename, a    *)
(* pin made, moved or removed, a bpf_link_update.  Both ways back, from a  *)
(* failed activation and from an explicit rollback, walk the same road:    *)
(*                                                                         *)
(*    revert -> park -> restore -> drop -> mark                            *)
(*                                                                         *)
(* The first start of the loader is over: link and `prog' are pinned.      *)
(***************************************************************************)
EXTENDS Naturals

CONSTANTS
  Programs,   \* generations of the dispatch program
  Builtin,    \* the one compiled into the loader
  None,       \* no pin, no program, no file
  Workers,    \* concurrent command-line processes
  Crashes,    \* may a command be killed half way?
  Restarts    \* may the loader restart?

Loader == "loader"

VARIABLES
  prog, previous, candidate,  \* the pins prog, prog_previous, prog_candidate
  linkPin,    \* sk_lookup is pinned
  linkProg,   \* the program on that link, None once it is detached
  journal,    \* the phase in the journal file, None without a file
  job,        \* what every process is doing
  base,       \* history: the generation a way back must be able to restore
  disturbed   \* history: what may have torn link and pins apart

pins == <<prog, previous, candidate>>
link == <<linkPin, linkProg>>
vars == <<prog, previous, candidate, linkPin, linkProg, journal, job, base, disturbed>>
hist == <<base, disturbed>>

Terminal == {"rolled_back", "committed", "failed"}
Phase    == Terminal \cup {"prepared", "activating", "healthy", "rolling_back"}

ASSUME UpgradeAssumption ==
  /\ Builtin \in Programs /\ None \notin Programs \cup Phase
  /\ Loader \notin Workers
  /\ Crashes \in BOOLEAN /\ Restarts \in BOOLEAN

Pinned   == Programs \cup {None}
Places   == {"idle", "preflight", "prepare", "pin", "activating", "update", "swap",
             "promote", "healthy", "health", "commit", "undo", "revert", "park",
             "restore", "drop", "mark", "unpin", "attach", "keep"}

\* `cand' is the loaded object, `old' the descriptor opened on prog, `live' says that
\* the link this job opened is still the attached one and `end' is the phase the
\* last mark will write.
Job == [op : {"none", "activate", "rollback", "detach", "start"}, at : Places,
        cand : Pinned, old : Pinned, live : BOOLEAN, end : Terminal]

Idle == [op |-> "none", at |-> "idle", cand |-> None, old |-> None, live |-> FALSE,
         end |-> "rolled_back"]

TypeOK ==
  /\ prog \in Pinned /\ previous \in Pinned /\ candidate \in Pinned
  /\ linkPin \in BOOLEAN /\ linkProg \in Pinned
  /\ journal \in Phase \cup {None}
  /\ job \in [Workers \cup {Loader} -> Job]
  /\ base \in Programs
  /\ disturbed \subseteq {"killed", "restarted", "refused"}

Init ==
  /\ prog = Builtin /\ previous = None /\ candidate = None
  /\ linkPin = TRUE /\ linkProg = Builtin
  /\ journal = None /\ base = Builtin /\ disturbed = {}
  /\ job = [w \in Workers \cup {Loader} |-> Idle]

At(w, op, place) == job[w].op = op /\ job[w].at = place
Going(w, place)  == job' = [job EXCEPT ![w].at = place]
Return(w)        == job' = [job EXCEPT ![w] = Idle]

\* Go on to the last mark, with the phase it will write.
Ending(w, place, phase) == job' = [job EXCEPT ![w].at = place, ![w].end = phase]

-------------------------------------------------------------------------------
(* activate                                                                *)

\* Mutant: prog is not among the pins that must be live.
MutBeginUpgradeWithoutProg(w, object) ==
  /\ job[w] = Idle
  /\ journal \in Terminal \cup {None}
  /\ linkPin
  /\ job' = [job EXCEPT ![w] = [Idle EXCEPT !.op = "activate", !.at = "preflight",
                                            !.cand = object, !.old = prog]]
  /\ base' = prog
  /\ UNCHANGED <<pins, link, journal, disturbed>>

\* The journal is at rest, link and prog are pinned; prog is opened for the way back.
BeginUpgrade(w, object) ==
  /\ job[w] = Idle
  /\ journal \in Terminal \cup {None}
  /\ linkPin /\ prog # None
  /\ job' = [job EXCEPT ![w] = [Idle EXCEPT !.op = "activate", !.at = "preflight",
                                            !.cand = object, !.old = prog]]
  /\ base' = prog
  /\ UNCHANGED <<pins, link, journal, disturbed>>

\* load_candidate: map ABI and verifier; the journal says failed when it refuses.
Preflight(w) ==
  /\ At(w, "activate", "preflight")
  /\ \/ Going(w, "prepare") /\ UNCHANGED journal
     \/ journal' = "failed" /\ Return(w)
  /\ UNCHANGED <<pins, link, hist>>

WritePrepared(w) ==
  /\ At(w, "activate", "prepare")
  /\ journal' = "prepared" /\ Going(w, "pin")
  /\ UNCHANGED <<pins, link, hist>>

\* Drop a stale candidate pin, open the link, pin the new program.  Without the
\* link the command ends as it is, in phase prepared.
PinCandidate(w) ==
  /\ At(w, "activate", "pin")
  /\ \/ /\ linkPin
        /\ candidate' = job[w].cand
        /\ job' = [job EXCEPT ![w].at = "activating", ![w].live = linkProg # None]
     \/ linkPin /\ candidate' = None /\ Ending(w, "mark", "failed")
     \/ ~linkPin /\ candidate' = None /\ Return(w)
  /\ UNCHANGED <<prog, previous, link, journal, hist>>

MarkActivating(w) ==
  /\ At(w, "activate", "activating")
  /\ journal' = "activating" /\ Going(w, "update")
  /\ UNCHANGED <<pins, link, hist>>

\* Mutant: the error of the update is lost.
MutUpdateLinkIgnoresError(w) ==
  /\ At(w, "activate", "update")
  /\ linkProg' \in {linkProg, IF job[w].live THEN job[w].cand ELSE linkProg}
  /\ Going(w, "swap")
  /\ UNCHANGED <<pins, linkPin, journal, hist>>

\* Mutant: the old program is detached before the new one is attached.
MutUpdateLinkDetaches(w) ==
  /\ At(w, "activate", "update")
  /\ \/ job[w].live /\ linkProg # None /\ linkProg' = None /\ UNCHANGED job
     \/ job[w].live /\ linkProg = None /\ linkProg' = job[w].cand /\ Going(w, "swap")
     \/ Ending(w, "drop", "failed") /\ UNCHANGED linkProg
  /\ UNCHANGED <<pins, linkPin, journal, hist>>

\* bpf_link_update: in one step, or not at all.  The kernel may refuse the candidate;
\* a program that ran on the link before it refuses only once the link is detached.
UpdateLink(w) ==
  /\ At(w, "activate", "update")
  /\ \/ job[w].live /\ linkProg' = job[w].cand /\ Going(w, "swap")
     \/ Ending(w, "drop", "failed") /\ UNCHANGED linkProg
  /\ UNCHANGED <<pins, linkPin, journal, hist>>

\* Mutant: prog is removed, not renamed.
MutSwapOutRemoves(w) ==
  /\ At(w, "activate", "swap")
  /\ IF prog # None
     THEN prog' = None /\ Going(w, "promote") /\ UNCHANGED previous
     ELSE Going(w, "undo") /\ UNCHANGED <<prog, previous>>
  /\ UNCHANGED <<candidate, link, journal, hist>>

\* A rename of prog or prog_previous is refused: for want of its source, or by the
\* kernel.  If there is a prog_previous, the pins are not what the way back takes them for.
Refused ==
  /\ UNCHANGED <<prog, previous>>
  /\ disturbed' = IF previous = None THEN disturbed ELSE disturbed \cup {"refused"}

\* rename(prog, prog_previous); an older prog_previous is replaced.
SwapOut(w) ==
  /\ At(w, "activate", "swap")
  /\ \/ /\ prog # None /\ previous' = prog /\ prog' = None
        /\ Going(w, "promote") /\ UNCHANGED disturbed
     \/ Going(w, "undo") /\ Refused
  /\ UNCHANGED <<candidate, link, journal, base>>

\* rename(prog_candidate, prog); a failure of either rename is undone.
Promote(w) ==
  /\ At(w, "activate", "promote")
  /\ \/ candidate # None /\ prog' = candidate /\ candidate' = None /\ Going(w, "healthy")
     \/ Going(w, "undo") /\ UNCHANGED <<prog, candidate>>
  /\ UNCHANGED <<previous, link, journal, hist>>

MarkHealthy(w) ==
  /\ At(w, "activate", "healthy")
  /\ journal' = "healthy" /\ Going(w, "health")
  /\ UNCHANGED <<pins, link, hist>>

\* The pins are looked at before the health window, which is only a sleep.  The
\* check may also fail for reasons of its own (a layout, the injected failure).
HealthCheck(w) ==
  /\ At(w, "activate", "health")
  /\ \/ linkPin /\ prog # None /\ Going(w, "commit") /\ UNCHANGED journal
     \/ journal' = "rolling_back" /\ Going(w, "revert")
  /\ UNCHANGED <<pins, link, hist>>

Commit(w) ==
  /\ At(w, "activate", "commit")
  /\ journal' = "committed" /\ Return(w)
  /\ UNCHANGED <<pins, link, hist>>

-------------------------------------------------------------------------------
(* The way back.                                                           *)

\* The pin swap failed: put the old program back on the link if it lets us, say
\* rolled_back in any case.
UndoSwap(w) ==
  /\ At(w, "activate", "undo")
  /\ linkProg' = IF job[w].live THEN job[w].old ELSE linkProg
  /\ Ending(w, "restore", "rolled_back")
  /\ UNCHANGED <<pins, linkPin, journal, hist>>

\* Mutant: only the pins go back.
MutRevertUnhealthyPinsOnly(w) ==
  /\ At(w, "activate", "revert")
  /\ Ending(w, "park", "rolled_back")
  /\ UNCHANGED <<pins, link, journal, hist>>

\* The health window failed: the last mark tells whether the link was put back.
RevertUnhealthy(w) ==
  /\ At(w, "activate", "revert")
  /\ IF job[w].live
     THEN linkProg' = job[w].old /\ Ending(w, "park", "rolled_back")
     ELSE Ending(w, "park", "failed") /\ UNCHANGED linkProg
  /\ UNCHANGED <<pins, linkPin, journal, hist>>

\* upgrade-rollback.  Without prog_previous there is nothing to restore, with it the
\* link must be pinned.
BeginRollback(w) ==
  LET start == [Idle EXCEPT !.op = "rollback"] IN
  /\ job[w] = Idle
  /\ \/ /\ previous = None
        /\ job' = [job EXCEPT ![w] = [start EXCEPT !.at = "drop"]]
        /\ UNCHANGED <<journal, base>>
     \/ /\ previous # None /\ linkPin
        /\ journal' = "rolling_back" /\ base' = previous
        /\ job' = [job EXCEPT ![w] = [start EXCEPT !.at = "revert"]]
  /\ UNCHANGED <<pins, link, disturbed>>

\* Open prog_previous and the link; either may have gone since.
RevertToPrevious(w) ==
  /\ At(w, "rollback", "revert")
  /\ IF previous = None \/ ~linkPin
     THEN Return(w) /\ UNCHANGED linkProg
     ELSE IF linkProg # None
     THEN linkProg' = previous /\ Going(w, "park")
     ELSE Ending(w, "mark", "failed") /\ UNCHANGED linkProg
  /\ UNCHANGED <<pins, linkPin, journal, hist>>

\* rename(prog, prog_candidate), when there is a prog; nobody minds that it fails.
Park(w) ==
  /\ job[w].at = "park"
  /\ \/ prog # None /\ candidate' = prog /\ prog' = None
     \/ UNCHANGED <<prog, candidate>>
  /\ Going(w, "restore")
  /\ UNCHANGED <<previous, link, journal, hist>>

\* rename(prog_previous, prog); only upgrade-rollback minds that it fails.
Restore(w) ==
  /\ job[w].at = "restore"
  /\ \/ /\ previous # None /\ prog' = previous /\ previous' = None
        /\ Going(w, "drop") /\ UNCHANGED disturbed
     \/ Refused /\ (IF job[w].op = "rollback" THEN Return(w) ELSE Going(w, "drop"))
  /\ UNCHANGED <<candidate, link, journal, base>>

DropCandidate(w) ==
  /\ job[w].at = "drop"
  /\ candidate' = None /\ Going(w, "mark")
  /\ UNCHANGED <<prog, previous, link, journal, hist>>

MarkEnd(w) ==
  /\ job[w].at = "mark"
  /\ journal' = job[w].end /\ Return(w)
  /\ UNCHANGED <<pins, link, hist>>

-------------------------------------------------------------------------------
(* The other writers.                                                      *)

\* detach-primary: detach the link, then remove its pin.  Every descriptor opened on
\* this link is of no use from now on.
Detach(w) ==
  /\ job[w] = Idle /\ linkPin
  /\ linkProg' = None
  /\ job' = [v \in DOMAIN job |->
               IF v = w THEN [Idle EXCEPT !.op = "detach", !.at = "unpin"]
               ELSE [job[v] EXCEPT !.live = FALSE]]
  /\ UNCHANGED <<pins, linkPin, journal, hist>>

Unpin(w) ==
  /\ At(w, "detach", "unpin")
  /\ linkPin' = FALSE /\ linkProg' = None
  /\ Return(w)
  /\ UNCHANGED <<pins, journal, hist>>

\* The loader restarts, by hand or as a service: systemd then clears the
\* RuntimeDirectory the journal is in.
RestartLoader ==
  /\ Restarts /\ job[Loader] = Idle
  /\ journal' \in {journal, None}
  /\ job' = [job EXCEPT ![Loader] = [Idle EXCEPT !.op = "start", !.at = "attach"]]
  /\ disturbed' = disturbed \cup {"restarted"}
  /\ UNCHANGED <<pins, link, base>>

\* Update the pinned link, which fails on a detached one, or attach and pin a new one.
AttachOrUpgrade ==
  /\ At(Loader, "start", "attach")
  /\ IF linkPin /\ linkProg = None
     THEN Return(Loader) /\ UNCHANGED link
     ELSE linkPin' = TRUE /\ linkProg' = Builtin /\ Going(Loader, "keep")
  /\ UNCHANGED <<pins, journal, hist>>

\* pin_dispatch_prog: a pinned program is kept, whatever the link runs.
PinProg ==
  /\ At(Loader, "start", "keep")
  /\ prog' = IF prog = None THEN Builtin ELSE prog
  /\ Return(Loader)
  /\ UNCHANGED <<previous, candidate, link, journal, hist>>

\* Killed, or ended by a journal that cannot be written.
Die(w) ==
  /\ Crashes /\ job[w] # Idle
  /\ Return(w)
  /\ disturbed' = disturbed \cup {"killed"}
  /\ UNCHANGED <<pins, link, journal, base>>

-------------------------------------------------------------------------------
Activate(w) ==
  \/ \E object \in Programs : BeginUpgrade(w, object)
  \/ Preflight(w) \/ WritePrepared(w) \/ PinCandidate(w) \/ MarkActivating(w)
  \/ UpdateLink(w) \/ SwapOut(w) \/ Promote(w) \/ MarkHealthy(w) \/ HealthCheck(w)
  \/ Commit(w)

WayBack(w) ==
  \/ UndoSwap(w) \/ RevertUnhealthy(w) \/ BeginRollback(w) \/ RevertToPrevious(w)
  \/ Park(w) \/ Restore(w) \/ DropCandidate(w) \/ MarkEnd(w)

Next ==
  \/ \E w \in Workers : Activate(w) \/ WayBack(w) \/ Detach(w) \/ Unpin(w)
  \/ RestartLoader \/ AttachOrUpgrade \/ PinProg
  \/ \E w \in Workers \cup {Loader} : Die(w)

Spec == Init /\ [][Next]_vars

-------------------------------------------------------------------------------
(* Properties.                                                             *)

Quiet == \A w \in Workers \cup {Loader} : job[w] = Idle

\* What a finished command leaves, as long as no process was killed, no loader restarted
\* and no rename refused that there is no making up for: link and prog name the same
\* program, and after a failed or rolled back upgrade, also one that could not swap the
\* pins, it is the program from before (upgrade.rs activate, all its error paths).
AllOrNothing ==
  Quiet /\ disturbed = {} /\ linkProg # None =>
    /\ linkProg = prog
    /\ journal \in {"rolled_back", "failed"} => prog = base

\* A committed journal speaks of the program that steers, also after commands killed
\* anywhere and any number of ways back, until the loader restarts (upgrade.rs
\* activate, rollback).
CommittedRuns ==
  journal = "committed" /\ linkProg # None /\ "restarted" \notin disturbed
    => linkProg = prog

\* As long as the journal is not terminal a way back exists: the program that has to
\* be restored is in one of the two pins a rollback reads, however often activation,
\* rollback and loader are killed and started again, unless a rename was refused beside
\* an older prog_previous (upgrade.rs activate, rollback).
BaseKept ==
  journal \notin Terminal \cup {None} /\ "refused" \notin disturbed
    => base \in {prog, previous}

\* Whoever upgrades, rolls back or restarts the loader at the same time: the link is
\* without a program only after somebody detached it (upgrade.rs activate, rollback;
\* load.rs attach_or_upgrade_sk_lookup).
NoWindow ==
  [][linkProg # None /\ linkProg' = None
       => \E w \in Workers : "detach" \in {job[w].op, job'[w].op}]_vars

\* A rolled back journal means that the previous generation steers (upgrade.rs
\* rollback).
RolledBackRestored ==
  Quiet /\ journal = "rolled_back" /\ linkProg # None => linkProg = base
===============================================================================
