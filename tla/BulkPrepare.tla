------------------------------- MODULE BulkPrepare -------------------------------
(***************************************************************************)
(* A bulk command up to the decision whether its ports may be opened       *)
(* (ctl.rs ctl_bulk_add, ctl_bulk_fill, apply_add): the list is made       *)
(* (PortLists), the real listens are collected (NginxListens), the overlap *)
(* of the two is refused.  The configuration may be edited meanwhile.      *)
(*                                                                         *)
(* Binding, freeze gate, policy and what follows are ControlPlane's.       *)
(***************************************************************************)
EXTENDS PortLists, NginxListens

CONSTANTS
  Requests,   \* what may be asked for
  Trees,      \* configurations that may be found
  Inner,      \* the ports that are always taken for real listens
  MaxEdits    \* bound on edits during a command

\* The files that may be found, their includes, and the paths those may name.
Found == {tree[f] : tree \in Trees, f \in Files} \ {Missing}
Specs == UNION {Elements(contents.includes) : contents \in Found}
Dirs  == {path.dir : path \in Paths}
Includable == Paths \cup {[dir |-> Join(dir, spec.in), name |-> spec.name] : dir \in Dirs, spec \in Specs}

ASSUME BulkAssumption ==
  /\ Requests \subseteq Fill \cup Bulk
  /\ MaxEdits \in Nat
  /\ \A contents \in Found : contents.includes \in Seq(Elements(contents.includes))
  /\ \A spec \in Specs : spec.name \in Seq(Elements(spec.name))

VARIABLES outcome, edits

vars == <<listVars, walkVars, outcome, edits>>

\* What the walk may still have to do.
Loops == [do : {"visit"}, paths : SUBSET Includable]
Looks == [do : {"look"}, dir : Dirs, spec : Specs]

\* Whatever is edited, read is what was found under paths that exist.
TypeOK ==
  /\ ListTypeOK
  /\ text \in Trees
  /\ walk \in {"idle", "walk", "done", "error"}
  /\ todo \in Seq(Loops \cup Looks)
  /\ read \in Seq([path : Paths, contents : Found])
  /\ visited = {Canon(read[i].path) : i \in DOMAIN read}
  /\ outcome \in {"none", "accepted", "refused"} /\ edits \in 0..MaxEdits

Init == ListInit(Requests) /\ WalkInit(Trees) /\ outcome = "none" /\ edits = 0

MakeList == ListNext /\ UNCHANGED <<walkVars, outcome, edits>>

\* real_ports: without a configuration only the inner listens are real.
Decide(real) == outcome' = IF Elements(out) \cap real = {} THEN "accepted" ELSE "refused"

DecideWithoutConf ==
  /\ list = "ok" /\ walk = "idle" /\ outcome = "none" /\ ~Readable(Root)
  /\ Decide(Inner)
  /\ UNCHANGED <<listVars, walkVars, edits>>

Walk ==
  /\ list = "ok" /\ (walk = "idle" => outcome = "none" /\ Readable(Root))
  /\ WalkNext
  /\ UNCHANGED <<listVars, outcome, edits>>

\* fail_on_overlap.
DecideWithConf ==
  /\ walk = "done" /\ outcome = "none"
  /\ Decide(FoundPorts \cup Inner)
  /\ UNCHANGED <<listVars, walkVars, edits>>

Refuse ==
  /\ outcome = "none" /\ (list = "error" \/ walk = "error")
  /\ outcome' = "refused"
  /\ UNCHANGED <<listVars, walkVars, edits>>

\* Somebody changes one file.
Edit ==
  \E tree \in Trees, f \in Files :
    /\ edits < MaxEdits /\ edits' = edits + 1
    /\ tree # text /\ \A g \in Files \ {f} : tree[g] = text[g]
    /\ text' = tree
    /\ UNCHANGED <<listVars, walk, todo, visited, read, outcome>>

Command == MakeList \/ DecideWithoutConf \/ Walk \/ DecideWithConf \/ Refuse

Next == Command \/ Edit

Spec == Init /\ [][Next]_vars

\* The command runs.
LiveSpec == Spec /\ WF_vars(Command)

-------------------------------------------------------------------------------
(* Properties.                                                             *)

\* No port is accepted that nginx listens on, in whatever file, included through
\* whatever pattern, link or cycle, nor one of the inner ports (ctl.rs apply_add,
\* nginx_listen.rs real_listen_ports_from_conf), if nobody edits meanwhile.
AcceptedIsFree ==
  outcome = "accepted" /\ edits = 0 => Elements(out) \cap (NginxListensOn \cup Inner) = {}

\* Every command comes to a decision: no loop over ports runs past the last one and no
\* walk goes round in a cycle (ports.rs, nginx_listen.rs walk_includes).
Decided == <>(outcome # "none")
===============================================================================
