-------------------------------- MODULE Dataplane --------------------------------
(***************************************************************************)
(* The pinned dataplane: two sk_lookup links, the maps their programs use, *)
(* the bpffs pins, and the processes that make, reuse and remove them: the *)
(* start of a loader (main.rs, load.rs, pin.rs), unpin and detach-primary. *)
(*                                                                         *)
(* A loader goes through                                                   *)
(*                                                                         *)
(*   lock -> load -> backup -> primary -> pin -> pin2 -> http -> tls       *)
(*        -> reconcile -> serving                                          *)
(*                                                                         *)
(* one step per effect another process, or the end of this one, can come   *)
(* after.  A map exists as long as a pin, an attached program or a loader  *)
(* refers to it: an instance number nobody uses can be given out again.    *)
(*                                                                         *)
(* Which ports.conf is read and written when is ControlPlane's subject:    *)
(* here `file' is the desired state and a request changes it and the       *)
(* pinned map in one step.  The frontend listens all the time.             *)
(***************************************************************************)
EXTENDS FiniteSets, Naturals

CONSTANTS
  Ports,          \* virtual ports
  Inst,           \* numbers for map instances
  None,
  Loaders,        \* processes that may be a loader
  Unit,           \* the one systemd starts
  RuntimeDirKept, \* does /run/waf-sklookup survive a stop of the unit?
  UnpinAlone,     \* teardown commands are not run beside a starting loader
  MaxKills        \* bound on processes killed or stopped

ASSUME DataplaneAssumption ==
  /\ None \notin Inst /\ Unit \in Loaders
  /\ RuntimeDirKept \in BOOLEAN /\ UnpinAlone \in BOOLEAN /\ MaxKills \in Nat

VARIABLES
  file,      \* the desired slot of every port
  ports,     \* contents of every instance of open_ports
  slots,     \* the slots of every instance of redir_socket that hold a listen
  pinOpen, pinRedir,  \* the instances pinned as open_ports and redir_socket
  links,     \* the links sk_lookup and sk_lookup_backup
  pc,        \* where every loader is
  own,       \* the instances the object of a loader uses
  locked,    \* the loaders whose lock file is the one at the path
  tear,      \* the teardown command that is running
  kills      \* processes killed so far

maps  == <<ports, slots>>
pins  == <<pinOpen, pinRedir>>
procs == <<pc, own, locked>>
vars  == <<file, ports, slots, pinOpen, pinRedir, links, pc, own, locked, tear, kills>>

Slots   == {"primary", "tls"}
Closed  == "closed"
Desired == [Ports -> Slots \cup {Closed}]
Nothing == [p \in Ports |-> Closed]

\* The program of a link: the maps it was loaded with; `on' while it is attached.
Link == [pin : BOOLEAN, on : BOOLEAN, open : Inst \cup {None}, redir : Inst \cup {None}]
Gone == [pin |-> FALSE, on |-> FALSE, open |-> None, redir |-> None]
Dead == [Gone EXCEPT !.pin = TRUE]
Attached(maps2) == [pin |-> TRUE, on |-> TRUE, open |-> maps2.open, redir |-> maps2.redir]

Links    == {"primary", "backup"}
Starting == {"load", "backup", "primary", "pin", "pin2", "http", "tls", "reconcile"}
Alive(l) == pc[l] # "down"
Maps     == [open : Inst \cup {None}, redir : Inst \cup {None}]
NoMaps   == [open |-> None, redir |-> None]

Tear   == [op : {"none", "detach", "unpin"}, link : Links,
           at : {"idle", "detach", "unpin", "remove", "open", "redir"}]
NoTear == [op |-> "none", link |-> "primary", at |-> "idle"]

TypeOK ==
  /\ file \in Desired
  /\ ports \in [Inst -> Desired] /\ slots \in [Inst -> SUBSET Slots]
  /\ pinOpen \in Inst \cup {None} /\ pinRedir \in Inst \cup {None}
  /\ links \in [Links -> Link]
  /\ \A k \in Links : links[k].on => links[k].pin /\ None \notin {links[k].open, links[k].redir}
  /\ pc \in [Loaders -> Starting \cup {"down", "serving"}]
  /\ own \in [Loaders -> Maps] /\ locked \subseteq Loaders
  /\ tear \in Tear /\ kills \in 0..MaxKills

Init ==
  /\ file \in Desired
  /\ ports = [i \in Inst |-> Nothing] /\ slots = [i \in Inst |-> {}]
  /\ pinOpen = None /\ pinRedir = None
  /\ links = [k \in Links |-> Gone]
  /\ pc = [l \in Loaders |-> "down"] /\ own = [l \in Loaders |-> NoMaps]
  /\ locked = {} /\ tear = NoTear /\ kills = 0

-------------------------------------------------------------------------------
(* What happens to a new connection.                                       *)

\* The program of a link picks the listen in the slot of the port ...
Selects(k, p) ==
  /\ links[k].on
  /\ ports[links[k].open][p] \in slots[links[k].redir]

\* ... or drops the packet because the slot is empty.
Drops(k, p) ==
  /\ links[k].on
  /\ ports[links[k].open][p] # Closed
  /\ ports[links[k].open][p] \notin slots[links[k].redir]

\* The kernel runs the programs of both links.  The first socket that is selected is
\* kept, whatever the other program returns; without one a single drop decides.
Verdict(p) ==
  IF \E k \in Links : Selects(k, p) THEN "steer"
  ELSE IF \E k \in Links : Drops(k, p) THEN "drop"
  ELSE "pass"

-------------------------------------------------------------------------------
(* The start of a loader.                                                  *)

Goes(l, place) == pc' = [pc EXCEPT ![l] = place]

\* Mutant: a lock file that counts as locked while it exists.
MutEnded(l) ==
  /\ pc'  = [pc EXCEPT ![l] = "down"]
  /\ own' = [own EXCEPT ![l] = NoMaps]
  /\ locked' = IF l = Unit /\ ~RuntimeDirKept THEN {} ELSE locked

\* The process ends: its maps are released and so is its flock.  systemd removes the
\* RuntimeDirectory of a unit that stops, also when it is going to restart it, and
\* with it the lock file, whoever holds a lock on it.
Ended(l) ==
  /\ pc'  = [pc EXCEPT ![l] = "down"]
  /\ own' = [own EXCEPT ![l] = NoMaps]
  /\ locked' = IF l = Unit /\ ~RuntimeDirKept THEN {} ELSE locked \ {l}

\* Mutant: the lock file is opened but never locked.
MutStartUnlocked(l) ==
  /\ pc[l] = "down" /\ (UnpinAlone => tear = NoTear)
  /\ Goes(l, "load") /\ locked' = locked \cup {l} /\ UNCHANGED own
  /\ UNCHANGED <<file, maps, pins, links, tear, kills>>

\* acquire_loader_lock: the file at the path, made if it is missing, locked without
\* waiting; another loader that holds it ends this one.
Start(l) ==
  /\ pc[l] = "down" /\ (UnpinAlone => tear = NoTear)
  /\ IF locked = {}
     THEN Goes(l, "load") /\ locked' = {l} /\ UNCHANGED own
     ELSE Ended(l)
  /\ UNCHANGED <<file, maps, pins, links, tear, kills>>

Used ==
  {pinOpen, pinRedir}
    \cup UNION {{links[k].open, links[k].redir} : k \in Links}
    \cup UNION {{own[l].open, own[l].redir} : l \in Loaders}

\* Mutant: a map that is not pinned is not made.
MutLoadNoNewMap(l) ==
  \E new \in Inst \ Used :
    /\ pc[l] = "load"
    /\ \A i \in Inst \ Used : new <= i
    /\ own' = [own EXCEPT ![l] = [open |-> pinOpen, redir |-> pinRedir]]
    /\ ports' = [ports EXCEPT ![new] = Nothing]
    /\ slots' = [slots EXCEPT ![new] = {}]
    /\ Goes(l, "backup")
    /\ UNCHANGED <<file, pins, links, locked, tear, kills>>

\* load_c, load_rust: a pinned map is reused, a missing one is made anew and empty.
Load(l) ==
  \E new \in Inst \ Used :
    /\ pc[l] = "load"
    /\ \A i \in Inst \ Used : new <= i
    /\ own' = [own EXCEPT ![l] =
                 [open  |-> IF pinOpen  # None THEN pinOpen  ELSE new,
                  redir |-> IF pinRedir # None THEN pinRedir ELSE new]]
    /\ ports' = [ports EXCEPT ![new] = Nothing]
    /\ slots' = [slots EXCEPT ![new] = {}]
    /\ Goes(l, "backup")
    /\ UNCHANGED <<file, pins, links, locked, tear, kills>>

\* A backup link that is pinned is left as it is, attached or not.
EnsureBackup(l) ==
  /\ pc[l] = "backup"
  /\ links' = IF links["backup"].pin THEN links
              ELSE [links EXCEPT !["backup"] = Attached(own[l])]
  /\ Goes(l, "primary")
  /\ UNCHANGED <<file, maps, pins, own, locked, tear, kills>>

\* A pinned primary link gets the new program in one step; if it was detached the
\* update fails and the loader ends.
AttachOrUpgrade(l) ==
  /\ pc[l] = "primary"
  /\ IF links["primary"] = Dead THEN Ended(l) /\ UNCHANGED links
     ELSE /\ links' = [links EXCEPT !["primary"] = Attached(own[l])]
          /\ Goes(l, "pin") /\ UNCHANGED <<own, locked>>
  /\ UNCHANGED <<file, maps, pins, tear, kills>>

\* ensure_maps_pinned: each map that is not pinned yet, open_ports first.
PinOpenPorts(l) ==
  /\ pc[l] = "pin"
  /\ pinOpen' = IF pinOpen = None THEN own[l].open ELSE pinOpen
  /\ Goes(l, "pin2")
  /\ UNCHANGED <<file, maps, pinRedir, links, own, locked, tear, kills>>

PinRedirSocket(l) ==
  /\ pc[l] = "pin2"
  /\ pinRedir' = IF pinRedir = None THEN own[l].redir ELSE pinRedir
  /\ Goes(l, "http")
  /\ UNCHANGED <<file, maps, pinOpen, links, own, locked, tear, kills>>

Of(slot) == {p \in Ports : file[p] = slot}

\* open_steered_ports after register_listen_fd, for one of the two listens.
Register(l, slot) ==
  /\ slots' = [slots EXCEPT ![own[l].redir] = @ \cup {slot}]
  /\ ports' = [ports EXCEPT ![own[l].open] =
                 [p \in Ports |-> IF p \in Of(slot) THEN slot ELSE @[p]]]

RegisterHttp(l) ==
  /\ pc[l] = "http" /\ Register(l, "primary") /\ Goes(l, "tls")
  /\ UNCHANGED <<file, pins, links, own, locked, tear, kills>>

\* The TLS listen is looked for only if the desired state has TLS ports.
RegisterTls(l) ==
  /\ pc[l] = "tls"
  /\ IF Of("tls") # {} THEN Register(l, "tls") ELSE UNCHANGED maps
  /\ Goes(l, "reconcile")
  /\ UNCHANGED <<file, pins, links, own, locked, tear, kills>>

ReconcileAndServe(l) ==
  /\ pc[l] = "reconcile"
  /\ ports' = [ports EXCEPT ![own[l].open] = file]
  /\ Goes(l, "serving")
  /\ UNCHANGED <<file, slots, pins, links, own, locked, tear, kills>>

\* A request of the control socket, which goes through the pin.
Change(l, p, slot) ==
  /\ pc[l] = "serving" /\ pinOpen # None
  /\ file' = [file EXCEPT ![p] = slot]
  /\ ports' = [ports EXCEPT ![pinOpen][p] = slot]
  /\ UNCHANGED <<slots, pins, links, procs, tear, kills>>

\* SIGHUP: the loader's own descriptor, not the pin.
Reload(l) ==
  /\ pc[l] = "serving"
  /\ ports' = [ports EXCEPT ![own[l].open] = file]
  /\ UNCHANGED <<file, slots, pins, links, procs, tear, kills>>

\* Killed, stopped, an error while it starts, or no listen within -wait.
Exit(l) ==
  /\ Alive(l) /\ kills < MaxKills
  /\ kills' = kills + 1
  /\ Ended(l)
  /\ UNCHANGED <<file, maps, pins, links, tear>>

-------------------------------------------------------------------------------
(* Teardown.  Neither command takes the loader lock.                       *)

MayTear ==
  /\ tear = NoTear
  /\ UnpinAlone => \A l \in Loaders : pc[l] \notin Starting

BeginUnpin ==
  /\ MayTear
  /\ tear' = [op |-> "unpin", link |-> "primary", at |-> "detach"]
  /\ UNCHANGED <<file, maps, pins, links, procs, kills>>

BeginDetachPrimary ==
  /\ MayTear /\ links["primary"].pin
  /\ tear' = [op |-> "detach", link |-> "primary", at |-> "detach"]
  /\ UNCHANGED <<file, maps, pins, links, procs, kills>>

\* Mutant: unpin forgets the backup.
MutNextLinkPrimaryOnly ==
  IF tear.op = "detach" THEN NoTear ELSE [tear EXCEPT !.at = "open"]

\* Mutant: detach-primary goes on with the backup.
MutNextLinkBoth ==
  IF tear.link = "primary" THEN [tear EXCEPT !.link = "backup", !.at = "detach"]
  ELSE IF tear.op = "detach" THEN NoTear
  ELSE [tear EXCEPT !.at = "open"]

\* What comes after a link.
NextLink ==
  IF tear.op = "detach" THEN NoTear
  ELSE IF tear.link = "primary" THEN [tear EXCEPT !.link = "backup", !.at = "detach"]
  ELSE [tear EXCEPT !.at = "open"]

\* detach_pinned_link: detach, unpin, and remove once more what is at the path; the
\* last attached program of a link goes with its pin.
DetachLink ==
  /\ tear.at = "detach"
  /\ IF links[tear.link].pin
     THEN /\ links' = [links EXCEPT ![tear.link] = Dead]
          /\ tear'  = [tear EXCEPT !.at = "unpin"]
     ELSE tear' = NextLink /\ UNCHANGED links
  /\ UNCHANGED <<file, maps, pins, procs, kills>>

RemoveLink ==
  /\ tear.at \in {"unpin", "remove"}
  /\ links' = [links EXCEPT ![tear.link] = Gone]
  /\ tear'  = IF tear.at = "unpin" THEN [tear EXCEPT !.at = "remove"] ELSE NextLink
  /\ UNCHANGED <<file, maps, pins, procs, kills>>

\* Mutant: redir_socket before open_ports.
MutRemoveMapPinSwapped ==
  /\ \/ tear.at = "open"  /\ pinRedir' = None /\ UNCHANGED pinOpen
        /\ tear' = [tear EXCEPT !.at = "redir"]
     \/ tear.at = "redir" /\ pinOpen' = None /\ UNCHANGED pinRedir /\ tear' = NoTear
  /\ UNCHANGED <<file, maps, links, procs, kills>>

\* After the program pins, which are Upgrade's, the pins of the maps.
RemoveMapPin ==
  /\ \/ tear.at = "open"  /\ pinOpen' = None /\ UNCHANGED pinRedir
        /\ tear' = [tear EXCEPT !.at = "redir"]
     \/ tear.at = "redir" /\ pinRedir' = None /\ UNCHANGED pinOpen /\ tear' = NoTear
  /\ UNCHANGED <<file, maps, links, procs, kills>>

KillTear ==
  /\ tear # NoTear /\ kills < MaxKills
  /\ kills' = kills + 1 /\ tear' = NoTear
  /\ UNCHANGED <<file, maps, pins, links, procs>>

-------------------------------------------------------------------------------
Step(l) ==
  \/ Load(l) \/ EnsureBackup(l) \/ AttachOrUpgrade(l) \/ PinOpenPorts(l)
  \/ PinRedirSocket(l) \/ RegisterHttp(l) \/ RegisterTls(l) \/ ReconcileAndServe(l)

TearStep == DetachLink \/ RemoveLink \/ RemoveMapPin

Next ==
  \/ \E l \in Loaders :
       \/ Start(l) \/ Step(l) \/ Reload(l) \/ Exit(l)
       \/ \E p \in Ports, slot \in Slots \cup {Closed} : Change(l, p, slot)
  \/ BeginUnpin \/ BeginDetachPrimary \/ TearStep \/ KillTear

Spec == Init /\ [][Next]_vars

\* Processes run; systemd restarts its unit (Restart=on-failure).
LiveSpec ==
  /\ Spec
  /\ \A l \in Loaders : WF_vars(Step(l))
  /\ WF_vars(Start(Unit)) /\ WF_vars(TearStep)

-------------------------------------------------------------------------------
(* Properties.                                                             *)

\* The loader that serves uses the pinned maps: SIGHUP and the rescan, which use its
\* own descriptors, and the requests, which go through the pins, change the same maps
\* as long as anything is pinned (main.rs acquire_loader_lock, load.rs, pin.rs).
OwnerHoldsPins ==
  \A l \in Loaders :
    pc[l] = "serving" =>
      /\ pinOpen  \in {own[l].open, None}
      /\ pinRedir \in {own[l].redir, None}

\* While a loader serves and can be reached, a port that is not desired is not taken
\* from the stack by any program, also not by a backup attached by an earlier start
\* with other maps (load.rs ensure_backup_sk_lookup, pin.rs unpin_dataplane).
ClosedStaysClosed ==
  \A l \in Loaders, p \in Ports :
    pc[l] = "serving" /\ pinOpen # None /\ file[p] = Closed => Verdict(p) = "pass"

\* A port that is steered and stays desired is steered after the next step, whether a
\* loader is killed, starts again at any point of its start, or detach-primary runs:
\* only unpin, and detach-primary without a live backup, end it (load.rs, pin.rs).
SteeringSurvives ==
  [][\A p \in Ports :
       Verdict(p) = "steer" /\ file'[p] = file[p]
         => \/ Verdict(p)' = "steer"
            \/ tear.op = "unpin"
            \/ tear.op = "detach" /\ ~Selects("backup", p)]_vars

\* With the frontend listening and the primary link attached, a port of the primary
\* listen is never dropped for an empty slot, also not while a start waits for the
\* listens after a start or a teardown that was killed (pin.rs unpin_dataplane and
\* ensure_maps_pinned, openresty.rs run_openresty_mode: the order of their steps).
NeverDropsPrimary ==
  \A p \in Ports : links["primary"].on /\ file[p] = "primary" => Verdict(p) # "drop"

\* When nobody is killed any more a loader serves in the end, unless the primary pin
\* names a detached link (systemd unit, load.rs attach_or_upgrade_sk_lookup).
ServesAgain ==
  (kills = MaxKills)
    ~> ((\E l \in Loaders : pc[l] = "serving") \/ links["primary"] = Dead \/ tear # NoTear)
===============================================================================
