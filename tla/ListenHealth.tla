---------------------------- MODULE ListenHealth ----------------------------
(***************************************************************************)
(* Which listening socket the two slots of redir_socket hold.              *)
(*                                                                         *)
(* The frontend's processes listen on the internal targets.  The loader    *)
(* finds such a socket in /proc, duplicates it through a pidfd of the      *)
(* process it found it in, puts the duplicate into the SOCKMAP slot of the *)
(* target and keeps it open.  On a timer and on SIGUSR1 it looks whether   *)
(* that process still lives and still holds the socket, and when not takes *)
(* another one (openresty.rs, listen_fd.rs).  The root command             *)
(* rescan-listen does the same once, with nothing held before, and exits   *)
(* (ctl.rs).  The frontend and the kernel are external.                    *)
(***************************************************************************)
EXTENDS FiniteSets

CONSTANTS
  Workers,      \* processes of the frontend, named by their pids
  Commands,     \* processes of rescan-listen
  Loader,
  Sockets,      \* listening sockets, named by their inodes
  Target,       \* the slot whose target a socket is bound to
  TlsFallback,  \* whether -tls-ports and -tls-target are used
  ReusePort,    \* whether the frontend listens with SO_REUSEPORT
  None

Slots     == {"primary", "tls"}
Used      == IF TlsFallback THEN Slots ELSE {"primary"}
Scanners  == Commands \cup {Loader}
Processes == Workers \cup Scanners

ASSUME ListenAssumption ==
  /\ Workers \cap Scanners = {}
  /\ Loader \notin Commands
  /\ Target \in [Sockets -> Slots]
  /\ TlsFallback \in BOOLEAN /\ ReusePort \in BOOLEAN
  /\ None \notin Sockets

\* A duplicate, the pid it was found in, and whether the pidfd of that process is readable.
CapturedListen == [sock : Sockets, owner : Processes, gone : BOOLEAN]
ASSUME NoneIsNoCapture == None \notin CapturedListen

VARIABLES
  fds,    \* the listening sockets each frontend process has open
  slot,   \* redir_socket
  held,   \* per scanner and slot, the duplicate it keeps
  scan,   \* per scanner, how far its rescan is
  up      \* life of the loader

vars == <<fds, slot, held, scan, up>>

\* at: the next step; slot: the one it is about; rows: inodes read from /proc/net/tcp that
\* are still to be tried; got: a duplicate that is not yet kept.
Idle == [at |-> "idle", slot |-> "primary", rows |-> {}, got |-> None]
Scan(at, sl, rows, got) == [at |-> at, slot |-> sl, rows |-> rows, got |-> got]

Scans == {Idle}
  \cup {Scan(at, sl, {}, None) : at \in {"check", "rows"}, sl \in Slots}
  \cup {Scan("open", sl, rows, None) : sl \in Slots, rows \in SUBSET Sockets}
  \cup {Scan(at, sl, {}, c) : at \in {"register", "keep"}, sl \in Slots, c \in CapturedListen}

\* Every variable has its type; a scan keeps a duplicate only between capture and keep, so
\* that rescan_slot leaks none; a command that has ended holds nothing.
TypeOK ==
  /\ fds \in [Workers -> SUBSET Sockets]
  /\ slot \in [Slots -> Sockets \cup {None}]
  /\ held \in [Scanners -> [Slots -> CapturedListen \cup {None}]]
  /\ scan \in [Scanners -> Scans]
  /\ up \in {"down", "starting", "serving"}
  /\ \A c \in Commands : scan[c] = Idle => \A sl \in Slots : held[c][sl] = None

NothingHeld == [sl \in Slots |-> None]

Init ==
  /\ fds = [w \in Workers |-> {}] /\ slot = NothingHeld
  /\ held = [p \in Scanners |-> NothingHeld]
  /\ scan = [p \in Scanners |-> Idle] /\ up = "down"

-----------------------------------------------------------------------------
(* The kernel                                                              *)

\* The duplicates of p.
Duplicates(p) == {c \in {held[p][sl] : sl \in Slots} \cup {scan[p].got} : c # None}

\* Process q has s among its descriptors.
Holds(q, s) == IF q \in Workers THEN s \in fds[q] ELSE \E c \in Duplicates(q) : c.sock = s

\* A socket listens, and has its row in /proc/net/tcp, while any process holds it.
Listening(s) == \E q \in Processes : Holds(q, s)
ListeningSockets == {s \in Sockets : Listening(s)}

\* The sockets whose last descriptor is closed leave the slots.
SlotsAfter(contents) ==
  slot' = [sl \in Slots |-> IF contents[sl] \in ListeningSockets' THEN contents[sl] ELSE None]

\* The pidfds of q become readable.
Ended(c, q) == IF c # None /\ c.owner = q 
               THEN [sock |-> c.sock, owner |-> q, gone |-> TRUE] ELSE c
HeldAfterEnd(q) == [p \in Scanners |-> IF p = q THEN NothingHeld
                                        ELSE [sl \in Slots |-> Ended(held[p][sl], q)]]
ScanAfterEnd(q) == [p \in Scanners |-> IF p = q THEN Idle
                                        ELSE Scan(scan[p].at, scan[p].slot, scan[p].rows,
                                                  Ended(scan[p].got, q))]

\* bind and listen: without SO_REUSEPORT the address must not be listened on by anybody,
\* the loader's duplicates included.
Listen(w, s) ==
  /\ ~Listening(s)
  /\ ReusePort \/ \A t \in Sockets : Target[t] = Target[s] => ~Listening(t)
  /\ fds' = [fds EXCEPT ![w] = @ \cup {s}]
  /\ UNCHANGED <<slot, held, scan, up>>

\* A new process inherits the sockets of the one it comes from.
Fork(v, w) ==
  /\ fds[w] = {} /\ fds[v] # {}
  /\ fds' = [fds EXCEPT ![w] = fds[v]]
  /\ UNCHANGED <<slot, held, scan, up>>

CloseListen(w, s) ==
  /\ s \in fds[w]
  /\ fds' = [fds EXCEPT ![w] = @ \ {s}]
  /\ UNCHANGED <<held, scan, up>>
  /\ SlotsAfter(slot)

Exit(w) ==
  /\ fds[w] # {}
  /\ fds' = [fds EXCEPT ![w] = {}]
  /\ held' = HeldAfterEnd(w) /\ scan' = ScanAfterEnd(w)
  /\ UNCHANGED up
  /\ SlotsAfter(slot)

-----------------------------------------------------------------------------
(* Beginning and end of a scan                                             *)

Goto(p, next) == scan' = [scan EXCEPT ![p] = next]

\* run_attached: the maps are pinned, the loader waits for the first listen.
StartLoader ==
  /\ up = "down"
  /\ up' = "starting" /\ Goto(Loader, Scan("check", "primary", {}, None))
  /\ UNCHANGED <<fds, slot, held>>

\* The timer or SIGUSR1.
Rescan ==
  /\ up = "serving" /\ scan[Loader] = Idle
  /\ Goto(Loader, Scan("check", "primary", {}, None))
  /\ UNCHANGED <<fds, slot, held, up>>

\* ctl_rescan_listen, on its pinned redir_socket.
RescanListen(c) ==
  /\ scan[c] = Idle
  /\ Goto(c, Scan("check", "primary", {}, None))
  /\ UNCHANGED <<fds, slot, held, up>>

\* Shutdown, the end of -wait, or death.
LoaderExits ==
  /\ up # "down"
  /\ up' = "down" /\ UNCHANGED fds
  /\ held' = HeldAfterEnd(Loader) /\ scan' = ScanAfterEnd(Loader)
  /\ SlotsAfter(slot)

CommandDies(c) ==
  /\ scan[c] # Idle
  /\ UNCHANGED <<fds, up>>
  /\ held' = HeldAfterEnd(c) /\ scan' = ScanAfterEnd(c)
  /\ SlotsAfter(slot)

\* p is through with its slot and keeps the duplicates in mine: the TLS slot comes after
\* the primary one; then the loader serves and a command exits.
Through(p, mine) ==
  IF scan[p].slot = "primary" /\ TlsFallback
  THEN /\ held' = [held EXCEPT ![p] = mine]
       /\ Goto(p, Scan("check", "tls", {}, None)) /\ UNCHANGED up
  ELSE IF p = Loader
  THEN /\ held' = [held EXCEPT ![p] = mine]
       /\ Goto(p, Idle) /\ up' = "serving"
  ELSE held' = HeldAfterEnd(p) /\ scan' = ScanAfterEnd(p) /\ UNCHANGED up

-----------------------------------------------------------------------------
(* rescan_slot and wait_for_listen_socket                                  *)

\* Mutant: health is the pidfd alone.
MutOwnerStillOwnsListener(c) == ~c.gone

\* The process the socket was found in lives, and a process of its pid has the socket.
OwnerStillOwnsListener(c) == ~c.gone /\ Holds(c.owner, c.sock)

CheckHealth(p) ==
  LET old == held[p][scan[p].slot] IN
  /\ scan[p].at = "check"
  /\ IF old # None /\ OwnerStillOwnsListener(old)
       THEN Through(p, held[p])
       ELSE Goto(p, Scan("rows", scan[p].slot, {}, None)) /\ UNCHANGED <<held, up>>
  /\ UNCHANGED fds
  /\ SlotsAfter(slot)

\* The LISTEN rows of the target.
ReadRows(p) ==
  LET sl == scan[p].slot IN
  /\ scan[p].at = "rows"
  /\ Goto(p, Scan("open", sl, {s \in Sockets : Target[s] = sl /\ Listening(s)}, None))
  /\ UNCHANGED <<fds, slot, held, up>>

\* Mutant: the duplicate that is to be replaced is closed before the slot is.
MutCapture(p, s, q) ==
  LET sl == scan[p].slot IN
  /\ scan[p].at = "open" /\ s \in scan[p].rows
  /\ q # p /\ Holds(q, s)
  /\ held' = [held EXCEPT ![p][sl] = None]
  /\ Goto(p, Scan("register", sl, {}, [sock |-> s, owner |-> q, gone |-> FALSE]))
  /\ UNCHANGED <<fds, up>>
  /\ SlotsAfter(slot)

\* A row is tried: some other process has the socket open, and it is duplicated, unless the
\* scanner has it already from the same pid.
Capture(p, s, q) ==
  LET sl == scan[p].slot
      old == held[p][sl]
  IN
  /\ scan[p].at = "open" /\ s \in scan[p].rows
  /\ q # p /\ Holds(q, s)
  /\ IF old # None /\ old.sock = s /\ old.owner = q
       THEN Through(p, held[p])
       ELSE /\ Goto(p, Scan("register", sl, {}, [sock |-> s, owner |-> q, gone |-> FALSE]))
            /\ UNCHANGED <<held, up>>
  /\ UNCHANGED fds
  /\ SlotsAfter(slot)

\* Mutant: the scan ends at the first row that nobody else has open.
MutSkipRow(p, s) ==
  /\ scan[p].at = "open" /\ s \in scan[p].rows
  /\ \A q \in Processes \ {p} : ~Holds(q, s)
  /\ Goto(p, Scan("open", scan[p].slot, {}, None))
  /\ UNCHANGED <<fds, slot, held, up>>

\* No other process has the socket of a row open; the next row is tried.
SkipRow(p, s) ==
  /\ scan[p].at = "open" /\ s \in scan[p].rows
  /\ \A q \in Processes \ {p} : ~Holds(q, s)
  /\ Goto(p, Scan("open", scan[p].slot, scan[p].rows \ {s}, None))
  /\ UNCHANGED <<fds, slot, held, up>>

\* No row is left: the start tries again after a pause; the loop leaves this rescan, the TLS
\* slot included, to the next one; a command ends in error.
NotFound(p) ==
  /\ scan[p].at = "open" /\ scan[p].rows = {}
  /\ IF p \in Commands
       THEN held' = HeldAfterEnd(p) /\ scan' = ScanAfterEnd(p)
       ELSE /\ Goto(p, IF up = "starting" THEN Scan("rows", scan[p].slot, {}, None) ELSE Idle)
            /\ UNCHANGED held
  /\ UNCHANGED <<fds, up>>
  /\ SlotsAfter(slot)

\* register_listen_fd.
Register(p) ==
  /\ scan[p].at = "register"
  /\ Goto(p, Scan("keep", scan[p].slot, {}, scan[p].got))
  /\ UNCHANGED <<fds, held, up>>
  /\ SlotsAfter([slot EXCEPT ![scan[p].slot] = scan[p].got.sock])

\* Mutant: the duplicate is kept a second time in the scan.
MutKeep(p) ==
  /\ scan[p].at = "keep"
  /\ held' = [held EXCEPT ![p][scan[p].slot] = scan[p].got]
  /\ Goto(p, Scan("check", scan[p].slot, {}, scan[p].got))
  /\ UNCHANGED <<fds, up>>
  /\ SlotsAfter(slot)

\* The new duplicate takes the place of the old one, which is closed.
Keep(p) ==
  /\ scan[p].at = "keep"
  /\ Through(p, [held[p] EXCEPT ![scan[p].slot] = scan[p].got])
  /\ UNCHANGED fds
  /\ SlotsAfter(slot)

-----------------------------------------------------------------------------
ScanStep(p) ==
  \/ CheckHealth(p)
  \/ ReadRows(p)
  \/ \E s \in Sockets : SkipRow(p, s) \/ \E q \in Processes : Capture(p, s, q)
  \/ NotFound(p)
  \/ Register(p)
  \/ Keep(p)

LoaderStep == Rescan \/ ScanStep(Loader)

Next ==
  \/ StartLoader
  \/ LoaderStep
  \/ LoaderExits
  \/ \E c \in Commands : RescanListen(c) \/ ScanStep(c) \/ CommandDies(c)
  \/ \E w \in Workers : Exit(w)
  \/ \E w \in Workers, s \in Sockets : Listen(w, s) \/ CloseListen(w, s)
  \/ \E v, w \in Workers : Fork(v, w)

Spec == Init /\ [][Next]_vars

\* The frontend's listener of sl is gone and comes back.
Listener(sl) == \E w \in Workers : \E s \in fds[w] : Target[s] = sl
Relisten(sl) == ~Listener(sl) /\ \E w \in Workers, s \in Sockets :
                                   Target[s] = sl /\ Listen(w, s)

\* The kernel schedules the loader's main thread, whose timer ends every pause; a frontend
\* that does not listen is started again, by its master, by systemd (Restart=on-failure) or
\* by recover.sh.  The start of the loader is nobody's duty here.
LiveSpec ==
  /\ Spec
  /\ WF_vars(LoaderStep)
  /\ \A sl \in Used : WF_vars(Relisten(sl))

-----------------------------------------------------------------------------
\* While the loader serves, no slot it is responsible for is empty, whatever the frontend
\* does: there is always a duplicate in it, also in the middle of a replacement
\* (openresty.rs:47, 66: register first, then drop the old one).
SlotsFilled == up = "serving" => \A sl \in Used : slot[sl] # None

\* The socket of sl is one that a frontend process can accept on.
Served(sl) == slot[sl] # None /\ \E w \in Workers : slot[sl] \in fds[w]

\* From some moment on the frontend closes nothing any more and the loader serves.
Settled == <>[][\A w \in Workers : fds[w] \subseteq fds'[w]]_fds /\ <>[](up = "serving")

\* Once things have settled, the slots come to hold, and keep, sockets that a frontend process
\* can accept on (docs/recovery.md:87: pidfd health and the periodic rescan re-insert live
\* listens).
Recovers == Settled => <>[](\A sl \in Used : Served(sl))

\* Once things have settled and nobody runs rescan-listen any more, a slot that is not empty
\* holds a socket that a frontend process can accept on, whatever the commands did and wherever
\* they were killed: no duplicate of a socket that was given up, not even one that a command
\* took from the loader, stays in a slot and swallows connections (openresty.rs:4, ctl.rs:125).
NoStaleSlot ==
  (Settled /\ <>[](\A c \in Commands : scan[c] = Idle))
    => <>[](\A sl \in Used : slot[sl] # None => Served(sl))
=============================================================================
