------------------------- MODULE ListenHealth_proofs -------------------------
(***************************************************************************)
(* Machine-checked proofs about ListenHealth, for any number of frontend   *)
(* processes, commands and sockets.                                        *)
(***************************************************************************)
EXTENDS ListenHealth, TLAPS

(***************************************************************************)
(* The shapes of a scan.                                                   *)
(***************************************************************************)

\* A scan is what its fields say it is, and its place says what it carries.
LEMMA ScanShape ==
  ASSUME NEW r \in Scans
  PROVE  /\ r = Scan(r.at, r.slot, r.rows, r.got)
         /\ r.at \in {"idle", "check", "rows", "open", "register", "keep"}
         /\ r.slot \in Slots /\ r.rows \subseteq Sockets
         /\ r.got \in CapturedListen \cup {None}
         /\ r.at = "idle" => r = Idle
         /\ r.at \in {"check", "rows"} => r.rows = {}
         /\ r.at \in {"idle", "check", "rows", "open"} => r.got = None
         /\ r.at \in {"register", "keep"} => r.rows = {} /\ r.got \in CapturedListen
  BY DEF Scans, Scan, Idle, Slots

\* The places a scan can be built for.
LEMMA ScanTyped ==
  ASSUME NEW sl \in Slots
  PROVE  /\ Idle \in Scans
         /\ \A at \in {"check", "rows"} : Scan(at, sl, {}, None) \in Scans
         /\ \A rows \in SUBSET Sockets : Scan("open", sl, rows, None) \in Scans
         /\ \A at \in {"register", "keep"}, c \in CapturedListen : Scan(at, sl, {}, c) \in Scans
  BY DEF Scans

\* The end of a process changes nothing of a duplicate but its pidfd (listen_fd.rs
\* pidfd_exited).
LEMMA EndedSame ==
  ASSUME NEW c \in CapturedListen \cup {None}, NEW q
  PROVE  /\ Ended(c, q) \in CapturedListen \cup {None}
         /\ c = None <=> Ended(c, q) = None
         /\ c # None => c \in CapturedListen /\ Ended(c, q) \in CapturedListen
                        /\ Ended(c, q).sock = c.sock
<1>1. c = None => Ended(c, q) = None
  BY DEF Ended
<1>2. c \in CapturedListen => Ended(c, q) \in CapturedListen /\ Ended(c, q).sock = c.sock
  BY DEF Ended, CapturedListen
<1> QED BY <1>1, <1>2, NoneIsNoCapture

LEMMA NothingHeldTyped == NothingHeld \in [Slots -> CapturedListen \cup {None}]
  BY DEF NothingHeld

LEMMA SlotsAfterTyped ==
  ASSUME NEW contents, SlotsAfter(contents)
  PROVE  slot' \in [Slots -> Sockets \cup {None}]
  BY DEF SlotsAfter, ListeningSockets

(***************************************************************************)
(* Type correctness.                                                       *)
(***************************************************************************)

\* The part of TypeOK about scans and what they hold.
ScansTyped ==
  /\ held \in [Scanners -> [Slots -> CapturedListen \cup {None}]]
  /\ scan \in [Scanners -> Scans]
  /\ \A c \in Commands : scan[c] = Idle => \A sl \in Slots : held[c][sl] = None

\* The end of a process (of the frontend, or of a scanner) keeps it.
LEMMA EndTyped ==
  ASSUME TypeOK, NEW q, held' = HeldAfterEnd(q), scan' = ScanAfterEnd(q)
  PROVE  ScansTyped'
<1>1. \A p \in Scanners : held'[p] \in [Slots -> CapturedListen \cup {None}]
  BY EndedSame, NothingHeldTyped DEF TypeOK, HeldAfterEnd
<1>2. ASSUME NEW p \in Scanners, p # q
      PROVE  scan'[p] \in Scans /\ (scan'[p] = Idle => scan[p] = Idle)
  <2>1. scan[p] \in Scans /\ scan'[p] = Scan(scan[p].at, scan[p].slot, scan[p].rows, Ended(scan[p].got, q))
    BY <1>2 DEF TypeOK, ScanAfterEnd
  <2> DEFINE r == scan[p]
             e == Ended(r.got, q)
  <2>2. scan'[p] = Scan(r.at, r.slot, r.rows, e)
    BY <2>1
  <2>3. /\ r.got = None => e = None
        /\ r.got \in CapturedListen => e \in CapturedListen
    <3>1. r.got \in CapturedListen \cup {None}
      BY <2>1, ScanShape
    <3> HIDE DEF r
    <3> QED BY <3>1, EndedSame, NoneIsNoCapture
  <2>4. CASE r.at \in {"register", "keep"}
    <3>0. r.rows = {} /\ r.got \in CapturedListen /\ r.slot \in Slots
      BY <2>1, <2>4, ScanShape
    <3>1. scan'[p] \in Scans
      <4>1. scan'[p] = Scan(r.at, r.slot, {}, e) /\ e \in CapturedListen
        BY <2>2, <2>3, <3>0
      <4> HIDE DEF r, e
      <4> QED BY <4>1, <3>0, <2>4, ScanTyped
    <3>2. scan'[p] # Idle
      BY <2>2, <2>4 DEF Scan, Idle
    <3> QED BY <3>1, <3>2
  <2>5. CASE r.at \in {"idle", "check", "rows", "open"}
    <3>1. scan'[p] = r
      BY <2>1, <2>2, <2>3, <2>5, ScanShape
    <3> QED BY <3>1, <2>1
  <2> QED BY <2>1, <2>4, <2>5, ScanShape
<1>3. ASSUME NEW p \in Scanners, p = q
      PROVE  scan'[p] = Idle /\ held'[p] = NothingHeld
  BY <1>3 DEF ScanAfterEnd, HeldAfterEnd
<1>4. scan' \in [Scanners -> Scans]
  <2>1. Idle \in Scans
    BY ScanTyped DEF Scans
  <2> QED BY <1>2, <1>3, <2>1 DEF ScanAfterEnd
<1>5. ASSUME NEW c \in Commands, scan'[c] = Idle, NEW sl \in Slots
      PROVE  held'[c][sl] = None
  <2>1. c \in Scanners
    BY DEF Scanners
  <2>2. CASE c = q
    BY <1>3, <2>1, <2>2 DEF NothingHeld
  <2>3. CASE c # q
    <3>1. held[c][sl] = None
      BY <1>2, <1>5, <2>1, <2>3 DEF TypeOK
    <3> QED BY <3>1, <2>1, <2>3 DEF HeldAfterEnd, Ended
  <2> QED BY <2>2, <2>3
<1> QED BY <1>1, <1>4, <1>5 DEF ScansTyped, HeldAfterEnd

\* A step that moves p's scan on to a place other than idle, or a loader's to idle.
LEMMA GotoTyped ==
  ASSUME TypeOK, NEW p \in Scanners, NEW next \in Scans, Goto(p, next),
         p = Loader \/ next # Idle,
         held' = held \/ \E mine \in [Slots -> CapturedListen \cup {None}] :
                            held' = [held EXCEPT ![p] = mine]
  PROVE  ScansTyped'
<1>1. held' \in [Scanners -> [Slots -> CapturedListen \cup {None}]]
  BY DEF TypeOK
<1>2. scan' = [scan EXCEPT ![p] = next] /\ scan' \in [Scanners -> Scans]
  BY DEF Goto, TypeOK
<1>3. ASSUME NEW c \in Commands, scan'[c] = Idle
      PROVE  \A sl \in Slots : held'[c][sl] = None
  <2>1. c \in Scanners /\ c # Loader
    BY ListenAssumption DEF Scanners
  <2>2. c # p
    BY <1>2, <1>3, <2>1 DEF TypeOK
  <2>3. scan[c] = Idle /\ held'[c] = held[c]
    BY <1>2, <1>3, <2>1, <2>2 DEF TypeOK
  <2> QED BY <2>3 DEF TypeOK
<1> QED BY <1>1, <1>2, <1>3 DEF ScansTyped

LEMMA ThroughTyped ==
  ASSUME TypeOK, NEW p \in Scanners,
         NEW mine \in [Slots -> CapturedListen \cup {None}], Through(p, mine)
  PROVE  ScansTyped' /\ up' \in {"down", "starting", "serving"}
<1> DEFINE tls == Scan("check", "tls", {}, None)
<1>1. tls \in Scans /\ tls # Idle /\ Idle \in Scans
  BY ScanTyped DEF Slots, Scan, Idle
<1>2. CASE scan[p].slot = "primary" /\ TlsFallback
  <2>1. held' = [held EXCEPT ![p] = mine] /\ Goto(p, tls) /\ up' = up
    BY <1>2 DEF Through
  <2> QED BY <1>1, <2>1, GotoTyped DEF TypeOK
<1>3. CASE ~(scan[p].slot = "primary" /\ TlsFallback) /\ p = Loader
  <2>1. held' = [held EXCEPT ![p] = mine] /\ Goto(p, Idle) /\ up' = "serving"
    BY <1>3 DEF Through
  <2> QED BY <1>1, <1>3, <2>1, GotoTyped
<1>4. CASE ~(scan[p].slot = "primary" /\ TlsFallback) /\ p # Loader
  <2>1. held' = HeldAfterEnd(p) /\ scan' = ScanAfterEnd(p) /\ up' = up
    BY <1>4 DEF Through
  <2> QED BY <2>1, EndTyped DEF TypeOK
<1> QED BY <1>2, <1>3, <1>4

\* One step of one scan.
LEMMA ScanStepTyped ==
  ASSUME TypeOK, NEW p \in Scanners, ScanStep(p)
  PROVE  TypeOK'
<1> DEFINE sl == scan[p].slot
<1>1. /\ sl \in Slots /\ scan[p] \in Scans
      /\ held[p] \in [Slots -> CapturedListen \cup {None}]
      /\ up \in {"down", "starting", "serving"}
  BY ScanShape DEF TypeOK
<1>2. fds' \in [Workers -> SUBSET Sockets]
  BY DEF ScanStep, CheckHealth, ReadRows, SkipRow, Capture, NotFound, Register, Keep, TypeOK
<1>3. slot' \in [Slots -> Sockets \cup {None}]
  <2>1. CASE UNCHANGED slot
    BY <2>1 DEF TypeOK
  <2>2. CASE \E contents : SlotsAfter(contents)
    BY <2>2, SlotsAfterTyped
  <2> QED BY <2>1, <2>2 DEF ScanStep, CheckHealth, ReadRows, SkipRow, Capture, NotFound,
                              Register, Keep
<1>4. ScansTyped' /\ up' \in {"down", "starting", "serving"}
  <2>1. CASE CheckHealth(p)
    <3>1. CASE Through(p, held[p])
      BY <3>1, <1>1, ThroughTyped
    <3>2. CASE Goto(p, Scan("rows", sl, {}, None)) /\ UNCHANGED <<held, up>>
      <4>1. Scan("rows", sl, {}, None) \in Scans /\ Scan("rows", sl, {}, None) # Idle
        BY <1>1, ScanTyped DEF Scan, Idle
      <4> QED BY <3>2, <4>1, <1>1, GotoTyped
    <3> QED BY <2>1, <3>1, <3>2 DEF CheckHealth
  <2>2. CASE ReadRows(p)
    <3> DEFINE rows == {s \in Sockets : Target[s] = sl /\ Listening(s)}
    <3>1. Scan("open", sl, rows, None) \in Scans /\ Scan("open", sl, rows, None) # Idle
      BY <1>1, ScanTyped DEF Scan, Idle
    <3>2. Goto(p, Scan("open", sl, rows, None)) /\ held' = held /\ up' = up
      BY <2>2 DEF ReadRows
    <3> QED BY <3>1, <3>2, <1>1, GotoTyped
  <2>3. ASSUME NEW s \in Sockets, SkipRow(p, s)
        PROVE  ScansTyped' /\ up' \in {"down", "starting", "serving"}
    <3> DEFINE next == Scan("open", sl, scan[p].rows \ {s}, None)
    <3>0. scan[p].rows \ {s} \in SUBSET Sockets
      BY <1>1, ScanShape
    <3>1. next \in Scans /\ next # Idle
      BY <1>1, <3>0, ScanTyped DEF Scan, Idle
    <3>2. Goto(p, next) /\ held' = held /\ up' = up
      BY <2>3 DEF SkipRow
    <3> QED BY <3>1, <3>2, <1>1, GotoTyped
  <2>4. ASSUME NEW s \in Sockets, NEW q \in Processes, Capture(p, s, q)
        PROVE  ScansTyped' /\ up' \in {"down", "starting", "serving"}
    <3> DEFINE got == [sock |-> s, owner |-> q, gone |-> FALSE]
    <3>1. got \in CapturedListen
      BY DEF CapturedListen
    <3>2. CASE Through(p, held[p])
      BY <3>2, <1>1, ThroughTyped
    <3>3. CASE Goto(p, Scan("register", sl, {}, got)) /\ UNCHANGED <<held, up>>
      <4>1. Scan("register", sl, {}, got) \in Scans /\ Scan("register", sl, {}, got) # Idle
        BY <1>1, <3>1, ScanTyped DEF Scan, Idle
      <4> QED BY <3>3, <4>1, <1>1, GotoTyped
    <3> QED BY <2>4, <3>2, <3>3 DEF Capture
  <2>5. CASE NotFound(p)
    <3>0. up' = up
      BY <2>5 DEF NotFound
    <3>1. CASE p \in Commands
      BY <2>5, <3>0, <3>1, <1>1, EndTyped DEF NotFound
    <3>2. CASE p \notin Commands
      <4> DEFINE next == IF up = "starting" THEN Scan("rows", sl, {}, None) ELSE Idle
      <4>1. next \in Scans
        BY <1>1, ScanTyped
      <4>2. p = Loader /\ Goto(p, next) /\ held' = held
        BY <2>5, <3>2 DEF NotFound, Scanners
      <4> QED BY <4>1, <4>2, <3>0, <1>1, GotoTyped
    <3> QED BY <3>1, <3>2
  <2>6. CASE Register(p)
    <3> DEFINE next == Scan("keep", sl, {}, scan[p].got)
    <3>1. scan[p].got \in CapturedListen
      BY <2>6, <1>1, ScanShape DEF Register
    <3>2. next \in Scans /\ next # Idle
      BY <1>1, <3>1, ScanTyped DEF Scan, Idle
    <3>3. Goto(p, next) /\ held' = held /\ up' = up
      BY <2>6 DEF Register
    <3> QED BY <3>2, <3>3, <1>1, GotoTyped
  <2>7. CASE Keep(p)
    <3>1. scan[p].got \in CapturedListen
      BY <2>7, <1>1, ScanShape DEF Keep
    <3>2. [held[p] EXCEPT ![sl] = scan[p].got] \in [Slots -> CapturedListen \cup {None}]
      BY <1>1, <3>1
    <3>3. Through(p, [held[p] EXCEPT ![sl] = scan[p].got])
      BY <2>7 DEF Keep
    <3> QED BY <3>2, <3>3, ThroughTyped
  <2> QED BY <2>1, <2>2, <2>3, <2>4, <2>5, <2>6, <2>7 DEF ScanStep
<1> QED BY <1>2, <1>3, <1>4 DEF TypeOK, ScansTyped

LEMMA StepTyped ==
  ASSUME TypeOK, [Next]_vars
  PROVE  TypeOK'
<1>0. Loader \in Scanners /\ Commands \subseteq Scanners
  BY DEF Scanners
<1> DEFINE begin == Scan("check", "primary", {}, None)
<1>1. begin \in Scans /\ begin # Idle
  BY ScanTyped DEF Slots, Scan, Idle
<1>2. CASE UNCHANGED vars
  BY <1>2 DEF vars, TypeOK
<1>3. CASE StartLoader
  <2>1. Goto(Loader, begin) /\ held' = held /\ up' = "starting" /\ UNCHANGED <<fds, slot>>
    BY <1>3 DEF StartLoader
  <2>2. ScansTyped'
    BY <2>1, <1>0, <1>1, GotoTyped
  <2> QED BY <2>1, <2>2 DEF TypeOK, ScansTyped
<1>4. CASE Rescan
  <2>1. Goto(Loader, begin) /\ UNCHANGED <<fds, slot, held, up>>
    BY <1>4 DEF Rescan
  <2>2. ScansTyped'
    BY <2>1, <1>0, <1>1, GotoTyped
  <2> QED BY <2>1, <2>2 DEF TypeOK, ScansTyped
<1>5. ASSUME NEW p \in Scanners, ScanStep(p)
      PROVE  TypeOK'
  BY <1>5, ScanStepTyped
<1>6. CASE LoaderExits
  <2>1. ScansTyped'
    BY <1>6, EndTyped DEF LoaderExits
  <2>2. slot' \in [Slots -> Sockets \cup {None}]
    BY <1>6, SlotsAfterTyped DEF LoaderExits
  <2> QED BY <1>6, <2>1, <2>2 DEF LoaderExits, TypeOK, ScansTyped
<1>7. ASSUME NEW c \in Commands, RescanListen(c)
      PROVE  TypeOK'
  <2>1. Goto(c, begin) /\ UNCHANGED <<fds, slot, held, up>>
    BY <1>7 DEF RescanListen
  <2>2. ScansTyped'
    BY <2>1, <1>0, <1>1, GotoTyped
  <2> QED BY <2>1, <2>2 DEF TypeOK, ScansTyped
<1>8. ASSUME NEW c \in Commands, CommandDies(c)
      PROVE  TypeOK'
  <2>1. ScansTyped'
    BY <1>8, EndTyped DEF CommandDies
  <2>2. slot' \in [Slots -> Sockets \cup {None}]
    BY <1>8, SlotsAfterTyped DEF CommandDies
  <2> QED BY <1>8, <2>1, <2>2 DEF CommandDies, TypeOK, ScansTyped
<1>9. ASSUME NEW w \in Workers, Exit(w)
      PROVE  TypeOK'
  <2>1. ScansTyped'
    BY <1>9, EndTyped DEF Exit
  <2>2. slot' \in [Slots -> Sockets \cup {None}]
    BY <1>9, SlotsAfterTyped DEF Exit
  <2> QED BY <1>9, <2>1, <2>2 DEF Exit, TypeOK, ScansTyped
<1>10. ASSUME NEW w \in Workers, NEW s \in Sockets, Listen(w, s) \/ CloseListen(w, s)
       PROVE  TypeOK'
  <2>1. slot' \in [Slots -> Sockets \cup {None}]
    BY <1>10, SlotsAfterTyped DEF Listen, CloseListen, TypeOK
  <2> QED BY <1>10, <2>1 DEF Listen, CloseListen, TypeOK
<1>11. ASSUME NEW v \in Workers, NEW w \in Workers, Fork(v, w)
       PROVE  TypeOK'
  BY <1>11 DEF Fork, TypeOK
<1> QED BY <1>0, <1>2, <1>3, <1>4, <1>5, <1>6, <1>7, <1>8, <1>9, <1>10, <1>11
        DEF Next, LoaderStep

LEMMA InitTyped == Init => TypeOK
<1>1. Idle \in Scans
  BY DEF Scans
<1>2. Commands \subseteq Scanners
  BY DEF Scanners
<1>3. ASSUME Init PROVE /\ fds \in [Workers -> SUBSET Sockets]
                       /\ slot \in [Slots -> Sockets \cup {None}]
                       /\ held \in [Scanners -> [Slots -> CapturedListen \cup {None}]]
                       /\ scan \in [Scanners -> Scans]
  BY <1>1, <1>3, NothingHeldTyped DEF Init, NothingHeld
<1> QED BY <1>2, <1>3 DEF Init, TypeOK, NothingHeld

\* Every state is well typed: in particular no scan leaks a duplicate, and a rescan-listen
\* that has ended holds nothing (openresty.rs rescan_slot, ctl.rs ctl_rescan_listen).
THEOREM ListensTyped == Spec => []TypeOK
<1>1. Init => TypeOK
  BY InitTyped
<1>2. TypeOK /\ [Next]_vars => TypeOK'
  BY StepTyped
<1> QED BY <1>1, <1>2, PTL DEF Spec

(***************************************************************************)
(* SlotsFilled, without commands.  It is not inductive: it needs to know   *)
(* that a slot is filled by what the loader keeps open, and from which     *)
(* moment on the loader keeps something for each slot.                     *)
(***************************************************************************)

Replacing(sl) == scan[Loader].at = "keep" /\ scan[Loader].slot = sl

\* A slot the loader keeps a duplicate for holds it; the slot being replaced holds the new one.
Filled ==
  /\ \A sl \in Slots : held[Loader][sl] # None /\ ~Replacing(sl)
                         => slot[sl] = held[Loader][sl].sock
  /\ \A sl \in Slots : Replacing(sl) => slot[sl] = scan[Loader].got.sock

\* How many slots the loader is through with.
Started ==
  /\ scan[Loader].slot \in Used
  /\ up = "down" => scan[Loader] = Idle
  /\ up = "starting" /\ scan[Loader].slot = "tls" => held[Loader]["primary"] # None
  /\ up = "serving" => \A sl \in Used : held[Loader][sl] # None

FilledInv == TypeOK /\ Filled /\ Started

LEMMA LoaderFacts ==
  /\ Loader \in Scanners /\ Loader \in Processes /\ Loader \notin Workers
  /\ \A q \in Workers : q # Loader
  BY ListenAssumption DEF Scanners, Processes

\* Whatever the loader still has open after a step listens (SlotsAfter leaves it in a slot).
LEMMA KeptListens ==
  ASSUME TypeOK', NEW sl \in Slots
  PROVE  /\ held'[Loader][sl] # None => held'[Loader][sl].sock \in ListeningSockets'
         /\ scan'[Loader].got # None => scan'[Loader].got.sock \in ListeningSockets'
<1>1. ASSUME NEW c \in CapturedListen,
             c = held'[Loader][sl] \/ c = scan'[Loader].got
      PROVE  c.sock \in ListeningSockets'
  <2>1. c # None /\ c.sock \in Sockets
    BY NoneIsNoCapture DEF CapturedListen
  <2>2. c \in Duplicates(Loader)'
    BY <1>1, <2>1 DEF Duplicates
  <2>3. Holds(Loader, c.sock)'
    BY <2>2, LoaderFacts DEF Holds
  <2> QED BY <2>1, <2>3, LoaderFacts DEF ListeningSockets, Listening
<1>2. held'[Loader][sl] \in CapturedListen \cup {None}
  BY LoaderFacts DEF TypeOK
<1>3. scan'[Loader].got \in CapturedListen \cup {None}
  <2>1. scan'[Loader] \in Scans
    BY LoaderFacts DEF TypeOK
  <2> QED BY <2>1, ScanShape
<1> QED BY <1>1, <1>2, <1>3

\* A step that leaves the loader's duplicates open leaves its slots filled: steps of the
\* frontend, and steps of a scan that is not at a replacement.
LEMMA LeftFilled ==
  ASSUME TypeOK', Filled, slot' = slot \/ SlotsAfter(slot),
         \A sl \in Slots : held'[Loader][sl] # None =>
            held[Loader][sl] # None /\ held'[Loader][sl].sock = held[Loader][sl].sock,
         \A sl \in Slots : Replacing(sl)' <=> Replacing(sl),
         \A sl \in Slots : Replacing(sl) =>
            scan'[Loader].got # None /\ scan'[Loader].got.sock = scan[Loader].got.sock
  PROVE  Filled'
<1>1. ASSUME NEW sl \in Slots, held'[Loader][sl] # None, ~Replacing(sl)'
      PROVE  slot'[sl] = held'[Loader][sl].sock
  <2>1. slot[sl] = held'[Loader][sl].sock
    BY <1>1 DEF Filled
  <2> QED BY <1>1, <2>1, KeptListens DEF SlotsAfter
<1>2. ASSUME NEW sl \in Slots, Replacing(sl)'
      PROVE  slot'[sl] = scan'[Loader].got.sock
  <2>1. slot[sl] = scan'[Loader].got.sock /\ scan'[Loader].got # None
    BY <1>2 DEF Filled
  <2> QED BY <2>1, KeptListens DEF SlotsAfter
<1> QED BY <1>1, <1>2 DEF Filled

LEMMA GotoPlace ==
  ASSUME TypeOK, NEW next, Goto(Loader, next)
  PROVE  scan'[Loader] = next
  BY LoaderFacts DEF TypeOK, Goto

\* The loader is through with a slot it keeps a duplicate for.
LEMMA ThroughStarted ==
  ASSUME FilledInv, NEW mine, Through(Loader, mine),
         scan[Loader] # Idle, mine[scan[Loader].slot] # None,
         \A sl \in Slots : sl # scan[Loader].slot => mine[sl] = held[Loader][sl]
  PROVE  Started' /\ held'[Loader] = mine /\ scan'[Loader].at # "keep"
<1>1. up \in {"starting", "serving"} /\ scan[Loader].slot \in Used
  BY DEF FilledInv, TypeOK, Started
<1>2. CASE scan[Loader].slot = "primary" /\ TlsFallback
  <2>1. held' = [held EXCEPT ![Loader] = mine] /\ up' = up
        /\ Goto(Loader, Scan("check", "tls", {}, None))
    BY <1>2 DEF Through
  <2>2. held'[Loader] = mine
    BY <2>1, LoaderFacts DEF FilledInv, TypeOK
  <2>3. scan'[Loader].at = "check" /\ scan'[Loader].slot = "tls"
    BY <2>1, GotoPlace DEF FilledInv, Scan
  <2>4. up = "serving" => \A sl \in Used : mine[sl] # None
    BY DEF FilledInv, Started, Used, Slots
  <2>5. scan'[Loader] # Idle
    BY <2>3 DEF Idle
  <2> QED BY <1>1, <1>2, <2>1, <2>2, <2>3, <2>4, <2>5 DEF Started, Used, Slots
<1>3. CASE ~(scan[Loader].slot = "primary" /\ TlsFallback)
  <2>1. held' = [held EXCEPT ![Loader] = mine] /\ up' = "serving" /\ Goto(Loader, Idle)
    BY <1>3 DEF Through
  <2>2. held'[Loader] = mine
    BY <2>1, LoaderFacts DEF FilledInv, TypeOK
  <2>3. scan'[Loader].at = "idle" /\ scan'[Loader].slot = "primary"
    BY <2>1, GotoPlace DEF FilledInv, Idle
  <2>4. \A sl \in Used : mine[sl] # None
    BY <1>1, <1>3 DEF FilledInv, Started, Used, Slots
  <2> QED BY <2>1, <2>2, <2>3, <2>4 DEF Started, Used, Slots
<1> QED BY <1>2, <1>3

\* A step of the loader's scan that is not at a replacement and leaves what it holds.
LEMMA ScanLeftFilled ==
  ASSUME TypeOK', Filled, slot' = slot \/ SlotsAfter(slot),
         held'[Loader] = held[Loader], scan[Loader].at # "keep", scan'[Loader].at # "keep"
  PROVE  Filled'
<1>1. ASSUME NEW sl \in Slots
      PROVE  ~Replacing(sl) /\ ~Replacing(sl)'
  BY DEF Replacing
<1>2. \A sl \in Slots : held'[Loader][sl] # None =>
         held[Loader][sl] # None /\ held'[Loader][sl].sock = held[Loader][sl].sock
  OBVIOUS
<1>3. \A sl \in Slots : Replacing(sl)' <=> Replacing(sl)
  BY <1>1
<1>4. \A sl \in Slots : Replacing(sl) =>
         scan'[Loader].got # None /\ scan'[Loader].got.sock = scan[Loader].got.sock
  BY <1>1
<1> QED BY <1>2, <1>3, <1>4, LeftFilled DEF Replacing

LEMMA LoaderScanFilled ==
  ASSUME FilledInv, ScanStep(Loader), TypeOK'
  PROVE  Filled' /\ Started'
<1> DEFINE sl == scan[Loader].slot
           mine == held[Loader]
<1>1. /\ sl \in Slots /\ sl \in Used /\ scan[Loader] \in Scans
      /\ mine \in [Slots -> CapturedListen \cup {None}]
  BY LoaderFacts, ScanShape DEF FilledInv, TypeOK, Started
<1>2. scan[Loader] # Idle /\ TypeOK /\ Filled
  <2>1. scan[Loader].at \in {"check", "rows", "open", "register", "keep"}
    BY DEF ScanStep, CheckHealth, ReadRows, SkipRow, Capture, NotFound, Register, Keep
  <2> QED BY <2>1 DEF FilledInv, Idle
\* Steps that go on with the same slot and close nothing.
<1>3. ASSUME NEW at, NEW rows, NEW got, Goto(Loader, Scan(at, sl, rows, got)),
             at \in {"check", "rows", "open", "register", "keep"}, UNCHANGED <<held, up>>
      PROVE  /\ Started' /\ held'[Loader] = mine
             /\ scan'[Loader].at = at /\ scan'[Loader].slot = sl /\ scan'[Loader].got = got
  <2>1. scan'[Loader] = Scan(at, sl, rows, got)
    BY <1>2, <1>3, GotoPlace
  <2>2. scan'[Loader] # Idle
    BY <1>3, <2>1 DEF Scan, Idle
  <2>3. scan'[Loader].at = at /\ scan'[Loader].slot = sl /\ scan'[Loader].got = got
    BY <2>1 DEF Scan
  <2> QED BY <1>1, <1>2, <1>3, <2>2, <2>3 DEF FilledInv, Started, Used
<1>4. CASE CheckHealth(Loader)
  <2>0. scan[Loader].at # "keep" /\ SlotsAfter(slot)
    BY <1>4 DEF CheckHealth
  <2>1. CASE mine[sl] # None /\ Through(Loader, mine)
    <3>1. Started' /\ held'[Loader] = mine /\ scan'[Loader].at # "keep"
      BY <1>2, <2>1, ThroughStarted
    <3> QED BY <1>2, <2>0, <3>1, ScanLeftFilled
  <2>2. CASE Goto(Loader, Scan("rows", sl, {}, None)) /\ UNCHANGED <<held, up>>
    <3>1. Started' /\ held'[Loader] = mine /\ scan'[Loader].at # "keep"
      BY <1>3, <2>2
    <3> QED BY <1>2, <2>0, <3>1, ScanLeftFilled
  <2> QED BY <1>4, <2>1, <2>2 DEF CheckHealth
<1>5. CASE ReadRows(Loader)
  <2>1. Started' /\ held'[Loader] = mine /\ scan'[Loader].at # "keep"
    BY <1>3, <1>5 DEF ReadRows
  <2> QED BY <1>2, <1>5, <2>1, ScanLeftFilled DEF ReadRows
<1>6. ASSUME NEW s \in Sockets, SkipRow(Loader, s)
      PROVE  Filled' /\ Started'
  <2>1. Started' /\ held'[Loader] = mine /\ scan'[Loader].at # "keep"
    BY <1>3, <1>6 DEF SkipRow
  <2> QED BY <1>2, <1>6, <2>1, ScanLeftFilled DEF SkipRow
<1>7. ASSUME NEW s \in Sockets, NEW q \in Processes, Capture(Loader, s, q)
      PROVE  Filled' /\ Started'
  <2>0. scan[Loader].at # "keep" /\ SlotsAfter(slot)
    BY <1>7 DEF Capture
  <2>1. CASE mine[sl] # None /\ Through(Loader, mine)
    <3>1. Started' /\ held'[Loader] = mine /\ scan'[Loader].at # "keep"
      BY <1>2, <2>1, ThroughStarted
    <3> QED BY <1>2, <2>0, <3>1, ScanLeftFilled
  <2>2. CASE /\ Goto(Loader, Scan("register", sl, {},
                                  [sock |-> s, owner |-> q, gone |-> FALSE]))
             /\ UNCHANGED <<held, up>>
    <3>1. Started' /\ held'[Loader] = mine /\ scan'[Loader].at # "keep"
      BY <1>3, <2>2
    <3> QED BY <1>2, <2>0, <3>1, ScanLeftFilled
  <2> QED BY <1>7, <2>1, <2>2 DEF Capture
<1>8. CASE NotFound(Loader)
  <2>0. scan[Loader].at # "keep" /\ SlotsAfter(slot) /\ up' = up
    BY <1>8 DEF NotFound
  <2>1. Loader \notin Commands
    BY ListenAssumption
  <2>2. CASE up = "starting"
    <3>1. Goto(Loader, Scan("rows", sl, {}, None)) /\ UNCHANGED <<held, up>>
      BY <1>8, <2>1, <2>2 DEF NotFound
    <3>2. Started' /\ held'[Loader] = mine /\ scan'[Loader].at # "keep"
      BY <1>3, <3>1
    <3> QED BY <1>2, <2>0, <3>2, ScanLeftFilled
  <2>3. CASE up # "starting"
    <3>1. Goto(Loader, Idle) /\ held' = held
      BY <1>8, <2>1, <2>3 DEF NotFound
    <3>2. scan'[Loader] = Idle /\ scan'[Loader].at = "idle" /\ scan'[Loader].slot = "primary"
      BY <1>2, <3>1, GotoPlace DEF Idle
    <3>3. Started'
      BY <1>2, <2>0, <2>3, <3>1, <3>2 DEF FilledInv, Started, Used, Slots
    <3> QED BY <1>2, <2>0, <3>1, <3>2, <3>3, ScanLeftFilled
  <2> QED BY <2>2, <2>3
<1>9. CASE Register(Loader)
  <2> DEFINE got == scan[Loader].got
             contents == [slot EXCEPT ![sl] = got.sock]
  <2>1. /\ Started' /\ held'[Loader] = mine
        /\ scan'[Loader].at = "keep" /\ scan'[Loader].slot = sl /\ scan'[Loader].got = got
    BY <1>3, <1>9 DEF Register
  <2>2. got # None
    BY <1>1, <1>9, ScanShape, NoneIsNoCapture DEF Register
  <2>3. SlotsAfter(contents) /\ ~Replacing(sl)
    BY <1>9 DEF Register, Replacing
  <2>4. slot'[sl] = got.sock
    <3>1. contents[sl] = got.sock
      BY <1>1, <1>2 DEF TypeOK
    <3>2. got.sock \in ListeningSockets'
      BY <1>1, <2>1, <2>2, KeptListens
    <3> QED BY <1>1, <2>3, <3>1, <3>2 DEF SlotsAfter
  <2>5. ASSUME NEW other \in Slots, other # sl, mine[other] # None
        PROVE  slot'[other] = mine[other].sock
    <3>1. ~Replacing(other)
      BY <1>9 DEF Register, Replacing
    <3>2. contents[other] = mine[other].sock
      BY <1>2, <2>5, <3>1 DEF Filled, TypeOK
    <3>3. mine[other].sock \in ListeningSockets'
      BY <2>1, <2>5, KeptListens
    <3> QED BY <2>3, <3>2, <3>3 DEF SlotsAfter
  <2> QED BY <2>1, <2>4, <2>5 DEF Filled, Replacing
<1>10. CASE Keep(Loader)
  <2> DEFINE got == scan[Loader].got
             new == [mine EXCEPT ![sl] = got]
  <2>1. got # None
    BY <1>1, <1>10, ScanShape, NoneIsNoCapture DEF Keep
  <2>2. new[sl] = got /\ \A other \in Slots : other # sl => new[other] = mine[other]
    BY <1>1
  <2>3. Through(Loader, new) /\ SlotsAfter(slot) /\ Replacing(sl)
    BY <1>10 DEF Keep, Replacing
  <2>4. Started' /\ held'[Loader] = new /\ scan'[Loader].at # "keep"
    <3> HIDE DEF new
    <3> QED BY <1>2, <2>1, <2>2, <2>3, ThroughStarted
  <2>5. ASSUME NEW any \in Slots, new[any] # None
        PROVE  slot[any] = new[any].sock
    BY <1>2, <2>2, <2>3, <2>5 DEF Filled, Replacing
  <2>6. ASSUME NEW any \in Slots, held'[Loader][any] # None
        PROVE  slot'[any] = held'[Loader][any].sock
    <3>1. slot[any] = held'[Loader][any].sock
      BY <2>4, <2>5, <2>6
    <3> QED BY <2>3, <2>6, <3>1, KeptListens DEF SlotsAfter
  <2> QED BY <2>4, <2>6 DEF Filled, Replacing
<1> QED BY <1>4, <1>5, <1>6, <1>7, <1>8, <1>9, <1>10 DEF ScanStep

LEMMA StepFilled ==
  ASSUME Commands = {}, FilledInv, [Next]_vars
  PROVE  FilledInv'
<1>0. TypeOK' /\ TypeOK /\ Filled
  BY StepTyped DEF FilledInv
<1> DEFINE begin == Scan("check", "primary", {}, None)
<1>1. CASE UNCHANGED vars
  BY <1>0, <1>1 DEF vars, FilledInv, Filled, Started, Replacing
<1>2. CASE StartLoader \/ Rescan
  <2>1. Goto(Loader, begin) /\ UNCHANGED <<slot, held>>
    BY <1>2 DEF StartLoader, Rescan
  <2>2. /\ scan'[Loader].at = "check" /\ scan'[Loader].slot = "primary"
        /\ scan'[Loader] # Idle
    BY <1>0, <2>1, GotoPlace DEF Scan, Idle
  <2>3. scan[Loader] = Idle
    BY <1>2 DEF StartLoader, Rescan, FilledInv, Started
  <2>4. Started'
    BY <1>2, <2>1, <2>2 DEF StartLoader, Rescan, FilledInv, Started, Used, Slots
  <2>5. Filled'
    BY <1>0, <2>1, <2>2, <2>3, ScanLeftFilled DEF Idle
  <2> QED BY <1>0, <2>4, <2>5 DEF FilledInv
<1>3. CASE ScanStep(Loader)
  BY <1>0, <1>3, LoaderScanFilled DEF FilledInv
<1>4. CASE LoaderExits
  <2>1. held'[Loader] = NothingHeld /\ scan'[Loader] = Idle /\ up' = "down"
    BY <1>4, LoaderFacts DEF LoaderExits, HeldAfterEnd, ScanAfterEnd
  <2> QED BY <1>0, <2>1 DEF FilledInv, Filled, Started, Replacing, NothingHeld, Idle, Used,
                            Slots
<1>5. ASSUME NEW w \in Workers, Exit(w)
      PROVE  FilledInv'
  <2> DEFINE r == scan[Loader]
  <2>1. /\ scan'[Loader] = Scan(r.at, r.slot, r.rows, Ended(r.got, w))
        /\ \A sl \in Slots : held'[Loader][sl] = Ended(held[Loader][sl], w)
        /\ up' = up /\ SlotsAfter(slot)
    BY <1>5, LoaderFacts DEF Exit, HeldAfterEnd, ScanAfterEnd
  <2>2. /\ scan'[Loader].at = r.at /\ scan'[Loader].slot = r.slot
        /\ scan'[Loader].got = Ended(r.got, w)
    BY <2>1 DEF Scan
  <2>3. r \in Scans /\ r.got \in CapturedListen \cup {None}
        /\ (r.at = "keep" => r.got # None)
    BY <1>0, LoaderFacts, ScanShape, NoneIsNoCapture DEF TypeOK
  <2>4. r.got # None => scan'[Loader].got # None /\ scan'[Loader].got.sock = r.got.sock
    BY <2>2, <2>3, EndedSame
  <2>5. ASSUME NEW sl \in Slots
        PROVE  /\ held'[Loader][sl] # None <=> held[Loader][sl] # None
               /\ held'[Loader][sl] # None => held'[Loader][sl].sock = held[Loader][sl].sock
    <3>1. held[Loader][sl] \in CapturedListen \cup {None}
      BY <1>0, LoaderFacts DEF TypeOK
    <3> QED BY <2>1, <3>1, EndedSame
  <2>6. Filled'
    BY <1>0, <2>1, <2>2, <2>3, <2>4, <2>5, LeftFilled DEF Replacing
  <2>7. Started'
    <3>1. scan[Loader] = Idle => scan'[Loader] = Idle
      BY <2>1 DEF Scan, Idle, Ended
    <3> QED BY <2>1, <2>2, <2>5, <3>1 DEF FilledInv, Started, Used, Slots
  <2> QED BY <1>0, <2>6, <2>7 DEF FilledInv
<1>6. ASSUME NEW w \in Workers, NEW s \in Sockets, Listen(w, s) \/ CloseListen(w, s)
      PROVE  FilledInv'
  <2>1. UNCHANGED <<held, scan, up>> /\ (slot' = slot \/ SlotsAfter(slot))
    BY <1>6 DEF Listen, CloseListen
  <2>2. \A sl \in Slots : Replacing(sl) => scan[Loader].got # None
    BY <1>0, LoaderFacts, ScanShape, NoneIsNoCapture DEF TypeOK, Replacing
  <2>3. Filled'
    BY <1>0, <2>1, <2>2, LeftFilled DEF Replacing
  <2> QED BY <1>0, <2>1, <2>3 DEF FilledInv, Started
<1>7. ASSUME NEW v \in Workers, NEW w \in Workers, Fork(v, w)
      PROVE  FilledInv'
  BY <1>0, <1>7 DEF Fork, FilledInv, Filled, Started, Replacing
<1> QED BY <1>1, <1>2, <1>3, <1>4, <1>5, <1>6, <1>7 DEF Next, LoaderStep

\* Unless somebody runs rescan-listen, a used slot is never empty while the loader serves,
\* whatever the frontend's processes do (openresty.rs rescan_slot, rescan_held).
THEOREM SlotsNeverEmpty ==
  ASSUME Commands = {}
  PROVE  Spec => []SlotsFilled
<1>1. Init => FilledInv
  BY InitTyped, LoaderFacts DEF Init, FilledInv, Filled, Started, Replacing, NothingHeld,
                                Idle, Used, Slots
<1>2. FilledInv /\ [Next]_vars => FilledInv'
  BY StepFilled
<1>3. FilledInv => SlotsFilled
  <2> SUFFICES ASSUME FilledInv, up = "serving", NEW sl \in Used
               PROVE  slot[sl] # None
    BY DEF SlotsFilled
  <2>1. sl \in Slots /\ held[Loader][sl] # None
    BY DEF FilledInv, Started, Used, Slots
  <2>2. held[Loader][sl] \in CapturedListen
    BY <2>1, LoaderFacts DEF FilledInv, TypeOK
  <2>3. Replacing(sl) => scan[Loader].got \in CapturedListen
    BY LoaderFacts, ScanShape DEF FilledInv, TypeOK, Replacing
  <2>4. \A c \in CapturedListen : c.sock # None
    BY ListenAssumption DEF CapturedListen
  <2>5. CASE Replacing(sl)
    BY <2>1, <2>3, <2>4, <2>5 DEF FilledInv, Filled
  <2>6. CASE ~Replacing(sl)
    BY <2>1, <2>2, <2>4, <2>6 DEF FilledInv, Filled
  <2> QED BY <2>5, <2>6
<1> QED BY <1>1, <1>2, <1>3, PTL DEF Spec
=============================================================================
