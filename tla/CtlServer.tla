-------------------------------- MODULE CtlServer --------------------------------
(***************************************************************************)
(* The control socket as a server (sockctl.rs start, bind_listener,        *)
(* handle, Server::drop): the file at the path, the listener behind it,    *)
(* the one thread that accepts, reads, executes and answers, and the order *)
(* in which a loader that stops gives them up (main.rs run_attached).      *)
(*                                                                         *)
(* What a request does is ControlPlane's subject, who may connect is not   *)
(* modelled.  A listener is a number; it is closed once no loader holds    *)
(* it, and with it every connection that was still in its backlog.  The    *)
(* client writes its line after it has connected, or never (Silent).       *)
(***************************************************************************)
EXTENDS Naturals

CONSTANTS
  Loaders,    \* loader processes, one after the other or at once
  Clients,
  Silent,     \* the clients that connect and send nothing
  Lsn,        \* numbers for listeners
  None,
  LockApart,  \* is loader.lock outside the directory of the path?
  MaxFaults   \* bound on kills and on removals of the path or its directory

ASSUME ServerAssumption ==
  /\ Silent \subseteq Clients /\ None \notin Lsn \cup Loaders \cup Clients
  /\ LockApart \in BOOLEAN /\ MaxFaults \in Nat

VARIABLES
  path,    \* the listener the file at the path belongs to, None without a file
  dir,     \* the directory of the path exists
  lock,    \* the holder of the loader.lock that is at its path
  main,    \* where the main thread of every loader is
  thread,  \* its control thread
  conn,    \* every client's connection
  faults

vars == <<path, dir, lock, main, thread, conn, faults>>
fs   == <<path, dir>>

\* `lsn' is the listener the thread accepts on, `new' the one it has just bound; `said'
\* that the client has written its line, `left' that it has closed its end.
Thread == [at : {"none", "loop", "secure", "accept", "read", "execute", "done"},
           lsn : Lsn \cup {None}, new : Lsn \cup {None}, client : Clients \cup {None}]
NoThread == [at |-> "none", lsn |-> None, new |-> None, client |-> None]

Conn == [at : {"idle", "queued", "held", "answered", "closed"},
         lsn : Lsn \cup {None}, said : BOOLEAN, left : BOOLEAN]
NoConn == [at |-> "idle", lsn |-> None, said |-> FALSE, left |-> FALSE]

TypeOK ==
  /\ path \in Lsn \cup {None} /\ dir \in BOOLEAN /\ lock \in Loaders \cup {None}
  /\ main \in [Loaders -> {"down", "start", "bound", "serving", "join", "remove", "unlock"}]
  /\ thread \in [Loaders -> Thread] /\ conn \in [Clients -> Conn]
  /\ \A l \in Loaders :
       /\ (thread[l].new # None) = (thread[l].at = "secure")
       /\ (thread[l].client # None) = (thread[l].at \in {"read", "execute"})
  /\ faults \in 0..MaxFaults

Init ==
  /\ path = None /\ dir = FALSE /\ lock = None
  /\ main = [l \in Loaders |-> "down"] /\ thread = [l \in Loaders |-> NoThread]
  /\ conn = [c \in Clients |-> NoConn] /\ faults = 0

Goes(l, place) == main' = [main EXCEPT ![l] = place]
Turns(l, place) == thread' = [thread EXCEPT ![l].at = place]

\* A number nobody refers to.
Fresh(x) ==
  /\ x # path
  /\ \A l \in Loaders : x \notin {thread[l].lsn, thread[l].new}
  /\ \A c \in Clients : x # conn[c].lsn

\* The listener is closed and takes its backlog with it.
Closes(x) ==
  conn' = [c \in Clients |->
             IF conn[c].at = "queued" /\ conn[c].lsn = x
             THEN [conn[c] EXCEPT !.at = "closed", !.lsn = None] ELSE conn[c]]

Answer(c) == conn' = [conn EXCEPT ![c].at = "answered", ![c].lsn = None]

-------------------------------------------------------------------------------
(* The main thread.                                                        *)

\* acquire_loader_lock; the attachment of the dataplane is not modelled here.
StartLoader(l) ==
  /\ main[l] = "down" /\ lock = None
  /\ lock' = l /\ Goes(l, "start")
  /\ UNCHANGED <<fs, thread, conn, faults>>

\* start: make the directory, unlink what a loader that was killed left, bind.
Bind(l) ==
  \E x \in Lsn :
    /\ main[l] = "start" /\ Fresh(x)
    /\ dir' = TRUE /\ path' = x
    /\ Goes(l, "bound") /\ thread' = [thread EXCEPT ![l].lsn = x]
    /\ UNCHANGED <<lock, conn, faults>>

\* chmod and chown the path.  If the file has gone since, the listener is dropped and
\* the loader serves without a control socket.
Secure(l) ==
  /\ main[l] = "bound"
  /\ Goes(l, "serving")
  /\ IF path # None THEN Turns(l, "loop") /\ UNCHANGED conn
     ELSE thread' = [thread EXCEPT ![l] = NoThread] /\ Closes(thread[l].lsn)
  /\ UNCHANGED <<fs, lock, faults>>

\* The shutdown flag is set: the main loop ends and Server::drop joins the thread.
Shutdown(l) ==
  /\ main[l] = "serving"
  /\ Goes(l, IF thread[l].at = "none" THEN "unlock" ELSE "join")
  /\ UNCHANGED <<fs, lock, thread, conn, faults>>

\* Mutant: the thread is not joined.
MutJoinNot(l) ==
  /\ main[l] = "join"
  /\ Goes(l, "remove")
  /\ UNCHANGED <<fs, lock, thread, conn, faults>>

Join(l) ==
  /\ main[l] = "join" /\ thread[l].at = "done"
  /\ Goes(l, "remove") /\ thread' = [thread EXCEPT ![l] = NoThread]
  /\ UNCHANGED <<fs, lock, conn, faults>>

\* Mutant: the lock is released before the server is dropped.
MutRemoveUnlocked(l) ==
  /\ main[l] = "remove"
  /\ IF lock = l THEN lock' = None /\ UNCHANGED <<main, path>>
     ELSE path' = None /\ Goes(l, "down") /\ UNCHANGED lock
  /\ UNCHANGED <<dir, thread, conn, faults>>

\* Whatever is at the path now.
RemoveSocket(l) ==
  /\ main[l] = "remove"
  /\ path' = None /\ Goes(l, "unlock")
  /\ UNCHANGED <<dir, lock, thread, conn, faults>>

Unlock(l) ==
  /\ main[l] = "unlock"
  /\ lock' = (IF lock = l THEN None ELSE lock) /\ Goes(l, "down")
  /\ UNCHANGED <<fs, thread, conn, faults>>

-------------------------------------------------------------------------------
(* The control thread.                                                     *)

\* Mutant: the thread does not look at the shutdown flag.
MutLoopIgnoresShutdown(l) ==
  /\ thread[l].at = "loop"
  /\ IF path = None /\ dir
     THEN \E x \in Lsn :
            /\ Fresh(x) /\ path' = x
            /\ thread' = [thread EXCEPT ![l].at = "secure", ![l].new = x]
            /\ UNCHANGED conn
     ELSE Turns(l, "accept") /\ UNCHANGED <<path, conn>>
  /\ UNCHANGED <<dir, lock, main, faults>>

\* Mutant: a path that has gone is never bound again.
MutLoopNeverRebinds(l) ==
  /\ thread[l].at = "loop"
  /\ IF main[l] # "serving"
     THEN thread' = [thread EXCEPT ![l].at = "done", ![l].lsn = None] /\ Closes(thread[l].lsn)
     ELSE Turns(l, "accept") /\ UNCHANGED conn
  /\ UNCHANGED <<path, dir, lock, main, faults>>

\* Ends with the flag; binds the path again when there is no file; without the
\* directory that fails, and it goes on accepting on the listener it has.
Loop(l) ==
  /\ thread[l].at = "loop"
  /\ IF main[l] # "serving"
     THEN /\ thread' = [thread EXCEPT ![l].at = "done", ![l].lsn = None]
          /\ Closes(thread[l].lsn) /\ UNCHANGED path
     ELSE IF path = None /\ dir
     THEN \E x \in Lsn :
            /\ Fresh(x) /\ path' = x
            /\ thread' = [thread EXCEPT ![l].at = "secure", ![l].new = x]
            /\ UNCHANGED conn
     ELSE Turns(l, "accept") /\ UNCHANGED <<path, conn>>
  /\ UNCHANGED <<dir, lock, main, faults>>

\* Mutant: the path is chmodded but the old listener is kept.
MutSecureRebindKeepsOld(l) ==
  /\ thread[l].at = "secure"
  /\ thread' = [thread EXCEPT ![l].at = "accept", ![l].new = None]
  /\ Closes(thread[l].new)
  /\ UNCHANGED <<fs, lock, main, faults>>

\* The new listener replaces the old one, unless the file has gone again.
SecureRebind(l) ==
  LET t == thread[l] IN
  /\ t.at = "secure"
  /\ IF path # None
     THEN /\ thread' = [thread EXCEPT ![l].at = "accept", ![l].lsn = t.new, ![l].new = None]
          /\ Closes(t.lsn)
     ELSE /\ thread' = [thread EXCEPT ![l].at = "accept", ![l].new = None]
          /\ Closes(t.new)
  /\ UNCHANGED <<fs, lock, main, faults>>

\* Mutant: a client that cannot be checked is neither answered nor closed.
MutAcceptForgets(l, c) ==
  /\ thread[l].at = "accept" /\ conn[c].at = "queued" /\ conn[c].lsn = thread[l].lsn
  /\ conn' = [conn EXCEPT ![c].at = "held", ![c].lsn = None]
  /\ IF path = None THEN Turns(l, "loop")
     ELSE thread' = [thread EXCEPT ![l].at = "read", ![l].client = c]
  /\ UNCHANGED <<fs, lock, main, faults>>

\* The next connection of the backlog; without the file its owner and mode cannot be
\* read and the client is refused at once.
Accept(l, c) ==
  /\ thread[l].at = "accept" /\ conn[c].at = "queued" /\ conn[c].lsn = thread[l].lsn
  /\ IF path = None THEN Turns(l, "loop") /\ Answer(c)
     ELSE /\ thread' = [thread EXCEPT ![l].at = "read", ![l].client = c]
          /\ conn'   = [conn EXCEPT ![c].at = "held", ![c].lsn = None]
  /\ UNCHANGED <<fs, lock, main, faults>>

\* WouldBlock: sleep, look at flag and path again.
AcceptNone(l) ==
  /\ thread[l].at = "accept"
  /\ \A c \in Clients : ~(conn[c].at = "queued" /\ conn[c].lsn = thread[l].lsn)
  /\ Turns(l, "loop")
  /\ UNCHANGED <<fs, lock, main, conn, faults>>

\* handle returns: an answer is written, also to a client that does not read it.
Return(l) ==
  /\ thread' = [thread EXCEPT ![l].at = "loop", ![l].client = None]
  /\ Answer(thread[l].client)

\* Mutant: the end of the connection counts as a line.
MutReadEnd(l) ==
  LET c == conn[thread[l].client] IN
  /\ thread[l].at = "read" /\ (c.said \/ c.left)
  /\ Turns(l, "execute") /\ UNCHANGED conn
  /\ UNCHANGED <<fs, lock, main, faults>>

\* read_line has no timeout: it ends with a line, which is read also when the client has
\* left meanwhile, or with the connection, and then there is no request.
Read(l) ==
  LET c == conn[thread[l].client] IN
  /\ thread[l].at = "read"
  /\ \/ c.said /\ Turns(l, "execute") /\ UNCHANGED conn
     \/ c.left /\ ~c.said /\ Return(l)
  /\ UNCHANGED <<fs, lock, main, faults>>

\* Mutant: the stream is kept after the answer.
MutExecuteKeepsStream(l) ==
  /\ thread[l].at = "execute"
  /\ Turns(l, "loop") /\ Answer(thread[l].client)
  /\ UNCHANGED <<fs, lock, main, faults>>

Execute(l) ==
  /\ thread[l].at = "execute" /\ Return(l)
  /\ UNCHANGED <<fs, lock, main, faults>>

-------------------------------------------------------------------------------
(* Clients, the administrator and the end of processes.                    *)

\* Refused when nobody listens on the file at the path.
Connect(c) ==
  /\ conn[c] = NoConn /\ path # None
  /\ \E l \in Loaders : path \in {thread[l].lsn, thread[l].new}
  /\ conn' = [conn EXCEPT ![c].at = "queued", ![c].lsn = path]
  /\ UNCHANGED <<fs, lock, main, thread, faults>>

Say(c) ==
  /\ c \notin Silent /\ conn[c].at \in {"queued", "held"} /\ ~conn[c].said /\ ~conn[c].left
  /\ conn' = [conn EXCEPT ![c].said = TRUE]
  /\ UNCHANGED <<fs, lock, main, thread, faults>>

\* The client is done, or gives up while it waits: what it has written stays in the
\* connection.
HangUp(c) ==
  /\ \/ conn[c].at \in {"answered", "closed"} /\ conn' = [conn EXCEPT ![c] = NoConn]
     \/ conn[c].at \in {"queued", "held"} /\ ~conn[c].left /\ conn' = [conn EXCEPT ![c].left = TRUE]
  /\ UNCHANGED <<fs, lock, main, thread, faults>>

Fault == faults < MaxFaults /\ faults' = faults + 1

RemovePath ==
  /\ Fault /\ path # None
  /\ path' = None /\ UNCHANGED <<dir, lock, main, thread, conn>>

\* systemd removes the RuntimeDirectory of a unit that stops, beside a loader that was
\* started by hand; with the lock file in it the next loader locks a new one.
RemoveDir ==
  /\ Fault /\ dir
  /\ path' = None /\ dir' = FALSE
  /\ lock' = IF LockApart THEN lock ELSE None
  /\ UNCHANGED <<main, thread, conn>>

\* The file stays, listener, lock and connections go.
Kill(l) ==
  /\ Fault /\ main[l] # "down"
  /\ Goes(l, "down") /\ thread' = [thread EXCEPT ![l] = NoThread]
  /\ lock' = IF lock = l THEN None ELSE lock
  /\ conn' = [c \in Clients |->
                IF \/ conn[c].at = "queued" /\ conn[c].lsn \in {thread[l].lsn, thread[l].new}
                   \/ conn[c].at = "held" /\ thread[l].client = c
                THEN [conn[c] EXCEPT !.at = "closed", !.lsn = None] ELSE conn[c]]
  /\ UNCHANGED fs

-------------------------------------------------------------------------------
MainStep(l) ==
  \/ Bind(l) \/ Secure(l) \/ Join(l) \/ RemoveSocket(l) \/ Unlock(l)

ThreadStep(l) ==
  \/ Loop(l) \/ SecureRebind(l) \/ AcceptNone(l) \/ Read(l) \/ Execute(l)
  \/ \E c \in Clients : Accept(l, c)

Next ==
  \/ \E l \in Loaders : StartLoader(l) \/ MainStep(l) \/ Shutdown(l) \/ ThreadStep(l) \/ Kill(l)
  \/ \E c \in Clients : Connect(c) \/ Say(c) \/ HangUp(c)
  \/ RemovePath \/ RemoveDir

Spec == Init /\ [][Next]_vars

\* The threads run, a backlog is served in order, a client that is not silent writes.
LiveSpec ==
  /\ Spec
  /\ \A l \in Loaders : WF_vars(MainStep(l)) /\ WF_vars(ThreadStep(l))
  /\ \A l \in Loaders, c \in Clients : SF_vars(Accept(l, c))
  /\ \A c \in Clients : WF_vars(Say(c))

-------------------------------------------------------------------------------
(* Properties.                                                             *)

Serving(l) == main[l] = "serving"
Running(l) == thread[l].at \notin {"none", "done"}

\* While a loader serves, the file at the path is its own: never the stale file of a
\* loader that was killed, never one whose listener was replaced or dropped, so that
\* a client is refused only where there is no file (sockctl.rs start, bind_listener).
NoDeadSocket ==
  \A l \in Loaders : Serving(l) /\ path # None => path \in {thread[l].lsn, thread[l].new}

\* The control thread of a loader ends before its lock is released: two loaders never
\* execute requests at once (sockctl.rs Server::drop, main.rs: the lock is dropped last).
LockOutlivesThread == \A l \in Loaders : Running(l) \/ main[l] # "down" => lock = l

\* Nobody but a fault takes the file of a loader that serves away from it: not a
\* predecessor that is still stopping, not a second loader that starts, not its own
\* thread (sockctl.rs Server::drop, bind_listener, main.rs acquire_loader_lock).
SocketKept ==
  [][\A l \in Loaders :
       Serving(l) /\ path # None /\ path \in {thread[l].lsn, thread[l].new}
         => path' = path \/ faults' # faults]_vars

\* Where the connection of a client is, to whoever does not see threads and listeners.
Stage(c) ==
  IF conn[c].at \notin {"queued", "held"} THEN conn[c].at
  ELSE IF \E l \in Loaders : thread[l].at = "execute" /\ thread[l].client = c THEN "executing"
  ELSE IF conn[c].said THEN "asked" ELSE "connected"

Promise == INSTANCE RequestService WITH charge <- lock, stage <- [c \in Clients |-> Stage(c)]

\* Requests are executed one after the other, each at most once and never half read, by
\* a loader that keeps its lock until they are done, whoever connects, leaves, stops,
\* starts or is killed meanwhile (sockctl.rs start, handle, Server::drop).
ServesOneByOne == Promise!Spec

\* The thread waits for a line that does not come.
Blocked == \E l \in Loaders : thread[l].at = "read" /\ thread[l].client \in Silent

\* A client that was let in and writes its line is answered or sees its connection
\* closed, unless a silent client holds the thread (sockctl.rs handle).
Answered ==
  \A c \in Clients \ Silent :
    (conn[c].at \in {"queued", "held"}) ~> (conn[c].at \notin {"queued", "held"} \/ Blocked)

\* A loader that is told to stop stops, unless a silent client holds the thread: the
\* join waits for nothing else (sockctl.rs Server::drop).
StopCompletes == \A l \in Loaders : (main[l] = "join") ~> (main[l] = "down" \/ Blocked)

\* A socket file that was removed comes back while the loader serves with a control
\* thread and the directory is there (sockctl.rs start, the loop of the thread).
SocketComesBack ==
  \A l \in Loaders :
    (Serving(l) /\ Running(l) /\ path = None)
      ~> (path # None \/ ~Serving(l) \/ ~dir \/ Blocked)
===============================================================================
