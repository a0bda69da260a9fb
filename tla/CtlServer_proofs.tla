---------------------------- MODULE CtlServer_proofs ----------------------------
(***************************************************************************)
(* Machine-checked proofs about CtlServer, for any number of loaders, of   *)
(* clients and of faults: the lock makes the control sockets of several    *)
(* loaders one after the other.                                            *)
(***************************************************************************)
EXTENDS CtlServer, TLAPS

Places == {"none", "loop", "secure", "accept", "read", "execute", "done"}

(***************************************************************************)
(* The steps of the server, by what they do to the records they replace.   *)
(***************************************************************************)

ThreadTyped(t) ==
  /\ t \in Thread
  /\ (t.new # None) = (t.at = "secure")
  /\ (t.client # None) = (t.at \in {"read", "execute"})

LEMMA NoThreadTyped == ThreadTyped(NoThread) /\ NoThread.at = "none" /\ NoThread.lsn = None
  BY DEF ThreadTyped, NoThread, Thread

LEMMA OneThread ==
  ASSUME TypeOK, NEW l \in Loaders, NEW t, ThreadTyped(t), thread' = [thread EXCEPT ![l] = t]
  PROVE  /\ thread' \in [Loaders -> Thread]
         /\ \A v \in Loaders : ThreadTyped(thread'[v])
         /\ thread'[l] = t
         /\ \A v \in Loaders \ {l} : thread'[v] = thread[v]
  BY DEF TypeOK, ThreadTyped

\* The place moves, to one with the same client and without a new listener.
LEMMA TurnsMoves ==
  ASSUME TypeOK, NEW l \in Loaders, NEW place \in {"loop", "accept", "read", "execute"},
         Turns(l, place), thread[l].new = None,
         (thread[l].client # None) = (place \in {"read", "execute"})
  PROVE  \E t : /\ ThreadTyped(t) /\ thread' = [thread EXCEPT ![l] = t]
                /\ t.at = place /\ t.lsn = thread[l].lsn
<1>1. PICK t : t = [thread[l] EXCEPT !.at = place]
  OBVIOUS
<1>2. thread' = [thread EXCEPT ![l] = t]
  BY <1>1 DEF Turns
<1>3. ThreadTyped(t) /\ t.at = place /\ t.lsn = thread[l].lsn
  BY <1>1 DEF TypeOK, Thread, ThreadTyped
<1> QED BY <1>2, <1>3

LEMMA ConnTyped ==
  ASSUME TypeOK
  PROVE  /\ \A x : Closes(x) => conn' \in [Clients -> Conn]
         /\ \A c \in Clients : Answer(c) => conn' \in [Clients -> Conn]
<1>1. \A c \in Clients : [conn[c] EXCEPT !.at = "closed", !.lsn = None] \in Conn
  BY DEF TypeOK, Conn
<1>2. ASSUME NEW c \in Clients, Answer(c) PROVE conn' \in [Clients -> Conn]
  <2>1. PICK r : r = [conn[c] EXCEPT !.at = "answered", !.lsn = None]
    OBVIOUS
  <2>2. conn' = [conn EXCEPT ![c] = r]
    BY <1>2, <2>1 DEF Answer
  <2>3. r \in Conn
    BY <2>1 DEF TypeOK, Conn
  <2> QED BY <2>2, <2>3 DEF TypeOK
<1>3. ASSUME NEW x, Closes(x) PROVE conn' \in [Clients -> Conn]
  BY <1>1, <1>3 DEF Closes, TypeOK
<1> QED BY <1>2, <1>3

(***************************************************************************)
(* The inductive invariant: what a loader that runs holds.                 *)
(***************************************************************************)

Own(l) == IF thread[l].at = "secure" THEN thread[l].new ELSE thread[l].lsn

Holds(l) ==
  /\ LockApart /\ main[l] # "down" => lock = l
  /\ main[l] \in {"down", "start", "remove", "unlock"} => thread[l] = NoThread
  /\ main[l] = "bound" => thread[l].at = "none"
  /\ main[l] = "serving" => /\ thread[l].at # "done"
                            /\ thread[l].at = "none" => thread[l] = NoThread
  /\ LockApart /\ main[l] \in {"bound", "serving", "join"} /\ thread[l].at # "done"
       => path \in {None, Own(l)}

Safe == TypeOK /\ \A l \in Loaders : Holds(l)

\* Only the holder of the lock runs.
LEMMA OnlyOne ==
  ASSUME LockApart, Safe, NEW l \in Loaders, lock \in {l, None}, NEW v \in Loaders \ {l}
  PROVE  main[v] = "down" /\ thread[v] = NoThread
  BY ServerAssumption DEF Safe, Holds

\* So a step of one loader has to be looked at for that loader only.
LEMMA LocalStep ==
  ASSUME Safe, NEW l \in Loaders, LockApart => lock \in {l, None}, TypeOK', Holds(l)',
         \A v \in Loaders \ {l} : main'[v] = main[v] /\ thread'[v] = thread[v]
  PROVE  Safe'
<1>1. ASSUME NEW v \in Loaders \ {l} PROVE Holds(v)'
  <2>1. CASE LockApart
    <3>1. main'[v] = "down" /\ thread'[v] = NoThread
      BY <1>1, <2>1, OnlyOne
    <3> QED BY <3>1 DEF Holds
  <2>2. CASE ~LockApart
    BY <1>1, <2>2 DEF Safe, Holds
  <2> QED BY <2>1, <2>2
<1> QED BY <1>1 DEF Safe

LEMMA SafeInit == Init => Safe
<1> SUFFICES ASSUME Init PROVE Safe
  OBVIOUS
<1>1. TypeOK
  <2>1. NoConn \in Conn
    BY DEF NoConn, Conn
  <2>2. \A l \in Loaders : ThreadTyped(thread[l])
    BY NoThreadTyped DEF Init
  <2>3. faults \in 0..MaxFaults
    BY ServerAssumption DEF Init
  <2> QED BY <2>1, <2>2, <2>3, NoThreadTyped DEF Init, TypeOK, ThreadTyped
<1> QED BY <1>1, NoThreadTyped DEF Init, Safe, Holds

LEMMA MainSafe ==
  ASSUME Safe, NEW l \in Loaders, StartLoader(l) \/ MainStep(l) \/ Shutdown(l)
  PROVE  Safe'
<1>0. /\ TypeOK /\ Holds(l) /\ ThreadTyped(thread[l]) /\ thread[l].lsn \in Lsn \cup {None}
      /\ NoThread.at = "none"
  BY NoThreadTyped DEF Safe, TypeOK, ThreadTyped, Thread
<1>1. CASE StartLoader(l)
  BY <1>0, <1>1, LocalStep DEF StartLoader, Goes, fs, TypeOK, Holds
<1>2. ASSUME NEW x \in Lsn, main[l] = "start", dir' = TRUE, path' = x, Goes(l, "bound"),
             thread' = [thread EXCEPT ![l].lsn = x], UNCHANGED <<lock, conn, faults>>
      PROVE  Safe'
  <2>1. PICK t : t = [NoThread EXCEPT !.lsn = x]
    OBVIOUS
  <2>2. ThreadTyped(t) /\ t.at = "none" /\ t.lsn = x
    BY <2>1 DEF ThreadTyped, NoThread, Thread
  <2>3. thread' = [thread EXCEPT ![l] = t] /\ (LockApart => lock = l)
    BY <1>0, <1>2, <2>1 DEF Holds
  <2>4. TypeOK'
    BY <1>0, <1>2, <2>2, <2>3, OneThread DEF Goes, TypeOK, ThreadTyped
  <2> QED BY <1>0, <1>2, <2>2, <2>3, <2>4, OneThread, LocalStep DEF Goes, TypeOK, Holds, Own
<1>3. CASE Secure(l)
  <2>0. LockApart => lock = l /\ path \in {None, thread[l].lsn}
    BY <1>0, <1>3 DEF Secure, Holds, Own
  <2>1. CASE path # None /\ Turns(l, "loop") /\ UNCHANGED conn
    <3>1. thread[l].new = None /\ thread[l].client = None
      BY <1>0, <1>3 DEF Secure, Holds, ThreadTyped
    <3>2. PICK t : /\ ThreadTyped(t) /\ thread' = [thread EXCEPT ![l] = t]
                   /\ t.at = "loop" /\ t.lsn = thread[l].lsn
      BY <1>0, <2>1, <3>1, TurnsMoves
    <3>3. TypeOK'
      BY <1>0, <1>3, <2>1, <3>2, OneThread DEF Secure, Goes, fs, TypeOK, ThreadTyped
    <3> QED BY <1>0, <1>3, <2>0, <3>2, <3>3, OneThread, LocalStep
            DEF Secure, Goes, fs, TypeOK, Holds, Own
  <2>2. CASE path = None /\ thread' = [thread EXCEPT ![l] = NoThread] /\ Closes(thread[l].lsn)
    <3>1. TypeOK'
      BY <1>0, <1>3, <2>2, OneThread, NoThreadTyped, ConnTyped
         DEF Secure, Goes, fs, TypeOK, ThreadTyped
    <3> QED BY <1>0, <1>3, <2>0, <2>2, <3>1, OneThread, NoThreadTyped, LocalStep
            DEF Secure, Goes, fs, TypeOK, Holds, Own
  <2> QED BY <1>3, <2>1, <2>2 DEF Secure
<1>4. CASE Shutdown(l)
  BY <1>0, <1>4, LocalStep DEF Shutdown, Goes, fs, TypeOK, Holds, Own
<1>5. CASE Join(l)
  <2>1. TypeOK'
    BY <1>0, <1>5, OneThread, NoThreadTyped DEF Join, Goes, fs, TypeOK, ThreadTyped
  <2> QED BY <1>0, <1>5, <2>1, OneThread, NoThreadTyped, LocalStep
          DEF Join, Goes, fs, TypeOK, Holds
<1>6. CASE RemoveSocket(l)
  BY <1>0, <1>6, LocalStep DEF RemoveSocket, Goes, TypeOK, Holds
<1>7. CASE Unlock(l)
  BY <1>0, <1>7, LocalStep DEF Unlock, Goes, fs, TypeOK, Holds
<1> QED BY <1>1, <1>2, <1>3, <1>4, <1>5, <1>6, <1>7 DEF MainStep, Bind

LEMMA ThreadSafe ==
  ASSUME Safe, NEW l \in Loaders, ThreadStep(l)
  PROVE  Safe'
<1>0. /\ TypeOK /\ Holds(l) /\ ThreadTyped(thread[l]) /\ thread[l].lsn \in Lsn \cup {None}
      /\ thread[l].client \in Clients \cup {None} /\ thread[l].new \in Lsn \cup {None}
      /\ NoThread.at = "none" /\ None \notin Lsn /\ None \notin Clients
  BY NoThreadTyped, ServerAssumption DEF Safe, TypeOK, ThreadTyped, Thread
\* Who has a thread has the lock, and stays where it is.
<1>1. /\ thread[l].at # "none" /\ thread[l].at # "done"
      /\ main[l] \in {"serving", "join"}
      /\ LockApart => lock = l /\ path \in {None, Own(l)}
      /\ main' = main /\ lock' = lock /\ dir' = dir /\ faults' = faults
  <2>1. thread[l].at \in {"loop", "secure", "accept", "read", "execute"}
    BY DEF ThreadStep, Loop, SecureRebind, AcceptNone, Read, Execute, Accept
  <2>2. main[l] \in {"serving", "join"}
    BY <1>0, <2>1 DEF Holds, TypeOK
  <2>3. UNCHANGED <<main, lock, dir, faults>>
    BY DEF ThreadStep, Loop, SecureRebind, AcceptNone, Read, Execute, Accept, fs
  <2> QED BY <1>0, <2>1, <2>2, <2>3 DEF Holds
\* A new record of the thread that still owns the path keeps everything.
<1>2. ASSUME NEW t, ThreadTyped(t), thread' = [thread EXCEPT ![l] = t],
             conn' \in [Clients -> Conn], path' \in Lsn \cup {None}, t.at # "none",
             \/ t.at = "done" /\ main[l] = "join"
             \/ /\ t.at # "done"
                /\ LockApart => path' \in {None, IF t.at = "secure" THEN t.new ELSE t.lsn}
      PROVE  Safe'
  <2>1. TypeOK'
    BY <1>0, <1>1, <1>2, OneThread DEF TypeOK, ThreadTyped
  <2>2. Holds(l)'
    BY <1>0, <1>1, <1>2, OneThread DEF Holds, Own
  <2> QED BY <1>1, <1>2, <2>1, <2>2, OneThread, LocalStep, <1>0
<1>3. conn \in [Clients -> Conn] /\ path \in Lsn \cup {None}
  BY <1>0 DEF TypeOK
\* A turn to a place without a new listener.
<1>4. ASSUME NEW place \in {"loop", "accept", "read", "execute"}, Turns(l, place),
             thread[l].new = None, (thread[l].client # None) = (place \in {"read", "execute"}),
             conn' \in [Clients -> Conn], path' = path
      PROVE  Safe'
  <2>1. PICK t : /\ ThreadTyped(t) /\ thread' = [thread EXCEPT ![l] = t]
                 /\ t.at = place /\ t.lsn = thread[l].lsn
    BY <1>0, <1>4, TurnsMoves
  <2>2. thread[l].at # "secure"
    BY <1>0, <1>4 DEF ThreadTyped
  <2> QED BY <1>1, <1>2, <1>3, <1>4, <2>1, <2>2 DEF Own
<1>5. CASE Loop(l)
  <2>0. thread[l].new = None /\ thread[l].client = None /\ Own(l) = thread[l].lsn
    BY <1>0, <1>5 DEF Loop, ThreadTyped, Own
  <2>1. CASE /\ main[l] # "serving" /\ UNCHANGED path /\ Closes(thread[l].lsn)
             /\ thread' = [thread EXCEPT ![l].at = "done", ![l].lsn = None]
    <3>1. PICK t : t = [thread[l] EXCEPT !.at = "done", !.lsn = None]
      OBVIOUS
    <3>2. thread' = [thread EXCEPT ![l] = t]
      BY <2>1, <3>1
    <3>x. /\ t \in Thread /\ t.at = "done" /\ t.lsn = None
          /\ t.new = thread[l].new /\ t.client = thread[l].client
      BY <1>0, <2>0, <3>1 DEF ThreadTyped, Thread
    <3>3. ThreadTyped(t) /\ t.at = "done"
      BY <1>0, <2>0, <3>x DEF ThreadTyped
    <3> QED BY <1>0, <1>1, <1>2, <1>3, <2>1, <3>2, <3>3, ConnTyped
  <2>2. ASSUME NEW x \in Lsn, path' = x, UNCHANGED conn,
               thread' = [thread EXCEPT ![l].at = "secure", ![l].new = x]
        PROVE  Safe'
    <3>1. PICK t : t = [thread[l] EXCEPT !.at = "secure", !.new = x]
      OBVIOUS
    <3>2. thread' = [thread EXCEPT ![l] = t]
      BY <2>2, <3>1
    <3>x. /\ t \in Thread /\ t.at = "secure" /\ t.lsn = thread[l].lsn
          /\ t.new = x /\ t.client = thread[l].client
      BY <1>0, <2>0, <2>2, <3>1 DEF ThreadTyped, Thread
    <3>3. ThreadTyped(t) /\ t.at = "secure" /\ t.new = x
      BY <1>0, <2>0, <2>2, <3>x DEF ThreadTyped
    <3> QED BY <1>0, <1>1, <1>2, <1>3, <2>2, <3>2, <3>3
  <2>3. CASE Turns(l, "accept") /\ UNCHANGED <<path, conn>>
    BY <1>3, <1>4, <2>0, <2>3
  <2> QED BY <1>5, <2>1, <2>2, <2>3 DEF Loop
<1>6. CASE SecureRebind(l)
  <2>0. thread[l].client = None /\ Own(l) = thread[l].new /\ path' = path /\ thread[l].at = "secure"
    BY <1>0, <1>6 DEF SecureRebind, ThreadTyped, Own, fs
  <2>1. CASE /\ path # None /\ Closes(thread[l].lsn)
             /\ thread' = [thread EXCEPT ![l].at = "accept", ![l].lsn = thread[l].new, ![l].new = None]
    <3>1. PICK t : t = [thread[l] EXCEPT !.at = "accept", !.lsn = thread[l].new, !.new = None]
      OBVIOUS
    <3>2. thread' = [thread EXCEPT ![l] = t]
      BY <2>1, <3>1
    <3>x. /\ t \in Thread /\ t.at = "accept" /\ t.lsn = thread[l].new
          /\ t.new = None /\ t.client = thread[l].client
      BY <1>0, <2>0, <3>1 DEF ThreadTyped, Thread
    <3>3. ThreadTyped(t) /\ t.at = "accept" /\ t.lsn = thread[l].new
      BY <1>0, <2>0, <3>x DEF ThreadTyped
    <3> QED BY <1>0, <1>1, <1>2, <1>3, <2>0, <2>1, <3>2, <3>3, ConnTyped
  <2>2. CASE /\ path = None /\ Closes(thread[l].new)
             /\ thread' = [thread EXCEPT ![l].at = "accept", ![l].new = None]
    <3>1. PICK t : t = [thread[l] EXCEPT !.at = "accept", !.new = None]
      OBVIOUS
    <3>2. thread' = [thread EXCEPT ![l] = t]
      BY <2>2, <3>1
    <3>x. /\ t \in Thread /\ t.at = "accept" /\ t.lsn = thread[l].lsn
          /\ t.new = None /\ t.client = thread[l].client
      BY <1>0, <2>0, <3>1 DEF ThreadTyped, Thread
    <3>3. ThreadTyped(t) /\ t.at = "accept"
      BY <1>0, <2>0, <3>x DEF ThreadTyped
    <3> QED BY <1>0, <1>1, <1>2, <1>3, <2>0, <2>2, <3>2, <3>3, ConnTyped
  <2> QED BY <1>6, <2>1, <2>2 DEF SecureRebind
<1>7. ASSUME NEW c \in Clients, Accept(l, c) PROVE Safe'
  <2>0. /\ thread[l].new = None /\ thread[l].client = None /\ Own(l) = thread[l].lsn
        /\ path' = path /\ thread[l].at = "accept"
    BY <1>0, <1>7 DEF Accept, ThreadTyped, Own, fs
  <2>1. CASE Turns(l, "loop") /\ Answer(c)
    BY <1>0, <1>4, <2>0, <2>1, ConnTyped
  <2>2. CASE /\ thread' = [thread EXCEPT ![l].at = "read", ![l].client = c]
             /\ conn' = [conn EXCEPT ![c].at = "held", ![c].lsn = None]
    <3>1. PICK t : t = [thread[l] EXCEPT !.at = "read", !.client = c]
      OBVIOUS
    <3>2. thread' = [thread EXCEPT ![l] = t]
      BY <2>2, <3>1
    <3>x. /\ t \in Thread /\ t.at = "read" /\ t.lsn = thread[l].lsn
          /\ t.new = thread[l].new /\ t.client = c
      BY <1>0, <2>0, <3>1 DEF ThreadTyped, Thread
    <3>3. ThreadTyped(t) /\ t.at = "read" /\ t.lsn = thread[l].lsn
      BY <1>0, <2>0, <3>x DEF ThreadTyped
    <3>4. PICK r : r = [conn[c] EXCEPT !.at = "held", !.lsn = None]
      OBVIOUS
    <3>5. r \in Conn
      BY <1>3, <3>4 DEF Conn
    <3>6. conn' = [conn EXCEPT ![c] = r]
      BY <2>2, <3>4
    <3> QED BY <1>1, <1>2, <1>3, <2>0, <3>2, <3>3, <3>5, <3>6
  <2> QED BY <1>7, <2>1, <2>2 DEF Accept
<1>8. CASE AcceptNone(l)
  <2>1. thread[l].new = None /\ thread[l].client = None
    BY <1>0, <1>8 DEF AcceptNone, ThreadTyped
  <2> QED BY <1>3, <1>4, <1>8, <2>1 DEF AcceptNone, fs
<1>9. CASE Read(l) \/ Execute(l)
  <2>0. /\ thread[l].new = None /\ thread[l].client \in Clients /\ Own(l) = thread[l].lsn
        /\ path' = path /\ conn' \in [Clients -> Conn]
    <3>1. thread[l].at \in {"read", "execute"} /\ path' = path
      BY <1>9 DEF Read, Execute, fs
    <3>2. thread[l].new = None /\ thread[l].client \in Clients
      BY <1>0, <3>1 DEF ThreadTyped
    <3> QED BY <1>0, <1>3, <1>9, <3>1, <3>2, ConnTyped DEF Own, Read, Execute, Return
  <2>1. CASE Turns(l, "execute")
    BY <1>0, <1>4, <2>0, <2>1
  <2>2. CASE thread' = [thread EXCEPT ![l].at = "loop", ![l].client = None]
    <3>1. PICK t : t = [thread[l] EXCEPT !.at = "loop", !.client = None]
      OBVIOUS
    <3>2. thread' = [thread EXCEPT ![l] = t]
      BY <2>2, <3>1
    <3>x. /\ t \in Thread /\ t.at = "loop" /\ t.lsn = thread[l].lsn
          /\ t.new = thread[l].new /\ t.client = None
      BY <1>0, <2>0, <3>1 DEF ThreadTyped, Thread
    <3>3. ThreadTyped(t) /\ t.at = "loop" /\ t.lsn = thread[l].lsn
      BY <1>0, <2>0, <3>x DEF ThreadTyped
    <3> QED BY <1>1, <1>2, <1>3, <2>0, <3>2, <3>3
  <2> QED BY <1>9, <2>1, <2>2 DEF Read, Execute, Return
<1> QED BY <1>5, <1>6, <1>7, <1>8, <1>9 DEF ThreadStep

LEMMA FaultCounted == ASSUME TypeOK, Fault PROVE faults' \in 0..MaxFaults
<1>1. faults \in 0..MaxFaults
  BY DEF TypeOK
<1> QED BY <1>1, ServerAssumption DEF Fault

LEMMA OthersSafe ==
  ASSUME Safe,
         \/ \E l \in Loaders : Kill(l)
         \/ \E c \in Clients : Connect(c) \/ Say(c) \/ HangUp(c)
         \/ RemovePath \/ RemoveDir
  PROVE  Safe'
<1>0. TypeOK /\ NoConn \in Conn /\ NoConn.at = "idle" /\ MaxFaults \in Nat
  BY ServerAssumption DEF Safe, NoConn, Conn
<1>1. ASSUME NEW l \in Loaders, Kill(l) PROVE Safe'
  <2>1. Holds(l) /\ (LockApart => lock = l) /\ lock' \in Loaders \cup {None}
    BY <1>0, <1>1 DEF Safe, Holds, Kill, TypeOK
  <2>2. conn' \in [Clients -> Conn]
    <3>1. \A c \in Clients : [conn[c] EXCEPT !.at = "closed", !.lsn = None] \in Conn
      BY <1>0 DEF TypeOK, Conn
    <3> QED BY <1>0, <1>1, <3>1 DEF Kill, TypeOK
  <2>3. faults' \in 0..MaxFaults
    BY <1>0, <1>1, FaultCounted DEF Kill
  <2>4. TypeOK'
    BY <1>0, <1>1, <2>1, <2>2, <2>3, OneThread, NoThreadTyped
       DEF Kill, Goes, fs, TypeOK, ThreadTyped
  <2>5. /\ main'[l] = "down" /\ thread'[l] = NoThread
        /\ \A v \in Loaders \ {l} : main'[v] = main[v] /\ thread'[v] = thread[v]
    BY <1>0, <1>1, OneThread, NoThreadTyped DEF Kill, Goes, TypeOK
  <2>6. Holds(l)'
    BY <2>5 DEF Holds
  <2> QED BY <2>1, <2>4, <2>5, <2>6, LocalStep
<1>2. ASSUME NEW c \in Clients, Connect(c) \/ Say(c) \/ HangUp(c) PROVE Safe'
  <2>1. conn' \in [Clients -> Conn]
    <3>1. CASE Connect(c)
      <4>1. PICK r : r = [conn[c] EXCEPT !.at = "queued", !.lsn = path]
        OBVIOUS
      <4>2. r \in Conn /\ conn' = [conn EXCEPT ![c] = r]
        BY <1>0, <3>1, <4>1 DEF Connect, TypeOK, Conn
      <4> QED BY <1>0, <4>2 DEF TypeOK
    <3>2. CASE Say(c)
      BY <1>0, <3>2 DEF Say, TypeOK, Conn
    <3>3. CASE HangUp(c)
      <4>1. [conn[c] EXCEPT !.left = TRUE] \in Conn
        BY <1>0 DEF TypeOK, Conn
      <4> QED BY <1>0, <3>3, <4>1 DEF HangUp, TypeOK
    <3> QED BY <1>2, <3>1, <3>2, <3>3
  <2>2. UNCHANGED <<path, dir, lock, main, thread, faults>>
    BY <1>2 DEF Connect, Say, HangUp, fs
  <2> QED BY <2>1, <2>2 DEF Safe, TypeOK, Holds, Own
<1>3. CASE RemovePath \/ RemoveDir
  <2>1. /\ path' = None /\ dir' \in BOOLEAN /\ UNCHANGED <<main, thread, conn>>
        /\ faults' \in 0..MaxFaults
        /\ lock' \in Loaders \cup {None} /\ (LockApart => lock' = lock)
    BY <1>0, <1>3, FaultCounted DEF RemovePath, RemoveDir, TypeOK
  <2> QED BY <2>1 DEF Safe, TypeOK, Holds, Own
<1> QED BY <1>1, <1>2, <1>3

LEMMA SafeStep == Safe /\ [Next]_vars => Safe'
<1> SUFFICES ASSUME Safe, [Next]_vars PROVE Safe'
  OBVIOUS
<1>1. CASE UNCHANGED vars
  BY <1>1 DEF vars, fs, Safe, TypeOK, Holds, Own
<1>2. CASE Next
  BY <1>2, MainSafe, ThreadSafe, OthersSafe DEF Next
<1> QED BY <1>1, <1>2

LEMMA SafeAlways == Spec => []Safe
  BY SafeInit, SafeStep, PTL DEF Spec

(***************************************************************************)
(* Theorems.                                                               *)
(***************************************************************************)

\* Every state of the server is well typed, for any loaders, clients and faults.
THEOREM ServerTyped == Spec => []TypeOK
<1>1. Safe => TypeOK
  BY DEF Safe
<1> QED BY <1>1, SafeAlways, PTL

\* However loaders start, stop and are killed: the control thread of one never runs
\* without its lock, so that two of them never execute requests at once (sockctl.rs
\* Server::drop, main.rs).
THEOREM LockCoversThread == ASSUME LockApart PROVE Spec => []LockOutlivesThread
<1>1. Safe => LockOutlivesThread
  BY NoThreadTyped DEF Safe, Holds, LockOutlivesThread, Running
<1> QED BY <1>1, SafeAlways, PTL

\* While a loader serves, the file at the path is its own, whoever removes file or
\* directory and whenever (sockctl.rs start, bind_listener).
THEOREM SocketIsLive == ASSUME LockApart PROVE Spec => []NoDeadSocket
<1>1. Safe => NoDeadSocket
  BY DEF Safe, Holds, NoDeadSocket, Serving, Own, TypeOK
<1> QED BY <1>1, SafeAlways, PTL

LEMMA KeepsFile ==
  ASSUME LockApart, Safe, Next, NEW l \in Loaders, Serving(l), path # None
  PROVE  path' = path \/ faults' # faults
<1>0. lock = l /\ main[l] = "serving" /\ faults \in Nat
  BY ServerAssumption DEF Safe, Holds, Serving, TypeOK
<1>1. ASSUME NEW v \in Loaders, Bind(v) \/ RemoveSocket(v) PROVE FALSE
  <2>1. main[v] \in {"start", "remove"}
    BY <1>1 DEF Bind, RemoveSocket
  <2> QED BY <1>0, <2>1, OnlyOne
<1>2. ASSUME NEW v \in Loaders,
             \/ StartLoader(v) \/ Secure(v) \/ Join(v) \/ Unlock(v) \/ Shutdown(v) \/ Kill(v)
             \/ ThreadStep(v)
      PROVE  path' = path
  BY <1>2 DEF StartLoader, Secure, Join, Unlock, Shutdown, Kill, ThreadStep, Loop, SecureRebind,
              AcceptNone, Read, Execute, Accept, fs
<1>3. ASSUME NEW c \in Clients, Connect(c) \/ Say(c) \/ HangUp(c) PROVE path' = path
  BY <1>3 DEF Connect, Say, HangUp, fs
<1>4. CASE RemovePath \/ RemoveDir
  BY <1>0, <1>4 DEF RemovePath, RemoveDir, Fault
<1> QED BY <1>1, <1>2, <1>3, <1>4 DEF Next, MainStep

\* Only a fault takes the file of a serving loader away from it: no loader that stops
\* or starts, nor its own thread (sockctl.rs Server::drop, bind_listener, main.rs
\* acquire_loader_lock).
THEOREM SocketStays == ASSUME LockApart PROVE Spec => SocketKept
<1>1. Safe /\ [Next]_vars
        => [\A l \in Loaders : Serving(l) /\ path # None /\ path \in {thread[l].lsn, thread[l].new}
              => path' = path \/ faults' # faults]_vars
  BY KeepsFile
<1> QED BY <1>1, SafeAlways, PTL DEF Spec, SocketKept

(***************************************************************************)
(* CtlServer implements RequestService.  Beside Safe the refinement needs  *)
(* that a thread that reads or executes still holds its connection: then   *)
(* nobody else drops it, and who is accepted is not being executed.        *)
(***************************************************************************)

KeepsConn(t, r) == r.at = "held" /\ (t.at = "execute" => r.said)

HoldsConn ==
  \A l \in Loaders : thread[l].client # None => KeepsConn(thread[l], conn[thread[l].client])

ServeInv == Safe /\ HoldsConn

Runs(c) == \E l \in Loaders : thread[l].at = "execute" /\ thread[l].client = c

StageOf(r, runs) ==
  IF r.at \notin {"queued", "held"} THEN r.at
  ELSE IF runs THEN "executing" ELSE IF r.said THEN "asked" ELSE "connected"

stage == [c \in Clients |-> Stage(c)]

Refines == HoldsConn' /\ [Promise!Next]_(Promise!served)

LEMMA StageFacts ==
  ASSUME NEW c \in Clients
  PROVE  Stage(c) = StageOf(conn[c], Runs(c)) /\ Stage(c)' = StageOf(conn'[c], Runs(c)')
  BY DEF Stage, StageOf, Runs

LEMMA ServeInit == Init => ServeInv
<1> SUFFICES ASSUME Init PROVE ServeInv
  OBVIOUS
<1>1. \A l \in Loaders : thread[l].client = None
  BY DEF Init, NoThread
<1> QED BY <1>1, SafeInit DEF ServeInv, HoldsConn

LEMMA PromiseInit == Init => Promise!Init
<1> SUFFICES ASSUME Init PROVE Promise!Init
  OBVIOUS
<1>1. \A c \in Clients : Stage(c) = "idle"
  BY DEF Init, NoConn, Stage
<1> QED BY <1>1 DEF Init, Promise!Init

LEMMA SafeTypes ==
  ASSUME Safe
  PROVE  /\ thread \in [Loaders -> Thread] /\ conn \in [Clients -> Conn]
         /\ None \notin Clients /\ None \notin Lsn /\ None \notin Loaders
         /\ NoThread.client = None /\ NoThread.at = "none"
         /\ \A l \in Loaders : /\ thread[l].client \in Clients \cup {None}
                               /\ (thread[l].client # None) = (thread[l].at \in {"read", "execute"})
  BY ServerAssumption DEF Safe, TypeOK, Thread, NoThread

\* One loader steps: only its own thread may hold, or run, a connection.
LEMMA OneHolds ==
  ASSUME LockApart, ServeInv, NEW l \in Loaders, lock \in {l, None},
         \A v \in Loaders \ {l} : thread'[v] = thread[v]
  PROVE  /\ (thread'[l].client # None => KeepsConn(thread'[l], conn'[thread'[l].client])) => HoldsConn'
         /\ \A c \in Clients : Runs(c) <=> (thread[l].at = "execute" /\ thread[l].client = c)
         /\ \A c \in Clients : Runs(c)' <=> (thread'[l].at = "execute" /\ thread'[l].client = c)
<1>1. \A v \in Loaders \ {l} : thread[v] = NoThread /\ thread'[v] = NoThread
  BY OnlyOne DEF ServeInv
<1>2. NoThread.client = None /\ NoThread.at = "none"
  BY DEF NoThread
<1> QED BY <1>1, <1>2 DEF HoldsConn, Runs

\* A connection in a backlog is not being executed.
LEMMA QueuedWaits ==
  ASSUME ServeInv, NEW c \in Clients, conn[c].at # "held"
  PROVE  ~Runs(c)
  BY SafeTypes DEF ServeInv, HoldsConn, KeepsConn, Runs

LEMMA StageMoves ==
  ASSUME NEW c \in Clients, NEW place, Stage(c)' = place,
         \A d \in Clients \ {c} : Stage(d)' = Stage(d)
  PROVE  stage' = [stage EXCEPT ![c] = place]
  BY DEF stage

LEMMA StageStays ==
  ASSUME \A c \in Clients : Stage(c)' = Stage(c), lock' = lock
  PROVE  UNCHANGED Promise!served
  BY DEF Promise!served

\* A listener that is closed drops waiting connections, and nothing that is executed.
LEMMA ClosesDrops ==
  ASSUME ServeInv, NEW x, Closes(x), lock' = lock, \A c \in Clients : Runs(c)' <=> Runs(c)
  PROVE  Promise!Drop
<1> DEFINE cs == {c \in Clients : conn[c].at = "queued" /\ conn[c].lsn = x}
<1>1. ASSUME NEW c \in cs PROVE Stage(c) \in {"connected", "asked"} /\ Stage(c)' = "closed"
  <2>1. conn'[c].at = "closed"
    BY SafeTypes DEF Closes, Conn, ServeInv
  <2> QED BY <2>1, QueuedWaits, StageFacts DEF StageOf
<1>2. ASSUME NEW c \in Clients \ cs PROVE Stage(c)' = Stage(c)
  <2>1. conn'[c] = conn[c]
    BY DEF Closes
  <2> QED BY <2>1, StageFacts DEF StageOf
<1>3. cs \in SUBSET {c \in Clients : stage[c] \in {"connected", "asked"}}
  BY <1>1 DEF stage
<1>4. stage' = [c \in Clients |-> IF c \in cs THEN "closed" ELSE stage[c]]
  BY <1>1, <1>2 DEF stage
<1> HIDE DEF cs
<1> QED BY <1>3, <1>4 DEF Promise!Drop, Promise!Waiting, Promise!Closes, stage

\* A step that leaves clients and the running thread alone.
LEMMA Stutters ==
  ASSUME LockApart, ServeInv, NEW l \in Loaders, lock = l, lock' = lock, conn' = conn,
         \A v \in Loaders \ {l} : thread'[v] = thread[v],
         thread'[l].at # "execute" /\ thread[l].at # "execute",
         thread'[l].client \in {None, thread[l].client}
  PROVE  Refines
<1>1. HoldsConn'
  BY OneHolds DEF ServeInv, HoldsConn, KeepsConn
<1>2. \A c \in Clients : Stage(c)' = Stage(c)
  BY OneHolds, StageFacts DEF StageOf
<1> QED BY <1>1, <1>2, StageStays DEF Refines

LEMMA MainServes ==
  ASSUME LockApart, ServeInv, NEW l \in Loaders, StartLoader(l) \/ MainStep(l) \/ Shutdown(l)
  PROVE  Refines
<1>0. /\ Safe /\ Holds(l) /\ thread \in [Loaders -> Thread] /\ NoThread.at = "none" /\ NoThread.client = None
      /\ (thread[l].client # None) = (thread[l].at \in {"read", "execute"})
      /\ None \notin Loaders
  BY SafeTypes DEF ServeInv, Safe
<1>1. CASE StartLoader(l)
  <2>1. lock = None /\ lock' = l /\ UNCHANGED <<thread, conn>>
    BY <1>1 DEF StartLoader
  <2>2. \A c \in Clients : Stage(c)' = Stage(c)
    BY <2>1, StageFacts DEF Runs
  <2>3. Promise!TakeCharge(l)
    BY <2>1, <2>2 DEF Promise!TakeCharge
  <2> QED BY <2>1, <2>3 DEF Refines, Promise!Next, ServeInv, HoldsConn
<1>2. CASE Bind(l)
  <2>1. /\ lock = l /\ UNCHANGED <<lock, conn>> /\ thread[l] = NoThread
        /\ \E x \in Lsn : thread' = [thread EXCEPT ![l].lsn = x]
    BY <1>0, <1>2 DEF Bind, Holds
  <2>2. thread'[l].at = "none" /\ thread'[l].client = None
    BY <1>0, <2>1 DEF NoThread, Thread
  <2> QED BY <1>0, <2>1, <2>2, Stutters
<1>3. CASE Secure(l)
  <2>1. lock = l /\ UNCHANGED lock /\ thread[l].at = "none" /\ thread[l].client = None
    BY <1>0, <1>3 DEF Secure, Holds
  <2>2. CASE Turns(l, "loop") /\ UNCHANGED conn
    <3>1. thread'[l].at = "loop" /\ thread'[l].client = None
      BY <1>0, <2>1, <2>2 DEF Turns, Thread
    <3> QED BY <1>0, <2>1, <2>2, <3>1, Stutters DEF Turns
  <2>3. CASE thread' = [thread EXCEPT ![l] = NoThread] /\ Closes(thread[l].lsn)
    <3>1. thread'[l].at = "none" /\ thread'[l].client = None
      BY <1>0, <2>3
    <3>2. HoldsConn' /\ \A c \in Clients : Runs(c)' <=> Runs(c)
      BY <1>0, <2>1, <2>3, <3>1, OneHolds
    <3> QED BY <2>1, <2>3, <3>2, ClosesDrops DEF Refines, Promise!Next
  <2> QED BY <1>3, <2>2, <2>3 DEF Secure
<1>4. CASE Shutdown(l) \/ RemoveSocket(l)
  <2>1. UNCHANGED <<lock, thread, conn>>
    BY <1>4 DEF Shutdown, RemoveSocket
  <2>2. \A c \in Clients : Stage(c)' = Stage(c)
    BY <2>1, StageFacts DEF Runs
  <2> QED BY <2>1, <2>2, StageStays DEF Refines, ServeInv, HoldsConn
<1>5. CASE Join(l)
  <2>1. lock = l /\ UNCHANGED <<lock, conn>> /\ thread[l].at = "done" /\ thread' = [thread EXCEPT ![l] = NoThread]
    BY <1>0, <1>5 DEF Join, Holds
  <2>2. thread'[l].at = "none" /\ thread'[l].client = None
    BY <1>0, <2>1
  <2> QED BY <1>0, <2>1, <2>2, Stutters
<1>6. CASE Unlock(l)
  <2>1. lock = l /\ lock' = None /\ UNCHANGED <<thread, conn>> /\ thread[l] = NoThread
    BY <1>0, <1>6 DEF Unlock, Holds
  <2>2. \A c \in Clients : ~Runs(c)
    BY <1>0, <2>1, OneHolds
  <2>3. \A c \in Clients : Stage(c)' = Stage(c) /\ Stage(c) # "executing"
    <3>1. ASSUME NEW c \in Clients PROVE Stage(c)' = Stage(c) /\ Stage(c) # "executing"
      <4>1. conn[c].at \in {"idle", "queued", "held", "answered", "closed"}
        BY <1>0, SafeTypes DEF Conn
      <4> QED BY <2>1, <2>2, <4>1, StageFacts DEF Runs, StageOf
    <3> QED BY <3>1
  <2>4. Promise!HandOver
    BY <2>1, <2>3 DEF Promise!HandOver, Promise!Executing
  <2> QED BY <2>1, <2>4 DEF Refines, Promise!Next, ServeInv, HoldsConn
<1> QED BY <1>1, <1>2, <1>3, <1>4, <1>5, <1>6 DEF MainStep

LEMMA ThreadServes ==
  ASSUME LockApart, ServeInv, NEW l \in Loaders, ThreadStep(l)
  PROVE  Refines
<1>0. /\ Safe /\ Holds(l) /\ thread \in [Loaders -> Thread] /\ conn \in [Clients -> Conn]
      /\ thread[l].client \in Clients \cup {None} /\ None \notin Clients /\ None \notin Loaders
      /\ (thread[l].client # None) = (thread[l].at \in {"read", "execute"})
  BY SafeTypes DEF ServeInv, Safe
<1>1. lock = l /\ lock' = lock
  <2>1. thread[l].at \in {"loop", "secure", "accept", "read", "execute"} /\ lock' = lock
    BY DEF ThreadStep, Loop, SecureRebind, AcceptNone, Read, Execute, Accept
  <2>2. main[l] # "down"
    BY <1>0, <2>1 DEF Holds, NoThread
  <2> QED BY <1>0, <2>1, <2>2 DEF Holds
\* The thread takes a record without a connection.
<1>2. ASSUME NEW t, thread' = [thread EXCEPT ![l] = t], t.client = None, t.at # "execute",
             thread[l].at # "execute", conn' = conn \/ \E x : Closes(x)
      PROVE  Refines
  <2>1. thread'[l] = t /\ \A v \in Loaders \ {l} : thread'[v] = thread[v]
    BY <1>0, <1>2
  <2>2. CASE conn' = conn
    BY <1>1, <1>2, <2>1, <2>2, Stutters
  <2>3. ASSUME NEW x, Closes(x) PROVE Refines
    <3>1. HoldsConn' /\ \A c \in Clients : Runs(c)' <=> Runs(c)
      BY <1>1, <1>2, <2>1, OneHolds
    <3> QED BY <1>1, <2>3, <3>1, ClosesDrops DEF Refines, Promise!Next
  <2> QED BY <1>2, <2>2, <2>3
\* A client is answered and the thread goes back to its loop.
<1>3. ASSUME NEW c \in Clients, Answer(c), thread'[l].client = None, thread'[l].at # "execute",
             \A v \in Loaders \ {l} : thread'[v] = thread[v]
      PROVE  /\ HoldsConn' /\ Stage(c)' = "answered"
             /\ \A d \in Clients \ {c} :
                  ~(thread[l].at = "execute" /\ thread[l].client = d) => Stage(d)' = Stage(d)
  <2>1. HoldsConn' /\ \A d \in Clients : ~Runs(d)'
    BY <1>1, <1>3, OneHolds
  <2>2. conn'[c].at = "answered" /\ \A d \in Clients \ {c} : conn'[d] = conn[d]
    BY <1>0, <1>3 DEF Answer, Conn
  <2>3. Stage(c)' = "answered"
    BY <2>2, StageFacts DEF StageOf
  <2>4. ASSUME NEW d \in Clients \ {c}, ~(thread[l].at = "execute" /\ thread[l].client = d)
        PROVE  Stage(d)' = Stage(d)
    <3>1. ~Runs(d)
      BY <1>1, <1>3, <2>4, OneHolds
    <3> QED BY <2>1, <2>2, <2>4, <3>1, StageFacts DEF StageOf
  <2> QED BY <2>1, <2>3, <2>4
<1>4. CASE Loop(l) \/ SecureRebind(l) \/ AcceptNone(l)
  <2>1. thread[l].client = None /\ thread[l].at # "execute"
    BY <1>0, <1>4 DEF Loop, SecureRebind, AcceptNone
  <2>2. \E t : /\ thread' = [thread EXCEPT ![l] = t] /\ t.client = thread[l].client
               /\ t.at \in {"done", "secure", "accept", "loop"}
    BY <1>0, <1>4 DEF Loop, SecureRebind, AcceptNone, Turns, Thread
  <2>3. conn' = conn \/ \E x : Closes(x)
    BY <1>4 DEF Loop, SecureRebind, AcceptNone
  <2> QED BY <1>2, <2>1, <2>2, <2>3
<1>5. ASSUME NEW c \in Clients, Accept(l, c) PROVE Refines
  <2>1. thread[l].client = None /\ thread[l].at = "accept" /\ conn[c].at = "queued"
    BY <1>0, <1>5 DEF Accept
  <2>2. CASE Turns(l, "loop") /\ Answer(c)
    <3>1. /\ thread'[l].client = None /\ thread'[l].at = "loop"
          /\ \A v \in Loaders \ {l} : thread'[v] = thread[v]
      BY <1>0, <2>1, <2>2 DEF Turns, Thread
    <3>2. stage' = [stage EXCEPT ![c] = "answered"] /\ HoldsConn'
      BY <1>3, <2>1, <2>2, <3>1, StageMoves
    <3>3. stage[c] \in {"connected", "asked"}
      BY <2>1, QueuedWaits, StageFacts DEF StageOf, stage
    <3>4. Promise!Refuse(c)
      BY <1>1, <3>2, <3>3 DEF Promise!Refuse, Promise!Waiting, Promise!Goes, stage
    <3> QED BY <3>2, <3>4 DEF Refines, Promise!Next
  <2>3. CASE /\ thread' = [thread EXCEPT ![l].at = "read", ![l].client = c]
             /\ conn' = [conn EXCEPT ![c].at = "held", ![c].lsn = None]
    <3>1. /\ thread'[l].client = c /\ thread'[l].at = "read"
          /\ \A v \in Loaders \ {l} : thread'[v] = thread[v]
      BY <1>0, <2>3 DEF Thread
    <3>2. conn'[c].at = "held" /\ conn'[c].said = conn[c].said /\ \A d \in Clients \ {c} : conn'[d] = conn[d]
      BY <1>0, <2>3 DEF Conn
    <3>3. HoldsConn'
      BY <1>1, <3>1, <3>2, OneHolds DEF KeepsConn
    <3>4. \A d \in Clients : ~Runs(d) /\ ~Runs(d)'
      BY <1>1, <2>1, <3>1, OneHolds
    <3>5. \A d \in Clients : Stage(d)' = Stage(d)
      BY <2>1, <3>2, <3>4, StageFacts DEF StageOf
    <3> QED BY <1>1, <3>3, <3>5, StageStays DEF Refines
  <2> QED BY <1>5, <2>2, <2>3 DEF Accept
<1>6. CASE Read(l) /\ Turns(l, "execute") /\ conn' = conn /\ conn[thread[l].client].said
  <2>1. PICK c \in Clients : c = thread[l].client /\ thread[l].at = "read"
    BY <1>0, <1>6 DEF Read
  <2>2. conn[c].at = "held" /\ conn[c].said
    BY <1>0, <1>6, <2>1 DEF ServeInv, HoldsConn, KeepsConn
  <2>3. /\ thread'[l].client = c /\ thread'[l].at = "execute"
        /\ \A v \in Loaders \ {l} : thread'[v] = thread[v]
    BY <1>0, <1>6, <2>1 DEF Turns, Thread
  <2>4. HoldsConn'
    BY <1>1, <1>6, <2>2, <2>3, OneHolds DEF KeepsConn
  <2>5. \A d \in Clients : ~Runs(d) /\ (Runs(d)' <=> d = c)
    BY <1>1, <2>1, <2>3, OneHolds
  <2>6. Stage(c) = "asked" /\ Stage(c)' = "executing"
    BY <1>6, <2>2, <2>5, StageFacts DEF StageOf
  <2>7. \A d \in Clients \ {c} : Stage(d)' = Stage(d)
    BY <1>6, <2>5, StageFacts DEF StageOf
  <2>8. \A d \in Clients : Stage(d) # "executing"
    <3>1. ASSUME NEW d \in Clients PROVE Stage(d) # "executing"
      <4>1. conn[d].at # "executing"
        BY <1>0 DEF Conn
      <4> QED BY <2>5, <4>1, StageFacts DEF StageOf
    <3> QED BY <3>1
  <2>9. stage' = [stage EXCEPT ![c] = "executing"]
    BY <2>6, <2>7, StageMoves
  <2>10. Promise!Begin(c)
    BY <1>0, <1>1, <2>6, <2>8, <2>9 DEF Promise!Begin, Promise!Executing, Promise!Goes, stage
  <2> QED BY <2>4, <2>10 DEF Refines, Promise!Next
<1>7. CASE (Read(l) \/ Execute(l)) /\ Return(l)
  <2>1. PICK c \in Clients : c = thread[l].client /\ thread[l].at \in {"read", "execute"}
    BY <1>0, <1>7 DEF Read, Execute
  <2>2. /\ Answer(c) /\ thread'[l].client = None /\ thread'[l].at = "loop"
        /\ \A v \in Loaders \ {l} : thread'[v] = thread[v]
    BY <1>0, <1>7, <2>1 DEF Return, Thread
  <2>3. stage' = [stage EXCEPT ![c] = "answered"] /\ HoldsConn'
    BY <1>3, <2>1, <2>2, StageMoves
  <2>4. conn[c].at = "held" /\ (Runs(c) <=> thread[l].at = "execute")
    BY <1>1, <2>1, <2>2, <1>0, OneHolds DEF ServeInv, HoldsConn, KeepsConn
  <2>5. stage[c] \in {"connected", "asked", "executing"}
    BY <2>4, StageFacts DEF StageOf, stage
  <2>6. Promise!Refuse(c) \/ Promise!Answer(c)
    BY <1>1, <2>3, <2>5 DEF Promise!Refuse, Promise!Answer, Promise!Waiting, Promise!Goes, stage
  <2> QED BY <2>3, <2>6 DEF Refines, Promise!Next
<1> QED BY <1>4, <1>5, <1>6, <1>7 DEF ThreadStep, Read, Execute

LEMMA KillServes ==
  ASSUME LockApart, ServeInv, NEW l \in Loaders, Kill(l)
  PROVE  Refines
<1>0. /\ Safe /\ Holds(l) /\ thread \in [Loaders -> Thread] /\ conn \in [Clients -> Conn]
      /\ NoThread.client = None /\ NoThread.at = "none" /\ None \notin Clients
      /\ thread[l].client \in Clients \cup {None}
      /\ (thread[l].client # None) = (thread[l].at \in {"read", "execute"})
  BY SafeTypes DEF ServeInv, Safe
<1>1. lock = l /\ lock' = None
  BY <1>0 DEF Kill, Holds
<1>2. thread'[l] = NoThread /\ \A v \in Loaders \ {l} : thread'[v] = thread[v]
  BY <1>0 DEF Kill
<1>3. HoldsConn' /\ \A c \in Clients : ~Runs(c)'
  BY <1>0, <1>1, <1>2, OneHolds
<1> DEFINE lost == {c \in Clients : \/ conn[c].at = "queued" /\ conn[c].lsn \in {thread[l].lsn, thread[l].new}
                                    \/ conn[c].at = "held" /\ thread[l].client = c}
<1> DEFINE cs == {c \in lost : ~Runs(c)}
<1>4. ASSUME NEW c \in lost PROVE /\ Stage(c)' = "closed"
                                  /\ Stage(c) \in {"connected", "asked", "executing"}
                                  /\ Stage(c) = "executing" => Runs(c)
                                  /\ Runs(c) => Stage(c) = "executing"
  <2>1. conn'[c].at = "closed" /\ conn[c].at \in {"queued", "held"}
    BY <1>0 DEF Kill, Conn
  <2> QED BY <2>1, StageFacts DEF StageOf
<1>5. ASSUME NEW c \in Clients \ lost PROVE Stage(c)' = Stage(c) /\ Stage(c) # "executing"
  <2>1. conn'[c] = conn[c] /\ conn[c].at # "executing"
    BY <1>0 DEF Kill, Conn
  <2>2. ~Runs(c)
    BY <1>0, <1>1, <1>2, OneHolds DEF ServeInv, HoldsConn, KeepsConn
  <2> QED BY <1>3, <2>1, <2>2, StageFacts DEF StageOf
<1>6. cs \in SUBSET {c \in Clients : stage[c] \in {"connected", "asked"}}
  BY <1>4 DEF stage
<1>7. stage' = [c \in Clients |->
                 IF c \in cs \cup {d \in Clients : stage[d] = "executing"} THEN "closed" ELSE stage[c]]
  BY <1>4, <1>5 DEF stage
<1> HIDE DEF cs
<1>8. Promise!Lose
  BY <1>1, <1>6, <1>7 DEF Promise!Lose, Promise!Waiting, Promise!Executing, Promise!Closes, stage
<1> QED BY <1>3, <1>8 DEF Refines, Promise!Next

LEMMA ClientServes ==
  ASSUME LockApart, ServeInv, NEW c \in Clients, Connect(c) \/ Say(c) \/ HangUp(c)
  PROVE  Refines
<1>0. /\ Safe /\ conn \in [Clients -> Conn] /\ None \notin Clients /\ None \notin Lsn /\ None \notin Loaders
      /\ UNCHANGED <<lock, thread>> /\ NoConn \in Conn
  BY SafeTypes DEF ServeInv, Connect, Say, HangUp, NoConn, Conn
<1>1. \A d \in Clients : Runs(d)' <=> Runs(d)
  BY <1>0 DEF Runs
\* The connection of a client that is not held, or is and stays so.
<1>2. ASSUME NEW r, conn' = [conn EXCEPT ![c] = r],
             conn[c].at = "held" => r.at = "held" /\ (conn[c].said => r.said)
      PROVE  HoldsConn' /\ Stage(c)' = StageOf(r, Runs(c)') /\ \A d \in Clients \ {c} : Stage(d)' = Stage(d)
  <2>1. conn'[c] = r /\ \A d \in Clients \ {c} : conn'[d] = conn[d]
    BY <1>0, <1>2
  <2>2. HoldsConn'
    BY <1>0, <1>2, <2>1, SafeTypes DEF ServeInv, HoldsConn, KeepsConn
  <2>3. \A d \in Clients \ {c} : Stage(d)' = Stage(d)
    BY <1>1, <2>1, StageFacts DEF StageOf
  <2> QED BY <2>1, <2>2, <2>3, StageFacts
<1>3. CASE Connect(c)
  <2>1. lock # None
    <3>1. PICK l \in Loaders : path \in {thread[l].lsn, thread[l].new} /\ path # None
      BY <1>3 DEF Connect
    <3>2. thread[l] # NoThread
      BY <3>1 DEF NoThread
    <3> QED BY <1>0, <3>2 DEF Safe, Holds
  <2>2. PICK r : r = [conn[c] EXCEPT !.at = "queued", !.lsn = path]
    OBVIOUS
  <2>3. /\ conn[c] = NoConn /\ conn' = [conn EXCEPT ![c] = r] /\ conn[c].at = "idle"
        /\ r.at = "queued" /\ r.said = FALSE
    BY <1>0, <1>3, <2>2 DEF Connect, NoConn, Conn
  <2>4. ~Runs(c)
    BY <2>3, QueuedWaits
  <2>5. Stage(c) = "idle" /\ Stage(c)' = "connected"
    BY <1>1, <1>2, <2>3, <2>4, StageFacts DEF StageOf
  <2>6. Promise!Connect(c)
    BY <1>0, <1>2, <2>1, <2>3, <2>5, StageMoves DEF Promise!Connect, Promise!Goes, stage
  <2> QED BY <1>2, <2>3, <2>6 DEF Refines, Promise!Next
<1>4. CASE Say(c)
  <2>1. PICK r : r = [conn[c] EXCEPT !.said = TRUE]
    OBVIOUS
  <2>2. /\ conn' = [conn EXCEPT ![c] = r] /\ conn[c].at \in {"queued", "held"} /\ ~conn[c].said
        /\ r.at = conn[c].at /\ r.said = TRUE
    BY <1>0, <1>4, <2>1 DEF Say, Conn
  <2>3. ~Runs(c)
    BY <2>2, <1>0 DEF ServeInv, HoldsConn, KeepsConn, Runs
  <2>4. Stage(c) = "connected" /\ Stage(c)' = "asked"
    BY <1>1, <1>2, <2>2, <2>3, StageFacts DEF StageOf
  <2>5. Promise!Ask(c)
    BY <1>0, <1>2, <2>2, <2>4, StageMoves DEF Promise!Ask, Promise!Goes, stage
  <2> QED BY <1>2, <2>2, <2>5 DEF Refines, Promise!Next
<1>5. CASE conn[c].at \in {"answered", "closed"} /\ conn' = [conn EXCEPT ![c] = NoConn]
  <2>0. Stage(c)' = StageOf(NoConn, Runs(c)')
    BY <1>2, <1>5
  <2>1. Stage(c) \in {"answered", "closed"} /\ Stage(c)' = "idle"
    BY <1>5, <2>0, StageFacts DEF StageOf, NoConn
  <2>2. Promise!Leave(c)
    BY <1>0, <1>2, <1>5, <2>1, StageMoves DEF Promise!Leave, Promise!Goes, stage
  <2> QED BY <1>2, <1>5, <2>2 DEF Refines, Promise!Next
<1>6. CASE conn[c].at \in {"queued", "held"} /\ conn' = [conn EXCEPT ![c].left = TRUE]
  <2>1. PICK r : r = [conn[c] EXCEPT !.left = TRUE]
    OBVIOUS
  <2>2. conn' = [conn EXCEPT ![c] = r] /\ r.at = conn[c].at /\ r.said = conn[c].said
    BY <1>0, <1>6, <2>1 DEF Conn
  <2>3. Stage(c)' = Stage(c)
    BY <1>1, <1>2, <2>2, StageFacts DEF StageOf
  <2> QED BY <1>0, <1>2, <2>2, <2>3, StageStays DEF Refines
<1> QED BY <1>3, <1>4, <1>5, <1>6 DEF HangUp

\* The initial state and every step are ones of RequestService, in which there is no file,
\* no listener and no thread: requests are executed one after the other, each at most once,
\* also when loaders hand over, are killed, or lose the socket file or its directory in the
\* middle of one (sockctl.rs start, handle, Server::drop; main.rs).
THEOREM RequestsOneByOne == ASSUME LockApart PROVE Spec => ServesOneByOne
<1>1. ServeInv /\ [Next]_vars => ServeInv' /\ [Promise!Next]_(Promise!served)
  <2> SUFFICES ASSUME ServeInv, [Next]_vars PROVE Refines
    BY SafeStep DEF ServeInv, Refines
  <2>1. CASE UNCHANGED vars \/ RemovePath \/ RemoveDir
    <3>1. UNCHANGED <<lock, thread, conn>>
      BY <2>1 DEF vars, RemovePath, RemoveDir
    <3>2. \A c \in Clients : Stage(c)' = Stage(c)
      BY <3>1, StageFacts DEF Runs
    <3> QED BY <3>1, <3>2, StageStays DEF Refines, ServeInv, HoldsConn
  <2> QED BY <2>1, MainServes, ThreadServes, KillServes, ClientServes DEF Next
<1> QED BY <1>1, ServeInit, PromiseInit, PTL DEF Spec, ServesOneByOne, Promise!Spec
===============================================================================
