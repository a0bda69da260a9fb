----------------------------- MODULE RequestService -----------------------------
(***************************************************************************)
(* What the control socket promises, to its clients and to what executes   *)
(* their requests.                                                         *)
(*                                                                         *)
(* One loader at a time is in charge.  A connection is executed at most    *)
(* once, only after its request is complete, and only while some loader is *)
(* in charge and no other request is being executed.  A loader hands over  *)
(* between two requests or is killed in the middle of one; then the client *)
(* sees its connection closed, never an answer.                            *)
(*                                                                         *)
(* There is no file here, no listener, no backlog and no thread.           *)
(***************************************************************************)
CONSTANTS Loaders, Clients, None

VARIABLES
  charge,   \* the loader in charge, or None
  stage     \* of every client's connection

served == <<charge, stage>>

Init == charge = None /\ stage = [c \in Clients |-> "idle"]

Waiting   == {c \in Clients : stage[c] \in {"connected", "asked"}}
Executing == {c \in Clients : stage[c] = "executing"}

Goes(c, place) == stage' = [stage EXCEPT ![c] = place] /\ UNCHANGED charge

TakeCharge(l) == charge = None /\ charge' = l /\ UNCHANGED stage
HandOver == Executing = {} /\ charge' = None /\ UNCHANGED stage

Connect(c) == charge # None /\ stage[c] = "idle" /\ Goes(c, "connected")
Ask(c)     == stage[c] = "connected" /\ Goes(c, "asked")
Begin(c)   == charge # None /\ Executing = {} /\ stage[c] = "asked" /\ Goes(c, "executing")
Answer(c)  == stage[c] = "executing" /\ Goes(c, "answered")
Leave(c)   == stage[c] \in {"answered", "closed"} /\ Goes(c, "idle")

\* Answered without being executed.
Refuse(c) == c \in Waiting /\ Goes(c, "answered")

Closes(cs) == stage' = [c \in Clients |-> IF c \in cs THEN "closed" ELSE stage[c]]

Drop == UNCHANGED charge /\ \E cs \in SUBSET Waiting : Closes(cs)
Lose == charge' = None /\ \E cs \in SUBSET Waiting : Closes(cs \cup Executing)

Next ==
  \/ \E l \in Loaders : TakeCharge(l)
  \/ HandOver \/ Lose \/ Drop
  \/ \E c \in Clients : Connect(c) \/ Ask(c) \/ Begin(c) \/ Answer(c) \/ Refuse(c) \/ Leave(c)

Spec == Init /\ [][Next]_served
===============================================================================
