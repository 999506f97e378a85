--------------------------- MODULE SessionCustody ---------------------------
(***************************************************************************)
(* What the holder and its brains promise together, with no process,       *)
(* message or crash in sight (DESIGN_HOLDER_BRAIN_SPLIT.md, "Verb set"):   *)
(* a session once promised to its client ends only by the exit of its own  *)
(* child, and what holds it lets go only after that exit is durably        *)
(* recorded.  Module HolderBrain is shown to implement this.               *)
(***************************************************************************)
EXTENDS Naturals

CONSTANTS Uid, MaxInc

VARIABLES
  life,      \* the child of each incarnation
  owner,     \* the incarnation each uid is held at, 0 for none
  promised,  \* the uids whose session has been promised
  tomb       \* the incarnation whose exit is on disk for each uid, 0 for none

custodyVars == <<life, owner, promised, tomb>>

Inc == 1..MaxInc

Init ==
  /\ life = [i \in Inc |-> "none"]
  /\ owner = [u \in Uid |-> 0]
  /\ promised = {}
  /\ tomb = [u \in Uid |-> 0]

Owned(u)  == owner[u] # 0
Exited(u) == Owned(u) /\ life[owner[u]] = "exited"

\* A child is started for a uid that holds none.
Start(u, i) ==
  /\ ~Owned(u)
  /\ life[i] = "none"
  /\ life' = [life EXCEPT ![i] = "running"]
  /\ owner' = [owner EXCEPT ![u] = i]
  /\ UNCHANGED <<promised, tomb>>

\* A child that could not be held at all.
StillBorn(i) ==
  /\ life[i] = "none"
  /\ life' = [life EXCEPT ![i] = "gone"]
  /\ UNCHANGED <<owner, promised, tomb>>

Exit(i) ==
  /\ life[i] = "running"
  /\ life' = [life EXCEPT ![i] = "exited"]
  /\ UNCHANGED <<owner, promised, tomb>>

Promise(u) ==
  /\ Owned(u)
  /\ promised' = promised \cup {u}
  /\ UNCHANGED <<life, owner, tomb>>

\* One write of the tombstone file records any number of exits.
Record(S) ==
  /\ \A u \in S : Exited(u) /\ u \in promised
  /\ tomb' = [u \in Uid |-> IF u \in S THEN owner[u] ELSE tomb[u]]
  /\ UNCHANGED <<life, owner, promised>>

\* Only a recorded exit lets a promised session go.
Release(u) ==
  /\ Exited(u)
  /\ tomb[u] = owner[u]
  /\ life' = [life EXCEPT ![owner[u]] = "gone"]
  /\ owner' = [owner EXCEPT ![u] = 0]
  /\ promised' = promised \ {u}
  /\ UNCHANGED tomb

\* A session that failed before it was promised is killed.
Abandon(u) ==
  /\ Owned(u)
  /\ u \notin promised
  /\ life' = [life EXCEPT ![owner[u]] = "gone"]
  /\ owner' = [owner EXCEPT ![u] = 0]
  /\ UNCHANGED <<promised, tomb>>

Next ==
  \/ \E u \in Uid, i \in Inc : Start(u, i)
  \/ \E i \in Inc : StillBorn(i) \/ Exit(i)
  \/ \E u \in Uid : Promise(u) \/ Release(u) \/ Abandon(u)
  \/ \E S \in SUBSET Uid : Record(S)

Spec == Init /\ [][Next]_custodyVars
=============================================================================
