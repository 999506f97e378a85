--------------------------- MODULE HolderBrainProofs ---------------------------
(***************************************************************************)
(* For every set of uids and request handlers, every number of             *)
(* incarnations, generations and frames, and every set of faults: the      *)
(* brain's half of the holder protocol never sees an exit it did not       *)
(* subscribe to, and no late or failing step hurts a live session.         *)
(***************************************************************************)
EXTENDS HolderBrain, HolderTableProofs

(* What becomes of the elements of a queue.                                *)

Shorter(q, r) ==
  Len(r) + 1 = Len(q) /\ \A k \in 1..Len(r) : k + 1 \in 1..Len(q) /\ r[k] = q[k + 1]

Longer(q, r, x) ==
  /\ Len(r) = Len(q) + 1 /\ Len(q) \in Nat
  /\ r[Len(r)] = x
  /\ \A k \in 1..Len(r) : k # Len(r) => k \in 1..Len(q) /\ r[k] = q[k]

\* The senders in S are forgotten, nothing else changes.
Muted(q, r, S) ==
  /\ Len(r) = Len(q)
  /\ \A k \in 1..Len(r) : /\ r[k].verb = q[k].verb /\ r[k].uid = q[k].uid /\ r[k].inc = q[k].inc
                          /\ r[k].from = IF q[k].from \in S THEN Nobody ELSE q[k].from

\* The first element of a queue and what is left after it.
LEMMA TailElements ==
  ASSUME NEW S, NEW q \in Seq(S), q # <<>>
  PROVE  /\ Head(q) \in S /\ Head(q) = q[1] /\ 1 \in 1..Len(q)
         /\ Tail(q) \in Seq(S) /\ Shorter(q, Tail(q))
  BY DEF Shorter

\* A queue that grew by one element.
LEMMA AppendElements ==
  ASSUME NEW S, NEW q \in Seq(S), NEW x \in S
  PROVE  Append(q, x) \in Seq(S) /\ Longer(q, Append(q, x), x)
  BY DEF Longer

\* A push of one frame.
LEMMA PushOne ==
  ASSUME NEW S, NEW q \in Seq(S), NEW x \in S
  PROVE  Longer(q, q \o <<x>>, x)
<1>1. <<x>> \in Seq(S) /\ Len(<<x>>) = 1 /\ <<x>>[1] = x
  OBVIOUS
<1> QED BY <1>1 DEF Longer

\* A push of two frames is two pushes of one.
LEMMA PushTwo ==
  ASSUME NEW S, NEW q \in Seq(S), NEW x \in S, NEW y \in S
  PROVE  /\ Longer(q, q \o <<x>>, x) /\ q \o <<x>> \in Seq(S)
         /\ Longer(q \o <<x>>, q \o <<x, y>>, y)
<1>1. /\ <<x>> \in Seq(S) /\ Len(<<x>>) = 1 /\ <<x>>[1] = x
      /\ <<x, y>> \in Seq(S) /\ Len(<<x, y>>) = 2 /\ <<x, y>>[1] = x /\ <<x, y>>[2] = y
  OBVIOUS
<1> QED BY <1>1 DEF Longer

\* One frame, its sender forgotten.
LEMMA MuteRequest ==
  ASSUME NEW x \in Request
  PROVE  LET y == [x EXCEPT !.from = Nobody] IN
         y \in Request /\ y.verb = x.verb /\ y.uid = x.uid /\ y.inc = x.inc /\ y.from = Nobody
  BY DEF Request

\* One frame, its sender forgotten: the result is still there.
LEMMA MuteFrame ==
  ASSUME NEW x \in Frame
  PROVE  LET y == [x EXCEPT !.from = Nobody] IN
         /\ y \in Frame /\ y.verb = x.verb /\ y.uid = x.uid /\ y.inc = x.inc /\ y.from = Nobody
         /\ y.ok = x.ok
  BY DEF Frame

\* Muting a sender changes neither the length nor any other field (drop of the
\* reply slot after REPLY_TIMEOUT).
LEMMA DeafRequests ==
  ASSUME NEW S, NEW q \in Seq(Request)
  PROVE  Muted(q, Deaf(q, S), S) /\ Deaf(q, S) \in Seq(Request)
<1> DEFINE d(k) == IF q[k].from \in S THEN [q[k] EXCEPT !.from = Nobody] ELSE q[k]
<1>1. Len(q) \in Nat /\ DOMAIN q = 1..Len(q) /\ \A k \in 1..Len(q) : q[k] \in Request
  OBVIOUS
<1>2. ASSUME NEW k \in 1..Len(q)
      PROVE  /\ d(k).verb = q[k].verb /\ d(k).uid = q[k].uid /\ d(k).inc = q[k].inc
             /\ d(k).from = IF q[k].from \in S THEN Nobody ELSE q[k].from
             /\ d(k) \in Request
  BY <1>1, MuteRequest
<1>3. Deaf(q, S) = [k \in 1..Len(q) |-> d(k)]
  BY <1>1 DEF Deaf
<1> HIDE DEF d
<1>4. Len(Deaf(q, S)) = Len(q) /\ \A k \in 1..Len(q) : Deaf(q, S)[k] = d(k)
  BY <1>1, <1>3
<1>5. Deaf(q, S) \in Seq(Request)
  BY <1>1, <1>2, <1>3
<1> QED BY <1>2, <1>4, <1>5 DEF Muted

\* Muting the receivers of the frames changes no result either.
LEMMA DeafFrames ==
  ASSUME NEW S, NEW q \in Seq(Frame)
  PROVE  /\ Muted(q, Deaf(q, S), S) /\ Deaf(q, S) \in Seq(Frame)
         /\ \A k \in 1..Len(q) : Deaf(q, S)[k].ok = q[k].ok
<1> DEFINE d(k) == IF q[k].from \in S THEN [q[k] EXCEPT !.from = Nobody] ELSE q[k]
<1>1. Len(q) \in Nat /\ DOMAIN q = 1..Len(q) /\ \A k \in 1..Len(q) : q[k] \in Frame
  OBVIOUS
<1>2. ASSUME NEW k \in 1..Len(q)
      PROVE  /\ d(k).verb = q[k].verb /\ d(k).uid = q[k].uid /\ d(k).inc = q[k].inc
             /\ d(k).from = IF q[k].from \in S THEN Nobody ELSE q[k].from
             /\ d(k).ok = q[k].ok /\ d(k) \in Frame
  BY <1>1, MuteFrame
<1>3. Deaf(q, S) = [k \in 1..Len(q) |-> d(k)]
  BY <1>1 DEF Deaf
<1> HIDE DEF d
<1>4. Len(Deaf(q, S)) = Len(q) /\ \A k \in 1..Len(q) : Deaf(q, S)[k] = d(k)
  BY <1>1, <1>3
<1>5. Deaf(q, S) \in Seq(Frame)
  BY <1>1, <1>2, <1>3
<1> QED BY <1>2, <1>4, <1>5 DEF Muted

-----------------------------------------------------------------------------
(* The brain's steps as the holder sees them, and type correctness.        *)

\* Whoever acts knows its session.
Named ==
  /\ \A c \in Caller : op[c].pc # "idle" => op[c].uid \in Uid
  /\ \A i \in Inc : obs[i].pc # "none" => obs[i].uid \in Uid

TypeInv == TypeOK /\ BrainTypeOK /\ Named

\* One client step on an open channel: it may send one request, receive one
\* frame, and stop waiting for replies.
ClientStep ==
  /\ chan = "open"
  /\ UNCHANGED holderVars
  /\ \/ UNCHANGED toHolder
     \/ \E m \in Request : toHolder' = Append(toHolder, m)
     \/ \E S \in SUBSET From : toHolder' = Deaf(toHolder, S)
  /\ \/ UNCHANGED toBrain
     \/ toBrain # <<>> /\ toBrain' = Tail(toBrain)
     \/ \E S \in SUBSET From : toBrain' = Deaf(toBrain, S)

\* The requests the brain makes are requests of the channel.
LEMMA ReqType ==
  ASSUME NEW u \in Uid, NEW i \in 0..MaxInc, NEW f \in From \cup {Nobody}
  PROVE  /\ \A v \in Verbs : Req(v, u, i, f) \in Request
         /\ AbortReq(u, i) \in Request
         /\ Req("spawn", u, 0, f) \in Request
<1>1. "abort_spawn" \in Verbs /\ "spawn" \in Verbs /\ 0 \in 0..MaxInc
  BY TableAssumption DEF Verbs
<1> QED BY <1>1 DEF Req, AbortReq, Request

\* The brain is one of the clients of module HolderTable, but for the bound on
\* the frames in flight: every composed step is a step of the table's module,
\* or a client step.
LEMMA TableOrClient ==
  ASSUME TypeInv, [BrainNext]_vars
  PROVE  [Next]_tableVars \/ ClientStep
<1>0. /\ \A c \in Caller : /\ c \in From /\ {c} \in SUBSET From
                           /\ op[c].pc # "idle" => op[c].uid \in Uid
                           /\ op[c].inc \in 0..MaxInc
      /\ \A i \in Inc : (obs[i].pc # "none" => obs[i].uid \in Uid) /\ i \in 0..MaxInc
      /\ \A u \in Uid : todo[u].inc \in 0..MaxInc
      /\ Observer \in From /\ {Observer} \in SUBSET From
      /\ {"spawn", "arm_reap", "ack_exit", "forget"} \subseteq Verbs
  BY BrainAssumption DEF TypeInv, BrainTypeOK, Named, Inc, Verbs
<1>1. CASE HolderStep \/ EofStep \/ BrainUp \/ BrainCrash \/ StopAll
           \/ (\E u \in Uid : SeeExitStep(u)) \/ (\E i \in Inc : ExitStep(i))
  BY <1>1 DEF HolderStep, EofStep, BrainUp, BrainCrash, StopAll, SeeExitStep, ExitStep,
              Next, HolderDispatch, HolderLoop
<1>2. CASE BootStep
  <2>1. CASE FetchBoot \/ AdoptDone \/ RestoreDone
    BY <2>1 DEF FetchBoot, AdoptDone, RestoreDone, tableVars
  <2>2. ASSUME NEW u \in Uid, AdoptForget(u) \/ AdoptAbort(u) \/ AdoptOne(u)
        PROVE  ClientStep
    <3>1. /\ Req("forget", u, todo[u].inc, Nobody) \in Request
          /\ AbortReq(u, todo[u].inc) \in Request
          /\ Req("arm_reap", u, todo[u].inc, Nobody) \in Request
      BY <1>0, ReqType
    <3> QED BY <2>2, <3>1 DEF AdoptForget, AdoptAbort, AdoptOne, Reconcile, Alive, Send,
                              ClientStep
  <2>3. ASSUME NEW u \in Uid, AdoptSkip(u) \/ RestoreSkip(u)
        PROVE  UNCHANGED tableVars
    BY <2>3 DEF AdoptSkip, RestoreSkip
  <2> QED BY <1>2, <2>1, <2>2, <2>3 DEF BootStep
<1>3. CASE RouteExit \/ DropReply
  BY <1>3 DEF RouteExit, DropReply, ReplyTo, ClientStep, holderVars
<1>4. ASSUME NEW i \in Inc, ObserverStep(i) \/ AckTimeout(i)
      PROVE  ClientStep \/ UNCHANGED tableVars
  <2>1. CASE OnExit(i)
    BY <2>1 DEF OnExit, holderVars, tableVars
  <2>2. CASE Settle(i)
    <3>1. Req("ack_exit", obs[i].uid, i, Observer) \in Request
      BY <1>0, <2>2, ReqType DEF Settle
    <3> QED BY <2>2, <3>1 DEF Settle, Send, ClientStep
  <2>3. CASE Acked(i)
    <3>1. Req("forget", obs[i].uid, i, Nobody) \in Request
      BY <1>0, <2>3, ReqType DEF Acked
    <3> QED BY <2>3, <3>1 DEF Acked, ReplyTo, Send, ClientStep
  <2>4. CASE AckTimeout(i)
    BY <1>0, <2>4 DEF AckTimeout, ClientStep
  <2> QED BY <1>4, <2>1, <2>2, <2>3, <2>4 DEF ObserverStep
<1>5. ASSUME NEW c \in Caller, CallerStep(c) \/ OpTimeout(c) \/ \E u \in Uid : StartOp(c, u)
      PROVE  ClientStep
  <2>1. ASSUME NEW u \in Uid, StartOp(c, u)
        PROVE  ClientStep
    <3>1. Req("spawn", u, 0, c) \in Request
      <4>1. 0 \in 0..MaxInc /\ c \in From \cup {Nobody}
        BY <1>0, TableAssumption
      <4> QED BY <4>1, ReqType
    <3> QED BY <2>1, <3>1 DEF StartOp, Alive, Send, ClientStep
  <2>2. CASE SpawnReply(c) \/ ArmReply(c)
    BY <2>2 DEF SpawnReply, ArmReply, ReplyTo, ClientStep
  <2>3. CASE DropPending(c) \/ InsertAndArm(c) \/ RemoveUnarmed(c)
    <3>1. /\ op[c].uid \in Uid /\ op[c].inc \in 0..MaxInc /\ c \in From \cup {Nobody}
          /\ "arm_reap" \in Verbs
      BY <1>0, <2>3 DEF DropPending, InsertAndArm, RemoveUnarmed
    <3>2. /\ AbortReq(op[c].uid, op[c].inc) \in Request
          /\ Req("arm_reap", op[c].uid, op[c].inc, c) \in Request
      BY <3>1, ReqType
    <3> QED BY <2>3, <3>2 DEF DropPending, InsertAndArm, RemoveUnarmed, Send, ClientStep
  <2>4. CASE OpTimeout(c)
    BY <1>0, <2>4 DEF OpTimeout, ClientStep
  <2> QED BY <1>5, <2>1, <2>2, <2>3, <2>4 DEF CallerStep
<1>6. CASE UNCHANGED vars
  BY <1>6 DEF vars, tableVars
<1> QED BY <1>1, <1>2, <1>3, <1>4, <1>5, <1>6 DEF BrainNext

\* A client step on the channel keeps custody and the truth of the events in
\* flight: it makes none.
LEMMA ClientKeeps ==
  ASSUME EventInv, ClientStep
  PROVE  EventInv'
<1>1. TypeOK /\ CustodyInv /\ OnlyOpenTalks /\ EventsAreTrue /\ toBrain \in Seq(Frame)
      /\ toHolder \in Seq(Request)
  BY DEF EventInv, CustodyInv, TypeOK
<1>2. UNCHANGED <<sess, nextInc, split, epoch, chan, child>> /\ chan = "open"
  BY DEF ClientStep, holderVars
<1>3. toHolder' \in Seq(Request)
  <2>1. CASE UNCHANGED toHolder
    BY <1>1, <2>1
  <2>2. ASSUME NEW m \in Request, toHolder' = Append(toHolder, m)
        PROVE  toHolder' \in Seq(Request)
    BY <1>1, <2>2
  <2>3. ASSUME NEW S \in SUBSET From, toHolder' = Deaf(toHolder, S)
        PROVE  toHolder' \in Seq(Request)
    BY <1>1, <2>3, DeafRequests
  <2> QED BY <2>1, <2>2, <2>3 DEF ClientStep
<1>4. /\ toBrain' \in Seq(Frame)
      /\ \A k \in 1..Len(toBrain') : \E j \in 1..Len(toBrain) :
           /\ toBrain'[k].verb = toBrain[j].verb
           /\ toBrain'[k].inc = toBrain[j].inc /\ toBrain'[k].uid = toBrain[j].uid
  <2>1. CASE UNCHANGED toBrain
    BY <1>1, <2>1
  <2>2. CASE toBrain # <<>> /\ toBrain' = Tail(toBrain)
    BY <1>1, <2>2, TailElements DEF Shorter
  <2>3. ASSUME NEW S \in SUBSET From, toBrain' = Deaf(toBrain, S)
        PROVE  <1>4!1 /\ <1>4!2
    BY <1>1, <2>3, DeafFrames DEF Muted
  <2> QED BY <2>1, <2>2, <2>3 DEF ClientStep
<1>5. TypeOK'
  BY <1>1, <1>2, <1>3, <1>4 DEF TypeOK
<1>6. CustodyInv'
  BY <1>1, <1>2, <1>5, TableUntouched DEF Serving
<1>7. EventsAreTrue'
  BY <1>1, <1>2, <1>4 DEF EventsAreTrue
<1> QED BY <1>2, <1>6, <1>7 DEF EventInv, OnlyOpenTalks

\* Every step of the composed system keeps the table's invariants.
LEMMA TableStep ==
  ASSUME EventInv, TypeInv, [BrainNext]_vars
  PROVE  EventInv'
  BY EventStep, ClientKeeps, TableOrClient

\* Every step keeps the brain's variables in their types.
LEMMA BrainTypeStep ==
  ASSUME TypeInv, [BrainNext]_vars
  PROVE  BrainTypeOK' /\ Named'
<1> USE DEF TypeInv, BrainTypeOK, Named
<1>0. /\ Idle.pc = "idle" /\ Idle \in [pc : {"idle", "spawning", "spawned", "arming", "armfailed"},
                                       uid : Uid \cup {"none"}, inc : 0..MaxInc]
      /\ Unwatched.pc = "none" /\ Unwatched \in [pc : {"none", "waiting", "got", "exited", "acking", "done"},
                                                 uid : Uid \cup {"none"}]
      /\ NoRecord \in [inc : 0..MaxInc, settled : BOOLEAN]
      /\ NoTomb \in [kind : {"none", "exit", "lost"}, inc : 0..MaxInc]
      /\ [kind |-> "lost", inc |-> 0] \in [kind : {"none", "exit", "lost"}, inc : 0..MaxInc]
      /\ 0 \in 0..MaxInc /\ \A i \in Inc : i \in 0..MaxInc
  BY TableAssumption DEF Idle, Unwatched, NoRecord, NoTomb, Inc
<1>p. PersistRegistry => regFile' \subseteq Uid
  BY DEF PersistRegistry, Live
<1>1. CASE HolderStep \/ EofStep \/ (\E u \in Uid : SeeExitStep(u)) \/ (\E i \in Inc : ExitStep(i))
  BY <1>1 DEF HolderStep, EofStep, SeeExitStep, ExitStep, brainVars
<1>2. CASE BrainUp
  BY <1>2 DEF BrainUp
<1>3. CASE BrainCrash
  BY <1>0, <1>3 DEF BrainCrash, PersistBeforeExit, Live
<1>4. CASE StopAll
  BY <1>4 DEF StopAll, PersistBeforeExit, Live
<1>5. CASE FetchBoot
  <2>1. \A u \in Uid : sess[u].inc \in 0..MaxInc
    BY DEF TypeOK, Entry
  <2> QED BY <1>5, <2>1 DEF FetchBoot
<1>6. CASE AdoptDone
  <2>1. /\ memTomb' \in [Uid -> [kind : {"none", "exit", "lost"}, inc : 0..MaxInc]]
        /\ tombFile' \in [Uid -> [kind : {"none", "exit", "lost"}, inc : 0..MaxInc]]
        /\ regFile' \subseteq Uid /\ backlog' \subseteq Uid
    BY <1>0, <1>6, <1>p DEF AdoptDone
  <2> QED BY <1>6, <2>1 DEF AdoptDone
<1>7. CASE RestoreDone
  BY <1>7, <1>p DEF RestoreDone
<1>8. ASSUME NEW u \in Uid,
             AdoptForget(u) \/ AdoptSkip(u) \/ AdoptAbort(u) \/ AdoptOne(u) \/ RestoreSkip(u)
      PROVE  BrainTypeOK' /\ Named'
  <2>1. CASE AdoptForget(u) \/ AdoptSkip(u) \/ AdoptAbort(u)
    <3>1. /\ todo' = [todo EXCEPT ![u] = NoRecord]
          /\ UNCHANGED <<phase, op, reg, obs, parked, backlog, memTomb, tombFile, regFile>>
      BY <2>1 DEF AdoptForget, AdoptSkip, AdoptAbort, Reconcile
    <3>2. todo' \in [Uid -> [inc : 0..MaxInc, settled : BOOLEAN]]
      BY <1>0, <3>1
    <3> QED BY <3>1, <3>2
  <2>2. CASE AdoptOne(u)
    BY <1>0, <2>2 DEF AdoptOne, Reconcile
  <2>3. CASE RestoreSkip(u)
    BY <2>3 DEF RestoreSkip
  <2> QED BY <1>8, <2>1, <2>2, <2>3
<1>9. CASE RouteExit
  <2>1. /\ UNCHANGED <<phase, op, reg, todo, backlog, memTomb, tombFile, regFile>>
        /\ parked' \in BOOLEAN
        /\ obs' = obs \/ \E i : obs' = [obs EXCEPT ![i].pc = "got"] /\ obs[i].pc = "waiting"
    BY <1>9 DEF RouteExit
  <2>2. ASSUME NEW i, obs' = [obs EXCEPT ![i].pc = "got"], obs[i].pc = "waiting"
        PROVE  /\ obs' \in [Inc -> [pc : {"none", "waiting", "got", "exited", "acking", "done"},
                                   uid : Uid \cup {"none"}]]
               /\ \A j \in Inc : obs'[j].pc # "none" => obs'[j].uid \in Uid
    <3>1. CASE i \in Inc
      BY <2>2, <3>1
    <3>2. CASE i \notin Inc
      <4>1. obs' = obs
        BY <2>2, <3>2
      <4> QED BY <4>1
    <3> QED BY <3>1, <3>2
  <2> QED BY <2>1, <2>2
<1>10. CASE DropReply
  BY <1>10 DEF DropReply, brainVars
<1>11. ASSUME NEW i \in Inc, OnExit(i)
       PROVE  BrainTypeOK' /\ Named'
  <2>1. ExitRecord(i, obs[i].uid) \in [kind : {"none", "exit", "lost"}, inc : 0..MaxInc]
    BY <1>0 DEF ExitRecord
  <2>2. reg' \in [Uid -> 0..MaxInc]
    BY <1>0, <1>11 DEF OnExit, Delisted
  <2> QED BY <1>11, <1>p, <2>1, <2>2 DEF OnExit
<1>12. ASSUME NEW i \in Inc, Settle(i) \/ Acked(i) \/ AckTimeout(i)
       PROVE  BrainTypeOK' /\ Named'
  <2>1. /\ UNCHANGED <<phase, op, reg, parked, todo, backlog, memTomb, regFile>>
        /\ tombFile' \in {tombFile, memTomb}
        /\ obs[i].pc # "none"
        /\ obs' = [obs EXCEPT ![i].pc = "acking"] \/ obs' = [obs EXCEPT ![i].pc = "done"]
    BY <1>12 DEF Settle, SaveTombs, Acked, AckTimeout
  <2>2. /\ obs' \in [Inc -> [pc : {"none", "waiting", "got", "exited", "acking", "done"},
                             uid : Uid \cup {"none"}]]
        /\ \A j \in Inc : obs'[j].pc # "none" => obs'[j].uid \in Uid
    <3>1. CASE obs' = [obs EXCEPT ![i].pc = "acking"]
      BY <2>1, <3>1
    <3>2. CASE obs' = [obs EXCEPT ![i].pc = "done"]
      BY <2>1, <3>2
    <3> QED BY <2>1, <3>1, <3>2
  <2> QED BY <2>1, <2>2
<1>13. ASSUME NEW c \in Caller, \E u \in Uid : StartOp(c, u)
       PROVE  BrainTypeOK' /\ Named'
  <2>1. PICK u \in Uid : StartOp(c, u)
    BY <1>13
  <2>2. /\ op' = [op EXCEPT ![c] = [pc |-> "spawning", uid |-> u, inc |-> 0]]
        /\ backlog' \in {backlog, backlog \ {u}}
        /\ UNCHANGED <<phase, reg, obs, parked, todo, memTomb, tombFile, regFile>>
    BY <2>1 DEF StartOp
  <2>3. /\ op' \in [Caller -> [pc : {"idle", "spawning", "spawned", "arming", "armfailed"},
                              uid : Uid \cup {"none"}, inc : 0..MaxInc]]
        /\ \A d \in Caller : op'[d].pc # "idle" => op'[d].uid \in Uid
    BY <1>0, <2>2
  <2> QED BY <2>2, <2>3
<1>14. ASSUME NEW c \in Caller, SpawnReply(c)
       PROVE  BrainTypeOK' /\ Named'
  <2>1. Head(toBrain).inc \in 0..MaxInc
    <3>1. toBrain \in Seq(Frame) /\ toBrain # <<>>
      BY <1>14 DEF SpawnReply, ReplyTo, TypeOK
    <3>2. Head(toBrain) \in Frame
      BY <3>1, TailElements
    <3> QED BY <3>2 DEF Frame
  <2> QED BY <1>0, <1>14, <2>1 DEF SpawnReply, SpawnOutcome
<1>15. ASSUME NEW c \in Caller, DropPending(c) \/ RemoveUnarmed(c) \/ ArmReply(c) \/ OpTimeout(c)
       PROVE  BrainTypeOK' /\ Named'
  <2>1. CASE DropPending(c)
    BY <1>0, <2>1 DEF DropPending
  <2>2. CASE RemoveUnarmed(c)
    BY <1>0, <1>p, <2>2 DEF RemoveUnarmed, Delisted
  <2>3. CASE ArmReply(c)
    BY <1>0, <2>3 DEF ArmReply
  <2>4. CASE OpTimeout(c)
    BY <1>0, <2>4 DEF OpTimeout
  <2> QED BY <1>15, <2>1, <2>2, <2>3, <2>4
<1>16. ASSUME NEW c \in Caller, InsertAndArm(c)
       PROVE  BrainTypeOK' /\ Named'
  BY <1>0, <1>16, <1>p DEF InsertAndArm
<1>17. CASE UNCHANGED vars
  BY <1>17 DEF vars
<1> QED BY <1>1, <1>2, <1>3, <1>4, <1>5, <1>6, <1>7, <1>8, <1>9, <1>10, <1>11, <1>12,
           <1>13, <1>14, <1>15, <1>16, <1>17
        DEF BrainNext, BootStep, ObserverStep, CallerStep

-----------------------------------------------------------------------------
(* The inductive invariant.                                                *)

\* A generation that has done nothing yet.
Pristine ==
  /\ op = [c \in Caller |-> Idle]
  /\ reg = [u \in Uid |-> 0]
  /\ obs = [i \in Inc |-> Unwatched]
  /\ todo = [u \in Uid |-> NoRecord]

\* A dead brain has forgotten everything but the files, and what it sent is
\* read only until the end of the stream.
AbortsNamed == \A k \in 1..Len(toHolder) : toHolder[k].verb = "abort_spawn" => toHolder[k].inc \in Inc

Gone ==
  /\ chan \in {"closed", "down", "migrated"} => Pristine
  /\ chan = "closed" => AbortsNamed
  /\ chan \notin {"open", "closed"} => toHolder = <<>>

\* Until it fetches what the holder holds a new brain is silent, and so is the
\* holder: no session is ready for this generation.
BootQuiet ==
  phase = "booting" =>
    /\ Pristine
    /\ toHolder = <<>> /\ toBrain = <<>>
    /\ \A u \in Uid : ~sess[u].ready

\* A frame in flight that a request handler waits for is the one it asked for.
Asked(o, m) ==
  /\ m.uid = o.uid
  /\ \/ o.pc = "spawning" /\ m.verb = "spawn"
     \/ o.pc = "arming" /\ m.verb = "arm_reap"

\* Each handler has at most one request or reply in flight.
CallersHeard ==
  /\ \A k \in 1..Len(toHolder) : toHolder[k].from \in Caller => Asked(op[toHolder[k].from], toHolder[k])
  /\ \A k \in 1..Len(toBrain) : toBrain[k].from \in Caller => Asked(op[toBrain[k].from], toBrain[k])
  /\ \A j, k \in 1..Len(toHolder) :
       toHolder[j].from \in Caller /\ toHolder[j].from = toHolder[k].from => j = k
  /\ \A j, k \in 1..Len(toBrain) :
       toBrain[j].from \in Caller /\ toBrain[j].from = toBrain[k].from => j = k
  /\ \A j \in 1..Len(toHolder), k \in 1..Len(toBrain) :
       toHolder[j].from \in Caller => toHolder[j].from # toBrain[k].from

\* Who may still put an incarnation on the list of sessions: a handler that
\* holds it or is about to be told of it, and the boot thread.
FrameClaims(k) == toBrain[k].from \in Caller /\ toBrain[k].verb = "spawn" /\ toBrain[k].ok
OpClaims(c)    == op[c].pc = "spawned"
TodoClaims(u)  == todo[u].inc # 0

NoAbort(i) == \A k \in 1..Len(toHolder) : toHolder[k].verb = "abort_spawn" => toHolder[k].inc # i

\* What is claimed was minted, is not watched yet, and nobody aborts it.
Claimable(i) == i \in Inc /\ i < nextInc /\ obs[i].pc = "none" /\ NoAbort(i)

ClaimsSound ==
  /\ \A k \in 1..Len(toBrain) : FrameClaims(k) => Claimable(toBrain[k].inc)
  /\ \A c \in Caller : OpClaims(c) => Claimable(op[c].inc)
  /\ \A u \in Uid : TodoClaims(u) => Claimable(todo[u].inc)

\* No incarnation is claimed twice.
ClaimsApart ==
  /\ \A j, k \in 1..Len(toBrain) :
       FrameClaims(j) /\ FrameClaims(k) /\ toBrain[j].inc = toBrain[k].inc => j = k
  /\ \A c, d \in Caller : OpClaims(c) /\ OpClaims(d) /\ op[c].inc = op[d].inc => c = d
  /\ \A u, v \in Uid : TodoClaims(u) /\ TodoClaims(v) /\ todo[u].inc = todo[v].inc => u = v
  /\ \A k \in 1..Len(toBrain), c \in Caller :
       FrameClaims(k) /\ OpClaims(c) => toBrain[k].inc # op[c].inc
  /\ \A k \in 1..Len(toBrain), u \in Uid :
       FrameClaims(k) /\ TodoClaims(u) => toBrain[k].inc # todo[u].inc
  /\ \A c \in Caller, u \in Uid : OpClaims(c) /\ TodoClaims(u) => op[c].inc # todo[u].inc

\* What is listed is watched, under its uid; what is being aborted is not listed.
WatchSound ==
  /\ \A i \in Inc : obs[i].pc # "none" => i < nextInc
  /\ \A u \in Uid : reg[u] # 0 => obs[reg[u]].pc # "none" /\ obs[reg[u]].uid = u
  /\ \A c \in Caller : op[c].pc \in {"arming", "armfailed"} =>
       op[c].inc \in Inc /\ obs[op[c].inc].pc # "none" /\ obs[op[c].inc].uid = op[c].uid
  /\ \A k \in 1..Len(toHolder) : toHolder[k].verb = "abort_spawn" =>
       /\ toHolder[k].inc \in Inc /\ toHolder[k].inc < nextInc
       /\ \A u \in Uid : reg[u] # toHolder[k].inc

\* An exit event and the request that unlocks it find their subscription
\* waiting, and there is only one of them for an incarnation.
Waiting(i, u) == i \in Inc /\ obs[i].pc = "waiting" /\ obs[i].uid = u

ArmsWait ==
  \A k \in 1..Len(toHolder) : toHolder[k].verb = "arm_reap" =>
    /\ Waiting(toHolder[k].inc, toHolder[k].uid)
    /\ sess[toHolder[k].uid].inc = toHolder[k].inc => ~sess[toHolder[k].uid].ready
    /\ \A j \in 1..Len(toBrain) :
         toBrain[j].verb = "exit_event" => toBrain[j].inc # toHolder[k].inc
    /\ \A j \in 1..Len(toHolder) :
         toHolder[j].verb = "arm_reap" /\ toHolder[j].inc = toHolder[k].inc => j = k

EventsWait ==
  \A k \in 1..Len(toBrain) : toBrain[k].verb = "exit_event" =>
    /\ Waiting(toBrain[k].inc, toBrain[k].uid)
    /\ \A j \in 1..Len(toBrain) :
         toBrain[j].verb = "exit_event" /\ toBrain[j].inc = toBrain[k].inc => j = k

ReadyWatched ==
  \A u \in Uid : Held(u) /\ sess[u].ready =>
    /\ obs[sess[u].inc].pc # "none" /\ obs[sess[u].inc].uid = u
    /\ sess[u].exit = "none" => obs[sess[u].inc].pc = "waiting"

SeenReaped == \A i \in Inc : obs[i].pc \in {"got", "exited", "acking", "done"} => child[i] = "reaped"

\* A tombstone that names an incarnation records the exit of that child.
TombTrue(t) == t.inc # 0 => t.kind = "exit" /\ t.inc \in Inc /\ child[t.inc] = "reaped"
TombsTrue == \A u \in Uid : TombTrue(memTomb[u]) /\ TombTrue(tombFile[u])

OpenInv ==
  /\ BootQuiet /\ CallersHeard /\ ClaimsSound /\ ClaimsApart /\ WatchSound
  /\ ArmsWait /\ EventsWait /\ ReadyWatched /\ SeenReaped

BrainInv ==
  /\ EventInv /\ TypeInv
  /\ ~split /\ ~parked
  /\ Gone /\ TombsTrue
  /\ chan = "open" => OpenInv

-----------------------------------------------------------------------------
(* What one step does to the queues.                                       *)

SameFrame(x, y) ==
  x.verb = y.verb /\ x.uid = y.uid /\ x.inc = y.inc /\ x.from \in {y.from, Nobody}

\* Nothing was added: the queue lost at most its head and some senders.
Kept(q, t) ==
  \E d \in 0..1 : \A k \in 1..Len(t) : k + d \in 1..Len(q) /\ SameFrame(t[k], q[k + d])
KeptOk(q, t) ==
  \E d \in 0..1 : \A k \in 1..Len(t) :
    k + d \in 1..Len(q) /\ SameFrame(t[k], q[k + d]) /\ t[k].ok = q[k + d].ok

\* A handler's reply r was added, and after it, if E, the exit event e.
Pushed(q, t, r, e, E) ==
  /\ Len(q) \in Nat /\ Len(t) = Len(q) + (IF E THEN 2 ELSE 1)
  /\ \A k \in 1..Len(t) : IF k <= Len(q) THEN k \in 1..Len(q) /\ t[k] = q[k]
                          ELSE t[k] = IF k = Len(q) + 1 THEN r ELSE e

\* What the client may do to a queue keeps it.
LEMMA KeptRequests ==
  ASSUME NEW q \in Seq(Request)
  PROVE  /\ Kept(q, q)
         /\ q # <<>> => Kept(q, Tail(q))
         /\ \A S : Kept(q, Deaf(q, S))
<1>1. \A k \in 1..Len(q) : k + 0 = k
  OBVIOUS
<1>2. Kept(q, q)
  BY <1>1 DEF Kept, SameFrame
<1>3. q # <<>> => Kept(q, Tail(q))
  BY TailElements DEF Kept, SameFrame, Shorter
<1>4. ASSUME NEW S
      PROVE  Kept(q, Deaf(q, S))
  BY <1>1, DeafRequests DEF Kept, SameFrame, Muted
<1> QED BY <1>2, <1>3, <1>4

\* The same for the frames, which keep their results as well.
LEMMA KeptFrames ==
  ASSUME NEW q \in Seq(Frame)
  PROVE  /\ KeptOk(q, q)
         /\ q # <<>> => KeptOk(q, Tail(q))
         /\ \A S : KeptOk(q, Deaf(q, S))
<1>1. \A k \in 1..Len(q) : k + 0 = k
  OBVIOUS
<1>2. KeptOk(q, q)
  BY <1>1 DEF KeptOk, SameFrame
<1>3. q # <<>> => KeptOk(q, Tail(q))
  BY TailElements DEF KeptOk, SameFrame, Shorter
<1>4. ASSUME NEW S
      PROVE  KeptOk(q, Deaf(q, S))
  BY <1>1, DeafFrames DEF KeptOk, SameFrame, Muted
<1> QED BY <1>2, <1>3, <1>4

\* A push on an open channel.
LEMMA PushedOne ==
  ASSUME TypeOK, chan = "open", NEW r \in Frame, NEW e, Push(<<r>>)
  PROVE  Pushed(toBrain, toBrain', r, e, FALSE)
<1>1. toBrain \in Seq(Frame) /\ toBrain' = toBrain \o <<r>>
  BY DEF TypeOK, Push
<1>2. Longer(toBrain, toBrain', r)
  BY <1>1, PushOne
<1> QED BY <1>1, <1>2 DEF Longer, Pushed

\* A push of a reply and of the exit event behind it, at an open channel.
LEMMA PushedTwo ==
  ASSUME TypeOK, chan = "open", NEW r \in Frame, NEW e \in Frame, Push(<<r, e>>)
  PROVE  Pushed(toBrain, toBrain', r, e, TRUE)
<1>1. toBrain \in Seq(Frame) /\ toBrain' = toBrain \o <<r, e>>
  BY DEF TypeOK, Push
<1>2. /\ <<r, e>> \in Seq(Frame) /\ Len(<<r, e>>) = 2
      /\ <<r, e>>[1] = r /\ <<r, e>>[2] = e
  OBVIOUS
<1>3. /\ Len(toBrain) \in Nat /\ Len(toBrain') = Len(toBrain) + 2
      /\ \A k \in 1..Len(toBrain') :
           IF k <= Len(toBrain) THEN k \in 1..Len(toBrain) /\ toBrain'[k] = toBrain[k]
           ELSE toBrain'[k] = <<r, e>>[k - Len(toBrain)]
  BY <1>1, <1>2
<1> QED BY <1>2, <1>3 DEF Pushed

\* The request a handler serves, and what it does to the queues: it pops the
\* request, replies to its sender, and announces an exit only to an arm_reap
\* that names the session.
Served(m, r, E) ==
  /\ toHolder # <<>> /\ m = toHolder[1] /\ 1 \in 1..Len(toHolder) /\ m \in Request
  /\ Shorter(toHolder, toHolder')
  /\ r \in Frame
  /\ r.verb = m.verb /\ r.uid = m.uid /\ r.from = m.from
  /\ Pushed(toBrain, toBrain', r, ExitEvent(m.uid), E)
  /\ E => m.verb = "arm_reap" /\ Matches(m) /\ sess'[m.uid].exit # "none"
  /\ m.verb # "spawn" => UNCHANGED nextInc
  /\ r.ok /\ m.verb = "spawn" =>
       r.inc = nextInc /\ nextInc \in Inc /\ nextInc' = nextInc + 1
  /\ nextInc' >= nextInc
  /\ UNCHANGED <<chan, split>>

\* Every handler takes the first request, answers its sender once, mints an
\* incarnation only for a spawn that succeeds, and announces an exit only after
\* an arm_reap (dispatch).
LEMMA HandlerServes ==
  ASSUME EventInv, chan = "open", HolderStep
  PROVE  \E r, E : Served(Head(toHolder), r, E)
<1> DEFINE m == Head(toHolder)
<1>0. TypeOK /\ 0 \in 0..MaxInc /\ nextInc \in Nat /\ nextInc + 1 > nextInc
      /\ toHolder \in Seq(Request) /\ TRUE \in BOOLEAN /\ FALSE \in BOOLEAN
  BY TableAssumption DEF EventInv, CustodyInv, TypeOK
<1>1. ASSUME NEW v, Dispatch(v)
      PROVE  /\ toHolder # <<>> /\ m = toHolder[1] /\ 1 \in 1..Len(toHolder) /\ m \in Request
             /\ Shorter(toHolder, toHolder') /\ m.verb = v /\ m.uid \in Uid /\ m.inc \in 0..MaxInc
             /\ \A i \in 0..MaxInc, b \in BOOLEAN : Reply(m, i, b) \in Frame
  <2>1. toHolder # <<>> /\ toHolder' = Tail(toHolder) /\ m.verb = v
    BY <1>1 DEF Dispatch
  <2>2. m \in Request /\ m = toHolder[1] /\ 1 \in 1..Len(toHolder) /\ Shorter(toHolder, Tail(toHolder))
    BY <1>0, <2>1, TailElements
  <2>3. m.uid \in Uid /\ m.inc \in 0..MaxInc
    BY <2>2 DEF Request
  <2> QED BY <1>0, <1>1, <2>1, <2>2, <2>3, DispatchType
<1>2. \A i, b : /\ Reply(m, i, b).verb = m.verb /\ Reply(m, i, b).uid = m.uid
                /\ Reply(m, i, b).from = m.from /\ Reply(m, i, b).inc = i /\ Reply(m, i, b).ok = b
  BY DEF Reply
<1>3. ASSUME NEW v, NEW i \in 0..MaxInc, NEW b \in BOOLEAN, NEW r, r = Reply(m, i, b),
             Dispatch(v), Push(<<r>>), UNCHANGED <<chan, split>>, nextInc' >= nextInc,
             v # "spawn" => UNCHANGED nextInc,
             v = "spawn" /\ b => i = nextInc /\ nextInc \in Inc /\ nextInc' = nextInc + 1
      PROVE  \E R, E : Served(m, R, E)
  <2>1. /\ toHolder # <<>> /\ m = toHolder[1] /\ 1 \in 1..Len(toHolder) /\ m \in Request
        /\ Shorter(toHolder, toHolder') /\ m.verb = v /\ r \in Frame
    BY <1>1, <1>3
  <2>2. /\ r.verb = m.verb /\ r.uid = m.uid /\ r.from = m.from /\ r.inc = i /\ r.ok = b
    BY <1>2, <1>3
  <2>3. Pushed(toBrain, toBrain', r, ExitEvent(m.uid), FALSE)
    BY <1>0, <1>3, <2>1, PushedOne
  <2>4. r.ok /\ m.verb = "spawn" =>
          r.inc = nextInc /\ nextInc \in Inc /\ nextInc' = nextInc + 1
    BY <1>3, <2>1, <2>2
  <2> HIDE DEF m
  <2>5. Served(m, r, FALSE)
    BY <1>3, <2>1, <2>2, <2>3, <2>4 DEF Served
  <2> QED BY <2>5
<1>4. CASE HandleSpawnOk
  <2>1. /\ Dispatch("spawn") /\ Push(<<Reply(m, nextInc, TRUE)>>) /\ nextInc' = nextInc + 1
        /\ nextInc <= MaxInc /\ UNCHANGED <<chan, split>>
    BY <1>4 DEF HandleSpawnOk
  <2>2. nextInc \in Inc /\ nextInc \in 0..MaxInc /\ nextInc' >= nextInc
    BY <1>0, <2>1, TableAssumption DEF TypeOK, Inc
  <2> QED BY <1>0, <1>3, <2>1, <2>2
<1>5. CASE HandleSpawnErr
  <2>1. /\ Dispatch("spawn") /\ Push(<<Reply(m, 0, FALSE)>>) /\ nextInc' >= nextInc
        /\ UNCHANGED <<chan, split>>
    BY <1>0, <1>5 DEF HandleSpawnErr, Refuse, holderVars
  <2> QED BY <1>0, <1>3, <2>1
<1>6. CASE HandleSpawnTorn
  <2>1. /\ Dispatch("spawn") /\ Push(<<Reply(m, 0, FALSE)>>) /\ nextInc' >= nextInc
        /\ UNCHANGED <<chan, split>>
    BY <1>0, <1>6 DEF HandleSpawnTorn, Refuse
  <2> QED BY <1>0, <1>3, <2>1
<1>7. CASE HandleArmReap
  <2> DEFINE ok == Reply(m, m.inc, TRUE)
             e == [sess[m.uid] EXCEPT !.armed = TRUE, !.ready = TRUE]
  <2>1. /\ Dispatch("arm_reap") /\ UNCHANGED <<chan, split, nextInc>>
        /\ \/ Push(<<Reply(m, 0, FALSE)>>) \/ Push(<<ok>>)
           \/ /\ Matches(m) /\ Push(<<ok, ExitEvent(m.uid)>>)
              /\ \/ sess' = [sess EXCEPT ![m.uid] = Consumed(e)]
                 \/ sess' = [sess EXCEPT ![m.uid] = e] /\ e.exit = "pending"
    BY <1>7 DEF HandleArmReap, Refuse
  <2>2. CASE Push(<<Reply(m, 0, FALSE)>>) \/ Push(<<ok>>)
    <3>1. m.inc \in 0..MaxInc /\ nextInc' >= nextInc /\ UNCHANGED nextInc
      BY <1>0, <1>1, <2>1
    <3> QED BY <1>0, <1>3, <2>1, <2>2, <3>1
  <2>3. CASE /\ Matches(m) /\ Push(<<ok, ExitEvent(m.uid)>>)
             /\ \/ sess' = [sess EXCEPT ![m.uid] = Consumed(e)]
                \/ sess' = [sess EXCEPT ![m.uid] = e] /\ e.exit = "pending"
    <3>1. m.uid \in Uid /\ ok \in Frame /\ ExitEvent(m.uid) \in Frame
      BY <1>0, <1>1, <2>1, ExitEventType
    <3>2. Pushed(toBrain, toBrain', ok, ExitEvent(m.uid), TRUE)
      BY <1>0, <2>3, <3>1, PushedTwo
    <3>3. Consumed(e).exit = "pending"
      BY <1>0, <3>1 DEF TypeOK, Entry, Consumed
    <3>4. sess'[m.uid] = Consumed(e) \/ (sess'[m.uid] = e /\ e.exit = "pending")
      BY <1>0, <2>3, <3>1 DEF TypeOK
    <3>5. sess'[m.uid].exit # "none"
      BY <3>3, <3>4
    <3>6. /\ toHolder # <<>> /\ m = toHolder[1] /\ 1 \in 1..Len(toHolder) /\ m \in Request
          /\ Shorter(toHolder, toHolder') /\ m.verb = "arm_reap"
      BY <1>1, <2>1
    <3>8. ok.verb = m.verb /\ ok.uid = m.uid /\ ok.from = m.from
      BY <1>2
    <3>9. nextInc' >= nextInc
      BY <1>0, <2>1
    <3> HIDE DEF m, ok, e
    <3>7. Served(m, ok, TRUE)
      BY <2>1, <2>3, <3>1, <3>2, <3>5, <3>6, <3>8, <3>9 DEF Served
    <3> QED BY <3>7 DEF m
  <2> QED BY <2>1, <2>2, <2>3
<1>8. CASE HandleAbortSpawn \/ HandleAckExit \/ HandleForget
  <2>1. /\ \/ Dispatch("abort_spawn") \/ Dispatch("ack_exit") \/ Dispatch("forget")
        /\ UNCHANGED <<chan, split, nextInc>>
        /\ Push(<<Reply(m, 0, FALSE)>>) \/ Push(<<Reply(m, m.inc, TRUE)>>)
    BY <1>8 DEF HandleAbortSpawn, HandleAckExit, HandleForget, Refuse
  <2>2. m.inc \in 0..MaxInc /\ nextInc' >= nextInc
    BY <1>0, <1>1, <2>1
  <2>3. /\ "abort_spawn" # "spawn" /\ "ack_exit" # "spawn" /\ "forget" # "spawn"
        /\ UNCHANGED <<chan, split>>
    BY <2>1
  <2>4. \E v : Dispatch(v) /\ v # "spawn"
    BY <2>1, <2>3
  <2> QED BY <1>0, <1>3, <2>1, <2>2, <2>3, <2>4
<1> QED BY <1>4, <1>5, <1>6, <1>7, <1>8 DEF HolderStep

-----------------------------------------------------------------------------
(* Handlers hear what they asked for.                                      *)

\* Nothing from or to c is in flight.
Silent(c) ==
  /\ \A k \in 1..Len(toHolder) : toHolder[k].from # c
  /\ \A k \in 1..Len(toBrain) : toBrain[k].from # c

\* A handler that waits for nothing has nothing in flight.
LEMMA IdleSilent ==
  ASSUME CallersHeard, NEW c \in Caller, op[c].pc \notin {"spawning", "arming"}
  PROVE  Silent(c)
  BY DEF CallersHeard, Asked, Silent

\* Receiving and giving up keep it, if a handler changes only with nothing
\* left in flight.
LEMMA CallersKeep ==
  ASSUME CallersHeard, Kept(toHolder, toHolder'), Kept(toBrain, toBrain'),
         \A c \in Caller : op'[c] = op[c] \/ Silent(c)'
  PROVE  CallersHeard'
<1>0. Nobody \notin Caller
  BY TableAssumption, BrainAssumption
<1>1. PICK d \in 0..1 : \A k \in 1..Len(toHolder') :
         k + d \in 1..Len(toHolder) /\ SameFrame(toHolder'[k], toHolder[k + d])
  BY DEF Kept
<1>2. PICK e \in 0..1 : \A k \in 1..Len(toBrain') :
         k + e \in 1..Len(toBrain) /\ SameFrame(toBrain'[k], toBrain[k + e])
  BY DEF Kept
<1>3. ASSUME NEW k \in 1..Len(toHolder'), toHolder'[k].from \in Caller
      PROVE  toHolder'[k].from = toHolder[k + d].from /\ Asked(op'[toHolder'[k].from], toHolder'[k])
  <2>1. k + d \in 1..Len(toHolder) /\ SameFrame(toHolder'[k], toHolder[k + d])
    BY <1>1
  <2>2. toHolder'[k].from = toHolder[k + d].from
    BY <1>0, <1>3, <2>1 DEF SameFrame
  <2>3. op'[toHolder'[k].from] = op[toHolder'[k].from]
    BY <1>3, <2>2 DEF Silent
  <2>4. Asked(op[toHolder[k + d].from], toHolder[k + d])
    BY <1>3, <2>1, <2>2 DEF CallersHeard
  <2> QED BY <2>1, <2>2, <2>3, <2>4 DEF Asked, SameFrame
<1>4. ASSUME NEW k \in 1..Len(toBrain'), toBrain'[k].from \in Caller
      PROVE  toBrain'[k].from = toBrain[k + e].from /\ Asked(op'[toBrain'[k].from], toBrain'[k])
  <2>1. k + e \in 1..Len(toBrain) /\ SameFrame(toBrain'[k], toBrain[k + e])
    BY <1>2
  <2>2. toBrain'[k].from = toBrain[k + e].from
    BY <1>0, <1>4, <2>1 DEF SameFrame
  <2>3. op'[toBrain'[k].from] = op[toBrain'[k].from]
    BY <1>4, <2>2 DEF Silent
  <2>4. Asked(op[toBrain[k + e].from], toBrain[k + e])
    BY <1>4, <2>1, <2>2 DEF CallersHeard
  <2> QED BY <2>1, <2>2, <2>3, <2>4 DEF Asked, SameFrame
<1>5. \A j, k \in 1..Len(toHolder') :
       toHolder'[j].from \in Caller /\ toHolder'[j].from = toHolder'[k].from => j = k
  <2>1. ASSUME NEW j \in 1..Len(toHolder'), NEW k \in 1..Len(toHolder'),
               toHolder'[j].from \in Caller, toHolder'[j].from = toHolder'[k].from
        PROVE  j + d = k + d
    BY <1>1, <1>3, <2>1 DEF CallersHeard
  <2> QED BY <2>1
<1>6. \A j, k \in 1..Len(toBrain') :
       toBrain'[j].from \in Caller /\ toBrain'[j].from = toBrain'[k].from => j = k
  <2>1. ASSUME NEW j \in 1..Len(toBrain'), NEW k \in 1..Len(toBrain'),
               toBrain'[j].from \in Caller, toBrain'[j].from = toBrain'[k].from
        PROVE  j + e = k + e
    BY <1>2, <1>4, <2>1 DEF CallersHeard
  <2> QED BY <2>1
<1>7. \A j \in 1..Len(toHolder'), k \in 1..Len(toBrain') :
       toHolder'[j].from \in Caller => toHolder'[j].from # toBrain'[k].from
  <2>1. ASSUME NEW j \in 1..Len(toHolder'), NEW k \in 1..Len(toBrain'),
               toHolder'[j].from \in Caller, toHolder'[j].from = toBrain'[k].from
        PROVE  FALSE
    <3>1. toHolder[j + d].from = toBrain[k + e].from /\ toHolder[j + d].from \in Caller
      BY <1>3, <1>4, <2>1
    <3> QED BY <1>1, <1>2, <3>1 DEF CallersHeard
  <2> QED BY <2>1
<1> QED BY <1>3, <1>4, <1>5, <1>6, <1>7 DEF CallersHeard

\* A send keeps it, if a handler that sends or changes had nothing in flight.
LEMMA CallersSend ==
  ASSUME CallersHeard, NEW x, Longer(toHolder, toHolder', x), Kept(toBrain, toBrain'),
         \A c \in Caller : op'[c] = op[c] \/ Silent(c),
         x.from \in Caller => Asked(op'[x.from], x) /\ Silent(x.from)
  PROVE  CallersHeard'
<1>0. Nobody \notin Caller
  BY TableAssumption, BrainAssumption
<1>1. \A k \in 1..Len(toHolder') : /\ k = Len(toHolder') => toHolder'[k] = x
                                   /\ k # Len(toHolder') => /\ k \in 1..Len(toHolder)
                                                            /\ toHolder'[k] = toHolder[k]
  BY DEF Longer
<1>2. PICK e \in 0..1 : \A k \in 1..Len(toBrain') :
         k + e \in 1..Len(toBrain) /\ SameFrame(toBrain'[k], toBrain[k + e])
  BY DEF Kept
<1>3. \A k \in 1..Len(toHolder') : toHolder'[k].from \in Caller => Asked(op'[toHolder'[k].from], toHolder'[k])
  BY <1>1 DEF CallersHeard, Asked, Silent
<1>4. ASSUME NEW k \in 1..Len(toBrain'), toBrain'[k].from \in Caller
      PROVE  toBrain'[k].from = toBrain[k + e].from /\ Asked(op'[toBrain'[k].from], toBrain'[k])
  <2>1. k + e \in 1..Len(toBrain) /\ SameFrame(toBrain'[k], toBrain[k + e])
    BY <1>2
  <2>2. toBrain'[k].from = toBrain[k + e].from
    BY <1>0, <1>4, <2>1 DEF SameFrame
  <2>3. op'[toBrain'[k].from] = op[toBrain'[k].from]
    BY <1>4, <2>1, <2>2 DEF Silent
  <2>4. Asked(op[toBrain[k + e].from], toBrain[k + e])
    BY <1>4, <2>1, <2>2 DEF CallersHeard
  <2> QED BY <2>1, <2>2, <2>3, <2>4 DEF Asked, SameFrame
<1>5. \A j, k \in 1..Len(toHolder') :
       toHolder'[j].from \in Caller /\ toHolder'[j].from = toHolder'[k].from => j = k
  BY <1>1 DEF CallersHeard, Silent
<1>6. \A j, k \in 1..Len(toBrain') :
       toBrain'[j].from \in Caller /\ toBrain'[j].from = toBrain'[k].from => j = k
  <2>1. ASSUME NEW j \in 1..Len(toBrain'), NEW k \in 1..Len(toBrain'),
               toBrain'[j].from \in Caller, toBrain'[j].from = toBrain'[k].from
        PROVE  j + e = k + e
    BY <1>2, <1>4, <2>1 DEF CallersHeard
  <2> QED BY <2>1
<1>7. \A j \in 1..Len(toHolder'), k \in 1..Len(toBrain') :
       toHolder'[j].from \in Caller => toHolder'[j].from # toBrain'[k].from
  <2>1. ASSUME NEW j \in 1..Len(toHolder'), NEW k \in 1..Len(toBrain'),
               toHolder'[j].from \in Caller, toHolder'[j].from = toBrain'[k].from
        PROVE  FALSE
    <3>1. toHolder'[j].from = toBrain[k + e].from /\ k + e \in 1..Len(toBrain)
      BY <1>2, <1>4, <2>1
    <3>2. CASE j = Len(toHolder')
      BY <1>1, <2>1, <3>1, <3>2 DEF Silent
    <3>3. CASE j # Len(toHolder')
      BY <1>1, <2>1, <3>1, <3>3 DEF CallersHeard
    <3> QED BY <3>2, <3>3
  <2> QED BY <2>1
<1> QED BY <1>3, <1>4, <1>5, <1>6, <1>7 DEF CallersHeard

\* A handler's reply goes where its request came from; an event has no sender.
LEMMA CallersServe ==
  ASSUME CallersHeard, UNCHANGED op, NEW m, NEW r, NEW E, Served(m, r, E)
  PROVE  CallersHeard'
<1>0. Nobody \notin Caller /\ ExitEvent(m.uid).from = Nobody
  BY TableAssumption, BrainAssumption DEF ExitEvent
<1>1. \A k \in 1..Len(toHolder') : k + 1 \in 1..Len(toHolder) /\ toHolder'[k] = toHolder[k + 1]
  BY DEF Served, Shorter
<1>2. \A k \in 1..Len(toBrain') :
        \/ k \in 1..Len(toBrain) /\ toBrain'[k] = toBrain[k]
        \/ k = Len(toBrain) + 1 /\ toBrain'[k] = r
        \/ toBrain'[k].from = Nobody
  BY <1>0 DEF Served, Pushed
<1>3. /\ m = toHolder[1] /\ 1 \in 1..Len(toHolder) /\ Len(toBrain) \in Nat
      /\ r.verb = m.verb /\ r.uid = m.uid /\ r.from = m.from
  BY DEF Served, Pushed
<1>4. \A k \in 1..Len(toHolder') : toHolder'[k].from \in Caller => Asked(op'[toHolder'[k].from], toHolder'[k])
  BY <1>1 DEF CallersHeard, Asked
<1>5. \A k \in 1..Len(toBrain') : toBrain'[k].from \in Caller => Asked(op'[toBrain'[k].from], toBrain'[k])
  BY <1>0, <1>2, <1>3 DEF CallersHeard, Asked
<1>6. \A j, k \in 1..Len(toHolder') :
       toHolder'[j].from \in Caller /\ toHolder'[j].from = toHolder'[k].from => j = k
  <2>1. ASSUME NEW j \in 1..Len(toHolder'), NEW k \in 1..Len(toHolder'),
               toHolder'[j].from \in Caller, toHolder'[j].from = toHolder'[k].from
        PROVE  j + 1 = k + 1
    BY <1>1, <2>1 DEF CallersHeard
  <2> QED BY <2>1
<1>7. \A j, k \in 1..Len(toBrain') :
       toBrain'[j].from \in Caller /\ toBrain'[j].from = toBrain'[k].from => j = k
  BY <1>0, <1>2, <1>3 DEF CallersHeard
<1>8. ASSUME NEW j \in 1..Len(toHolder'), NEW k \in 1..Len(toBrain'), toHolder'[j].from \in Caller,
             toHolder'[j].from = toBrain'[k].from
      PROVE  FALSE
  <2>1. j + 1 \in 1..Len(toHolder) /\ toHolder[j + 1].from = toBrain'[k].from /\ j + 1 # 1
    BY <1>1, <1>8
  <2>2. CASE k \in 1..Len(toBrain) /\ toBrain'[k] = toBrain[k]
    BY <1>8, <2>1, <2>2 DEF CallersHeard
  <2>3. CASE toBrain'[k] = r
    BY <1>3, <1>8, <2>1, <2>3 DEF CallersHeard
  <2> QED BY <1>0, <1>2, <1>8, <2>2, <2>3
<1> QED BY <1>4, <1>5, <1>6, <1>7, <1>8 DEF CallersHeard

-----------------------------------------------------------------------------
(* The steps that leave the channel open.                                  *)

OpenStep ==
  \/ HolderStep
  \/ \E u \in Uid : SeeExitStep(u)
  \/ \E i \in Inc : ExitStep(i) \/ ObserverStep(i) \/ AckTimeout(i)
  \/ BootStep
  \/ RouteExit
  \/ DropReply
  \/ \E c \in Caller : CallerStep(c) \/ OpTimeout(c) \/ \E u \in Uid : StartOp(c, u)

\* A channel is open because it was, or because a brain has just come up.
LEMMA OpenOrUp ==
  ASSUME BrainNext, chan' = "open"
  PROVE  (OpenStep /\ chan = "open") \/ BrainUp
<1>1. ~EofStep /\ ~BrainCrash /\ ~StopAll
  BY DEF EofStep, BrainEof, BrainCrash, BrainDies, WatchdogKill, StopAll, Shutdown
<1>2. HolderStep => UNCHANGED chan
  BY DEF HolderStep, HandleSpawnOk, HandleSpawnErr, HandleSpawnTorn, HandleArmReap,
         HandleAbortSpawn, HandleAckExit, HandleForget, holderVars
<1>3. \A u \in Uid : SeeExitStep(u) => UNCHANGED chan
  BY DEF SeeExitStep, SeeExit
<1>4. \A i \in Inc : ExitStep(i) => UNCHANGED chan
  BY DEF ExitStep, ChildExits
<1>5. \A i \in Inc : ObserverStep(i) \/ AckTimeout(i) => chan = "open"
  BY DEF ObserverStep, OnExit, Settle, Acked, ReplyTo, AckTimeout
<1>6. BootStep => chan = "open"
  BY DEF BootStep, FetchBoot, AdoptDone, RestoreDone, AdoptForget, AdoptSkip, AdoptAbort,
         AdoptOne, RestoreSkip, Reconcile, Alive
<1>7. RouteExit \/ DropReply => chan = "open"
  BY DEF RouteExit, DropReply, ReplyTo
<1>8. \A c \in Caller : CallerStep(c) \/ OpTimeout(c) \/ (\E u \in Uid : StartOp(c, u)) => chan = "open"
  BY DEF CallerStep, SpawnReply, DropPending, InsertAndArm, ArmReply, RemoveUnarmed, ReplyTo,
         OpTimeout, StartOp, Alive
<1> QED BY <1>1, <1>2, <1>3, <1>4, <1>5, <1>6, <1>7, <1>8 DEF BrainNext, OpenStep

\* A request that is sent is the last of the queue.
LEMMA Sent ==
  ASSUME TypeInv, NEW u \in Uid, NEW i \in 0..MaxInc, NEW f \in From \cup {Nobody},
         NEW v \in Verbs, Send(Req(v, u, i, f))
  PROVE  Longer(toHolder, toHolder', Req(v, u, i, f))
<1>1. Req(v, u, i, f) \in Request /\ toHolder \in Seq(Request)
  BY ReqType DEF TypeInv, TypeOK
<1> QED BY <1>1, AppendElements DEF Send

\* A frame that is received leaves the queue.
LEMMA Received ==
  ASSUME TypeInv, toBrain # <<>>, toBrain' = Tail(toBrain)
  PROVE  /\ Head(toBrain) = toBrain[1] /\ 1 \in 1..Len(toBrain) /\ Head(toBrain) \in Frame
         /\ Shorter(toBrain, toBrain') /\ KeptOk(toBrain, toBrain')
<1>1. toBrain \in Seq(Frame)
  BY DEF TypeInv, TypeOK
<1> QED BY <1>1, TailElements, KeptFrames

\* A queue whose results were kept was kept.
LEMMA KeptOkKept ==
  ASSUME NEW q, NEW t, KeptOk(q, t)
  PROVE  Kept(q, t)
  BY DEF Kept, KeptOk

\* The table of who sends what: a step of the brain sends at most one request,
\* x, and takes at most one frame.
Sends(x) == Longer(toHolder, toHolder', x) /\ KeptOk(toBrain, toBrain')
SendsNothing == Kept(toHolder, toHolder') /\ KeptOk(toBrain, toBrain')

\* What becomes of the two queues in a step that sends nothing, or one request.
LEMMA StaySilent ==
  ASSUME TypeInv
  PROVE  /\ UNCHANGED <<toHolder, toBrain>> => SendsNothing
         /\ UNCHANGED toHolder /\ toBrain # <<>> /\ toBrain' = Tail(toBrain) => SendsNothing
         /\ \A S : toHolder' = Deaf(toHolder, S) /\ toBrain' = Deaf(toBrain, S) => SendsNothing
         /\ \A u \in Uid, i \in 0..MaxInc, f \in From \cup {Nobody}, v \in Verbs :
              Send(Req(v, u, i, f)) /\ (UNCHANGED toBrain \/ (toBrain # <<>> /\ toBrain' = Tail(toBrain)))
                => Sends(Req(v, u, i, f))
<1>1. toHolder \in Seq(Request) /\ toBrain \in Seq(Frame)
  BY DEF TypeInv, TypeOK
<1>2. UNCHANGED <<toHolder, toBrain>> => SendsNothing
  BY <1>1, KeptRequests, KeptFrames DEF SendsNothing
<1>3. UNCHANGED toHolder /\ toBrain # <<>> /\ toBrain' = Tail(toBrain) => SendsNothing
  BY <1>1, KeptRequests, KeptFrames DEF SendsNothing
<1>4. ASSUME NEW S, toHolder' = Deaf(toHolder, S), toBrain' = Deaf(toBrain, S)
      PROVE  SendsNothing
  BY <1>1, <1>4, KeptRequests, KeptFrames DEF SendsNothing
<1>5. ASSUME NEW u \in Uid, NEW i \in 0..MaxInc, NEW f \in From \cup {Nobody}, NEW v \in Verbs,
             Send(Req(v, u, i, f)),
             UNCHANGED toBrain \/ (toBrain # <<>> /\ toBrain' = Tail(toBrain))
      PROVE  Sends(Req(v, u, i, f))
  BY <1>1, <1>5, Sent, KeptFrames DEF Sends
<1> QED BY <1>2, <1>3, <1>4, <1>5

\* What each of the brain's steps sends.
LEMMA BootSends ==
  ASSUME TypeInv
  PROVE  /\ FetchBoot \/ AdoptDone \/ RestoreDone => SendsNothing
         /\ \A u \in Uid :
              /\ AdoptSkip(u) \/ RestoreSkip(u) => SendsNothing
              /\ AdoptForget(u) => Sends(Req("forget", u, todo[u].inc, Nobody))
              /\ AdoptAbort(u) => Sends(AbortReq(u, todo[u].inc))
              /\ AdoptOne(u) => Sends(Req("arm_reap", u, todo[u].inc, Nobody))
<1>1. FetchBoot \/ AdoptDone \/ RestoreDone => SendsNothing
  BY StaySilent DEF FetchBoot, AdoptDone, RestoreDone, tableVars
<1>2. ASSUME NEW u \in Uid
      PROVE  /\ AdoptSkip(u) \/ RestoreSkip(u) => SendsNothing
             /\ AdoptForget(u) => Sends(Req("forget", u, todo[u].inc, Nobody))
             /\ AdoptAbort(u) => Sends(AbortReq(u, todo[u].inc))
             /\ AdoptOne(u) => Sends(Req("arm_reap", u, todo[u].inc, Nobody))
  <2>1. /\ todo[u].inc \in 0..MaxInc /\ Nobody \in From \cup {Nobody}
        /\ "forget" \in Verbs /\ "abort_spawn" \in Verbs /\ "arm_reap" \in Verbs
    BY DEF TypeInv, BrainTypeOK, Verbs
  <2>2. AdoptSkip(u) \/ RestoreSkip(u) => SendsNothing
    BY StaySilent DEF AdoptSkip, RestoreSkip, tableVars
  <2>3. AdoptForget(u) => Sends(Req("forget", u, todo[u].inc, Nobody))
    BY <2>1, StaySilent DEF AdoptForget
  <2>4. AdoptAbort(u) => Sends(AbortReq(u, todo[u].inc))
    BY <2>1, StaySilent DEF AdoptAbort, AbortReq
  <2>5. AdoptOne(u) => Sends(Req("arm_reap", u, todo[u].inc, Nobody))
    BY <2>1, StaySilent DEF AdoptOne
  <2> QED BY <2>2, <2>3, <2>4, <2>5
<1> QED BY <1>1, <1>2

\* What the reader and the observers send.
LEMMA ExitSends ==
  ASSUME TypeInv
  PROVE  /\ RouteExit \/ DropReply => SendsNothing
         /\ \A i \in Inc :
              /\ OnExit(i) \/ AckTimeout(i) => SendsNothing
              /\ Settle(i) => SendsNothing \/ Sends(Req("ack_exit", obs[i].uid, i, Observer))
              /\ Acked(i) => Sends(Req("forget", obs[i].uid, i, Nobody))
<1>1. RouteExit \/ DropReply => SendsNothing
  BY StaySilent DEF RouteExit, DropReply, ReplyTo
<1>2. ASSUME NEW i \in Inc
      PROVE  /\ OnExit(i) \/ AckTimeout(i) => SendsNothing
             /\ Settle(i) => SendsNothing \/ Sends(Req("ack_exit", obs[i].uid, i, Observer))
             /\ Acked(i) => Sends(Req("forget", obs[i].uid, i, Nobody))
  <2>1. /\ i \in 0..MaxInc /\ Nobody \in From \cup {Nobody} /\ Observer \in From \cup {Nobody}
        /\ "forget" \in Verbs /\ "ack_exit" \in Verbs
        /\ obs[i].pc # "none" => obs[i].uid \in Uid
    BY BrainAssumption DEF TypeInv, Named, Verbs, Inc
  <2>2. OnExit(i) \/ AckTimeout(i) => SendsNothing
    BY StaySilent DEF OnExit, AckTimeout
  <2>3. Settle(i) => SendsNothing \/ Sends(Req("ack_exit", obs[i].uid, i, Observer))
    BY <2>1, StaySilent DEF Settle
  <2>4. Acked(i) => Sends(Req("forget", obs[i].uid, i, Nobody))
    BY <2>1, StaySilent DEF Acked, ReplyTo
  <2> QED BY <2>2, <2>3, <2>4
<1> QED BY <1>1, <1>2

\* What the request handlers send.
LEMMA CallerSends ==
  ASSUME TypeInv, NEW c \in Caller
  PROVE  /\ SpawnReply(c) \/ ArmReply(c) \/ OpTimeout(c) => SendsNothing
         /\ DropPending(c) \/ RemoveUnarmed(c) => Sends(AbortReq(op[c].uid, op[c].inc))
         /\ InsertAndArm(c) => Sends(Req("arm_reap", op[c].uid, op[c].inc, c))
         /\ \A u \in Uid : StartOp(c, u) => Sends(Req("spawn", u, 0, c))
<1>1. /\ op[c].inc \in 0..MaxInc /\ Nobody \in From \cup {Nobody} /\ c \in From \cup {Nobody}
      /\ "spawn" \in Verbs /\ "abort_spawn" \in Verbs /\ "arm_reap" \in Verbs /\ 0 \in 0..MaxInc
      /\ op[c].pc # "idle" => op[c].uid \in Uid
  BY BrainAssumption, TableAssumption DEF TypeInv, BrainTypeOK, Named, Verbs
<1>2. SpawnReply(c) \/ ArmReply(c) \/ OpTimeout(c) => SendsNothing
  BY StaySilent DEF SpawnReply, ArmReply, OpTimeout, ReplyTo
<1>3. DropPending(c) \/ RemoveUnarmed(c) => Sends(AbortReq(op[c].uid, op[c].inc))
  BY <1>1, StaySilent DEF DropPending, RemoveUnarmed, AbortReq
<1>4. InsertAndArm(c) => Sends(Req("arm_reap", op[c].uid, op[c].inc, c))
  BY <1>1, StaySilent DEF InsertAndArm
<1>5. \A u \in Uid : StartOp(c, u) => Sends(Req("spawn", u, 0, c))
  BY <1>1, StaySilent DEF StartOp
<1> QED BY <1>2, <1>3, <1>4, <1>5

\* Every step of an open channel keeps the handlers' correspondence.
LEMMA CallersStep ==
  ASSUME BrainInv, OpenStep, chan = "open"
  PROVE  CallersHeard'
<1>0. /\ CallersHeard /\ TypeInv /\ EventInv /\ TypeOK
      /\ Nobody \notin Caller /\ Observer \notin Caller
      /\ \A c \in Caller : \A x : [op EXCEPT ![c] = x] = [d \in Caller |-> IF d = c THEN x ELSE op[d]]
  BY TableAssumption, BrainAssumption DEF BrainInv, OpenInv, TypeInv, BrainTypeOK
<1>1. \A x : /\ Kept(toHolder, toHolder') /\ Kept(toBrain, toBrain') /\ UNCHANGED op => CallersHeard'
             /\ Sends(x) /\ x.from = Nobody /\ UNCHANGED op => CallersHeard'
             /\ Sends(x) /\ x.from = Observer /\ UNCHANGED op => CallersHeard'
             /\ SendsNothing /\ UNCHANGED op => CallersHeard'
  BY <1>0, CallersKeep, CallersSend, KeptOkKept DEF Sends, SendsNothing
<1>2. CASE HolderStep
  BY <1>0, <1>2, HandlerServes, CallersServe DEF HolderStep, brainVars
<1>3. ASSUME NEW u \in Uid, SeeExitStep(u)
      PROVE  CallersHeard'
  <2>1. UNCHANGED <<toHolder, op>> /\ (UNCHANGED toBrain \/ Push(<<ExitEvent(u)>>))
    BY <1>3 DEF SeeExitStep, SeeExit, brainVars
  <2>2. CASE UNCHANGED toBrain
    BY <1>0, <1>1, <2>1, <2>2, StaySilent
  <2>3. CASE Push(<<ExitEvent(u)>>)
    <3>1. Pushed(toBrain, toBrain', ExitEvent(u), 0, FALSE)
      BY <1>0, <2>3, PushedOne, ExitEventType
    <3>2. \A k \in 1..Len(toBrain') :
            \/ k \in 1..Len(toBrain) /\ toBrain'[k] = toBrain[k]
            \/ toBrain'[k].from = Nobody
      BY <3>1 DEF Pushed, ExitEvent
    <3> QED BY <1>0, <2>1, <3>2 DEF CallersHeard
  <2> QED BY <2>1, <2>2, <2>3
<1>4. ASSUME NEW i \in Inc, ExitStep(i)
      PROVE  CallersHeard'
  BY <1>0, <1>1, <1>4, StaySilent DEF ExitStep, ChildExits, brainVars
<1>5. ASSUME NEW i \in Inc, ObserverStep(i) \/ AckTimeout(i)
      PROVE  CallersHeard'
  <2>1. UNCHANGED op
    BY <1>5 DEF ObserverStep, OnExit, Settle, Acked, AckTimeout
  <2>2. Req("ack_exit", obs[i].uid, i, Observer).from = Observer
        /\ Req("forget", obs[i].uid, i, Nobody).from = Nobody
    BY DEF Req
  <2> QED BY <1>0, <1>1, <1>5, <2>1, <2>2, ExitSends DEF ObserverStep
<1>6. CASE BootStep
  <2>1. UNCHANGED op
    BY <1>6 DEF BootStep, FetchBoot, AdoptDone, RestoreDone, AdoptForget, AdoptSkip, AdoptAbort,
                AdoptOne, RestoreSkip
  <2>2. \A u \in Uid : /\ Req("forget", u, todo[u].inc, Nobody).from = Nobody
                       /\ AbortReq(u, todo[u].inc).from = Nobody
                       /\ Req("arm_reap", u, todo[u].inc, Nobody).from = Nobody
    BY DEF Req, AbortReq
  <2> QED BY <1>0, <1>1, <1>6, <2>1, <2>2, BootSends DEF BootStep
<1>7. CASE RouteExit \/ DropReply
  <2>1. UNCHANGED op
    BY <1>7 DEF RouteExit, DropReply, brainVars
  <2> QED BY <1>0, <1>1, <1>7, <2>1, ExitSends
<1>8. ASSUME NEW c \in Caller, SpawnReply(c) \/ ArmReply(c)
      PROVE  CallersHeard'
  <2>1. /\ SendsNothing /\ \A d \in Caller : d # c => op'[d] = op[d]
        /\ toBrain # <<>> /\ toBrain' = Tail(toBrain) /\ Head(toBrain).from = c
        /\ UNCHANGED toHolder
    BY <1>0, <1>8, CallerSends DEF SpawnReply, ArmReply, ReplyTo
  <2>2. /\ toBrain[1].from = c /\ 1 \in 1..Len(toBrain)
        /\ \A k \in 1..Len(toBrain') : k + 1 \in 1..Len(toBrain) /\ toBrain'[k] = toBrain[k + 1]
    BY <1>0, <2>1, Received DEF Shorter
  <2>3. \A k \in 1..Len(toBrain') : toBrain'[k].from # c
    <3>1. ASSUME NEW k \in 1..Len(toBrain'), toBrain'[k].from = c
          PROVE  k + 1 = 1
      BY <1>0, <2>2, <3>1 DEF CallersHeard
    <3> QED BY <3>1
  <2>4. \A k \in 1..Len(toHolder) : toHolder[k].from # c
    BY <1>0, <2>2 DEF CallersHeard
  <2>5. Silent(c)'
    BY <2>1, <2>3, <2>4 DEF Silent
  <2> QED BY <1>0, <2>1, <2>5, CallersKeep, KeptOkKept DEF SendsNothing
<1>9. ASSUME NEW c \in Caller, DropPending(c) \/ RemoveUnarmed(c)
      PROVE  CallersHeard'
  <2>1. /\ Sends(AbortReq(op[c].uid, op[c].inc)) /\ \A d \in Caller : d # c => op'[d] = op[d]
        /\ op[c].pc \notin {"spawning", "arming"}
    BY <1>0, <1>9, CallerSends DEF DropPending, RemoveUnarmed
  <2>2. AbortReq(op[c].uid, op[c].inc).from = Nobody
    BY DEF AbortReq, Req
  <2>3. Silent(c)
    BY <1>0, <2>1, IdleSilent
  <2> QED BY <1>0, <2>1, <2>2, <2>3, CallersSend, KeptOkKept DEF Sends
<1>10. ASSUME NEW c \in Caller, InsertAndArm(c)
       PROVE  CallersHeard'
  <2> DEFINE x == Req("arm_reap", op[c].uid, op[c].inc, c)
  <2>1. /\ Sends(x) /\ op' = [op EXCEPT ![c].pc = "arming"] /\ op[c].pc = "spawned"
    BY <1>0, <1>10, CallerSends DEF InsertAndArm
  <2>2. x.from = c /\ x.verb = "arm_reap" /\ x.uid = op[c].uid
    BY DEF Req
  <2>3. /\ \A d \in Caller : d # c => op'[d] = op[d]
        /\ op'[c].pc = "arming" /\ op'[c].uid = op[c].uid
    BY <1>0, <2>1 DEF TypeInv, BrainTypeOK
  <2>4. Silent(c)
    BY <1>0, <2>1, IdleSilent
  <2>5. Asked(op'[x.from], x)
    BY <2>2, <2>3 DEF Asked
  <2> HIDE DEF x
  <2> QED BY <1>0, <2>1, <2>2, <2>3, <2>4, <2>5, CallersSend, KeptOkKept DEF Sends
<1>11. ASSUME NEW c \in Caller, NEW u \in Uid, StartOp(c, u)
       PROVE  CallersHeard'
  <2> DEFINE x == Req("spawn", u, 0, c)
  <2>0. Sends(x)
    BY <1>0, <1>11, CallerSends
  <2>1. /\ op[c].pc = "idle"
        /\ op' = [op EXCEPT ![c] = [pc |-> "spawning", uid |-> u, inc |-> 0]]
    BY <1>11 DEF StartOp, Idle
  <2>2. x.from = c /\ x.verb = "spawn" /\ x.uid = u
    BY DEF Req
  <2>3. /\ \A d \in Caller : d # c => op'[d] = op[d]
        /\ op'[c].pc = "spawning" /\ op'[c].uid = u
    BY <1>0, <2>1
  <2>4. Silent(c)
    BY <1>0, <2>1, IdleSilent
  <2>5. Asked(op'[x.from], x)
    BY <2>2, <2>3 DEF Asked
  <2> HIDE DEF x
  <2> QED BY <1>0, <2>0, <2>2, <2>3, <2>4, <2>5, CallersSend, KeptOkKept DEF Sends
<1>12. ASSUME NEW c \in Caller, OpTimeout(c)
       PROVE  CallersHeard'
  <2>1. /\ SendsNothing /\ \A d \in Caller : d # c => op'[d] = op[d]
        /\ toHolder' = Deaf(toHolder, {c}) /\ toBrain' = Deaf(toBrain, {c})
    BY <1>0, <1>12, CallerSends DEF OpTimeout
  <2>2. Silent(c)'
    <3>1. toHolder \in Seq(Request) /\ toBrain \in Seq(Frame)
      BY <1>0 DEF TypeOK
    <3>2. Muted(toHolder, toHolder', {c}) /\ Muted(toBrain, toBrain', {c})
      BY <2>1, <3>1, DeafRequests, DeafFrames
    <3> QED BY <1>0, <3>2 DEF Muted, Silent
  <2> QED BY <1>0, <2>1, <2>2, CallersKeep, KeptOkKept DEF SendsNothing
<1> QED BY <1>2, <1>3, <1>4, <1>5, <1>6, <1>7, <1>8, <1>9, <1>10, <1>11, <1>12
        DEF OpenStep, CallerStep

-----------------------------------------------------------------------------
(* No incarnation is claimed twice, and none that is claimed is aborted.   *)

Claimed(i) ==
  \/ \E k \in 1..Len(toBrain) : FrameClaims(k) /\ toBrain[k].inc = i
  \/ \E c \in Caller : OpClaims(c) /\ op[c].inc = i
  \/ \E u \in Uid : TodoClaims(u) /\ todo[u].inc = i

\* What is claimed is claimable, whoever claims it.
LEMMA ClaimedOnce ==
  ASSUME ClaimsSound, NEW i, Claimed(i)
  PROVE  Claimable(i)
  BY DEF ClaimsSound, Claimed

\* No claim is added, and the one incarnation j that the step may abort or
\* watch is claimed by nobody any more: the claims stay sound and apart.
LEMMA ClaimsKeep ==
  ASSUME ClaimsSound, ClaimsApart, KeptOk(toBrain, toBrain'),
         nextInc \in Nat, nextInc' \in Nat, nextInc' >= nextInc,
         \A c \in Caller : OpClaims(c)' => OpClaims(c) /\ op'[c].inc = op[c].inc,
         \A u \in Uid : TodoClaims(u)' => todo'[u].inc = todo[u].inc,
         NEW j,
         \A i \in Inc : i # j => (obs[i].pc = "none" => obs'[i].pc = "none"),
         \A i \in Inc : i # j => (NoAbort(i) => NoAbort(i)'),
         obs[j].pc # "none" \/ ~Claimed(j)' \/ j \notin Inc
  PROVE  ClaimsSound' /\ ClaimsApart'
<1>0. Nobody \notin Caller
  BY TableAssumption, BrainAssumption
<1>1. PICK e \in 0..1 : \A k \in 1..Len(toBrain') :
         /\ k + e \in 1..Len(toBrain) /\ SameFrame(toBrain'[k], toBrain[k + e])
         /\ toBrain'[k].ok = toBrain[k + e].ok
  BY DEF KeptOk
<1>2. ASSUME NEW k \in 1..Len(toBrain'), FrameClaims(k)'
      PROVE  k + e \in 1..Len(toBrain) /\ FrameClaims(k + e) /\ toBrain'[k].inc = toBrain[k + e].inc
  BY <1>0, <1>1, <1>2 DEF FrameClaims, SameFrame
<1>3. \A u \in Uid : TodoClaims(u)' => TodoClaims(u)
  BY DEF TodoClaims
<1>4. \A i : Claimed(i)' => Claimed(i)
  BY <1>2, <1>3 DEF Claimed
<1>5. ASSUME NEW i, Claimed(i)'
      PROVE  Claimable(i)'
  <2>1. Claimable(i)
    BY <1>4, <1>5, ClaimedOnce
  <2>2. i # j
    BY <1>5, <2>1 DEF Claimable
  <2> QED BY <2>1, <2>2 DEF Claimable, Inc
<1>6. ClaimsSound'
  BY <1>5 DEF ClaimsSound, Claimed
<1>7. ASSUME NEW k \in 1..Len(toBrain'), NEW l \in 1..Len(toBrain'), FrameClaims(k)', FrameClaims(l)',
             toBrain'[k].inc = toBrain'[l].inc
      PROVE  k = l
  <2>1. k + e = l + e
    BY <1>2, <1>7 DEF ClaimsApart
  <2> QED BY <2>1
<1>8. ClaimsApart'
  BY <1>2, <1>3, <1>7 DEF ClaimsApart
<1> QED BY <1>6, <1>8

\* A handler of the holder adds a claim only to an incarnation it mints.
LEMMA ClaimsServe ==
  ASSUME BrainInv, chan = "open", NEW m, NEW r, NEW E, Served(m, r, E), UNCHANGED brainVars,
         nextInc' \in Nat
  PROVE  ClaimsSound' /\ ClaimsApart'
<1>0. /\ ClaimsSound /\ ClaimsApart /\ WatchSound /\ nextInc \in Nat /\ nextInc' >= nextInc
      /\ UNCHANGED <<op, todo, obs>> /\ Len(toBrain) \in Nat
      /\ \A i \in Inc : i \in Nat
  BY DEF BrainInv, OpenInv, EventInv, CustodyInv, TypeOK, Served, brainVars, Pushed, Inc
<1>1. \A k \in 1..Len(toHolder') : k + 1 \in 1..Len(toHolder) /\ toHolder'[k] = toHolder[k + 1]
  BY DEF Served, Shorter
<1>2. \A k \in 1..Len(toBrain') :
        \/ k \in 1..Len(toBrain) /\ toBrain'[k] = toBrain[k]
        \/ k = Len(toBrain) + 1 /\ toBrain'[k] = r
        \/ toBrain'[k].verb = "exit_event"
  BY <1>0 DEF Served, Pushed, ExitEvent
<1>3. ASSUME NEW k \in 1..Len(toBrain'), FrameClaims(k)'
      PROVE  \/ k \in 1..Len(toBrain) /\ FrameClaims(k) /\ toBrain'[k].inc = toBrain[k].inc
                                      /\ toBrain'[k].inc < nextInc
             \/ k = Len(toBrain) + 1 /\ toBrain'[k].inc = nextInc /\ nextInc \in Inc
                                     /\ nextInc' = nextInc + 1
  <2>1. CASE k \in 1..Len(toBrain) /\ toBrain'[k] = toBrain[k]
    BY <1>0, <1>3, <2>1 DEF FrameClaims, ClaimsSound, Claimable
  <2>2. CASE k = Len(toBrain) + 1 /\ toBrain'[k] = r
    BY <1>3, <2>2 DEF FrameClaims, Served
  <2>3. CASE toBrain'[k].verb = "exit_event"
    BY <1>3, <2>3 DEF FrameClaims
  <2> QED BY <1>2, <2>1, <2>2, <2>3
<1>4. \A i \in Inc : NoAbort(i) => NoAbort(i)'
  BY <1>1 DEF NoAbort
<1>5. \A i \in Inc : Claimable(i) => Claimable(i)'
  BY <1>0, <1>4 DEF Claimable, Inc
<1>6. ASSUME NEW x, x = nextInc, nextInc \in Inc, nextInc' = nextInc + 1
      PROVE  Claimable(x)'
  <2>1. /\ obs[x].pc = "none"
        /\ \A k \in 1..Len(toHolder) : toHolder[k].verb = "abort_spawn" => toHolder[k].inc # x
    BY <1>0, <1>6 DEF WatchSound
  <2>2. \A k \in 1..Len(toHolder') : toHolder'[k].verb = "abort_spawn" => toHolder'[k].inc # x
    BY <1>1, <2>1
  <2> QED BY <1>0, <1>6, <2>1, <2>2 DEF Claimable, NoAbort, Inc
<1>7. ClaimsSound'
  BY <1>0, <1>3, <1>5, <1>6 DEF ClaimsSound, OpClaims, TodoClaims, Claimable
<1>8. /\ \A c \in Caller : OpClaims(c) => op[c].inc < nextInc
      /\ \A u \in Uid : TodoClaims(u) => todo[u].inc < nextInc
      /\ \A c \in Caller : OpClaims(c)' <=> OpClaims(c)
      /\ \A u \in Uid : TodoClaims(u)' <=> TodoClaims(u)
  BY <1>0 DEF ClaimsSound, Claimable, OpClaims, TodoClaims
<1>9. /\ \A c \in Caller : OpClaims(c) => op[c].inc # nextInc
      /\ \A u \in Uid : TodoClaims(u) => todo[u].inc # nextInc
      /\ \A k \in 1..Len(toBrain) : FrameClaims(k) => toBrain[k].inc # nextInc
  BY <1>0 DEF ClaimsSound, Claimable, OpClaims, TodoClaims
<1>10. ClaimsApart'
  BY <1>0, <1>3, <1>8, <1>9 DEF ClaimsApart
<1> QED BY <1>7, <1>10

\* A queue that was only read from holds no new abort.
LEMMA NoAbortKept ==
  ASSUME NEW i, NoAbort(i), Kept(toHolder, toHolder')
  PROVE  NoAbort(i)'
  BY DEF NoAbort, Kept, SameFrame

\* A request that is no abort of i leaves i alone.
LEMMA NoAbortSent ==
  ASSUME NEW i, NoAbort(i), NEW x, Longer(toHolder, toHolder', x),
         x.verb # "abort_spawn" \/ x.inc # i
  PROVE  NoAbort(i)'
  BY DEF NoAbort, Longer

\* The invariant's types at hand, before and after the step.
LEMMA StepTypes ==
  ASSUME BrainInv, BrainNext
  PROVE  /\ EventInv /\ TypeInv /\ CustodyInv /\ TypeOK /\ BrainTypeOK
         /\ EventInv' /\ TypeInv' /\ CustodyInv' /\ TypeOK' /\ BrainTypeOK'
         /\ nextInc \in Nat /\ nextInc' \in Nat
<1>1. EventInv /\ TypeInv /\ EventInv'
  BY TableStep DEF BrainInv
<1>2. CustodyInv /\ CustodyInv' /\ TypeOK /\ TypeOK'
  BY <1>1 DEF EventInv, CustodyInv
<1>3. BrainTypeOK' /\ Named'
  BY <1>1, BrainTypeStep
<1>4. nextInc \in Nat /\ nextInc' \in Nat
  BY <1>2 DEF TypeOK
<1> QED BY <1>1, <1>2, <1>3, <1>4 DEF TypeInv

\* A step at an open channel is a step of the system.
LEMMA OpenIsNext == OpenStep => BrainNext
  BY DEF OpenStep, BrainNext

\* Incarnations only grow, and only the holder mints them.
LEMMA IncsGrow ==
  ASSUME BrainInv, OpenStep, chan = "open"
  PROVE  nextInc' >= nextInc /\ (~HolderStep => UNCHANGED nextInc)
<1>0. nextInc \in Nat
  BY StepTypes, OpenIsNext
<1>1. HolderStep => nextInc' >= nextInc
  BY HandlerServes DEF Served, BrainInv
<1>2. ~HolderStep => UNCHANGED nextInc
  BY DEF OpenStep, SeeExitStep, SeeExit, ExitStep, ChildExits, ObserverStep, OnExit, Settle, Acked,
         AckTimeout, BootStep, FetchBoot, AdoptDone, RestoreDone, AdoptForget, AdoptSkip, AdoptAbort,
         AdoptOne, RestoreSkip, RouteExit, DropReply, CallerStep, SpawnReply, DropPending, InsertAndArm,
         ArmReply, RemoveUnarmed, OpTimeout, StartOp, holderVars, tableVars
<1> QED BY <1>0, <1>1, <1>2

\* No step at an open channel spoils a claim (start_session, adopt_at_boot).
LEMMA ClaimsStep ==
  ASSUME BrainInv, OpenStep, chan = "open"
  PROVE  ClaimsSound' /\ ClaimsApart'
<1>0. /\ ClaimsSound /\ ClaimsApart /\ WatchSound /\ CallersHeard /\ BootQuiet
      /\ TypeInv /\ TypeOK /\ BrainTypeOK /\ CustodyInv /\ BrainTypeOK'
      /\ nextInc \in Nat /\ nextInc' \in Nat /\ nextInc' >= nextInc
      /\ 0 \notin Inc
  BY StepTypes, OpenIsNext, IncsGrow DEF BrainInv, OpenInv, Inc
<1>k. \A x : /\ KeptOk(toBrain, toBrain') => Kept(toBrain, toBrain')
             /\ Sends(x) => /\ KeptOk(toBrain, toBrain') /\ Longer(toHolder, toHolder', x)
             /\ SendsNothing => KeptOk(toBrain, toBrain') /\ Kept(toHolder, toHolder')
  BY KeptOkKept DEF Sends, SendsNothing
\* Steps that touch no claimed incarnation.
<1>q. ASSUME NEW x,
             SendsNothing \/ (Sends(x) /\ x.verb # "abort_spawn"),
             \A c \in Caller : OpClaims(c)' => OpClaims(c) /\ op'[c].inc = op[c].inc,
             \A u \in Uid : TodoClaims(u)' => todo'[u].inc = todo[u].inc,
             \A i \in Inc : obs[i].pc = "none" => obs'[i].pc = "none"
      PROVE  ClaimsSound' /\ ClaimsApart'
  <2>1. \A i \in Inc : NoAbort(i) => NoAbort(i)'
    BY <1>k, <1>q, NoAbortKept, NoAbortSent
  <2> QED BY <1>0, <1>k, <1>q, <2>1, ClaimsKeep
\* Steps that abort or watch one incarnation.
<1>w. ASSUME NEW x, NEW j, Sends(x), x.verb # "abort_spawn" \/ x.inc = j,
             \A c \in Caller : OpClaims(c)' => OpClaims(c) /\ op'[c].inc = op[c].inc,
             \A u \in Uid : TodoClaims(u)' => todo'[u].inc = todo[u].inc,
             \A i \in Inc : i # j => (obs[i].pc = "none" => obs'[i].pc = "none"),
             obs[j].pc # "none" \/ ~Claimed(j)'
      PROVE  ClaimsSound' /\ ClaimsApart'
  <2>1. \A i \in Inc : i # j => (NoAbort(i) => NoAbort(i)')
    BY <1>k, <1>w, NoAbortSent
  <2> QED BY <1>0, <1>k, <1>w, <2>1, ClaimsKeep
<1>1. CASE HolderStep
  BY <1>0, <1>1, HandlerServes, ClaimsServe DEF HolderStep, BrainInv
<1>2. ASSUME NEW u \in Uid, SeeExitStep(u)
      PROVE  ClaimsSound' /\ ClaimsApart'
  <2>1. /\ UNCHANGED <<toHolder, nextInc, op, obs, todo>>
        /\ UNCHANGED toBrain \/ Push(<<ExitEvent(u)>>)
    BY <1>2 DEF SeeExitStep, SeeExit, brainVars
  <2>2. CASE UNCHANGED toBrain
    BY <1>0, <1>q, <2>1, <2>2, StaySilent DEF OpClaims, TodoClaims
  <2>3. CASE Push(<<ExitEvent(u)>>)
    <3>1. Pushed(toBrain, toBrain', ExitEvent(u), 0, FALSE)
      BY <1>0, <2>3, PushedOne, ExitEventType
    <3>2. \A k \in 1..Len(toBrain') : FrameClaims(k)' =>
            k \in 1..Len(toBrain) /\ toBrain'[k] = toBrain[k] /\ FrameClaims(k)
      BY <3>1 DEF Pushed, ExitEvent, FrameClaims
    <3>3. ClaimsSound'
      BY <1>0, <2>1, <3>2 DEF ClaimsSound, OpClaims, TodoClaims, Claimable, NoAbort
    <3>4. ClaimsApart'
      BY <1>0, <2>1, <3>2 DEF ClaimsApart, OpClaims, TodoClaims
    <3> QED BY <3>3, <3>4
  <2> QED BY <2>1, <2>2, <2>3
<1>3. ASSUME NEW i \in Inc, ExitStep(i)
      PROVE  ClaimsSound' /\ ClaimsApart'
  BY <1>0, <1>q, <1>3, StaySilent DEF ExitStep, ChildExits, brainVars, OpClaims, TodoClaims
<1>4. ASSUME NEW i \in Inc, ObserverStep(i) \/ AckTimeout(i)
      PROVE  ClaimsSound' /\ ClaimsApart'
  <2>1. UNCHANGED <<op, todo>>
    BY <1>4 DEF ObserverStep, OnExit, Settle, Acked, AckTimeout
  <2>2. \A l \in Inc : obs[l].pc = "none" => obs'[l].pc = "none"
    BY <1>0, <1>4 DEF ObserverStep, OnExit, Settle, Acked, AckTimeout, BrainTypeOK
  <2>3. Req("ack_exit", obs[i].uid, i, Observer).verb # "abort_spawn"
        /\ Req("forget", obs[i].uid, i, Nobody).verb # "abort_spawn"
    BY DEF Req
  <2> QED BY <1>0, <1>q, <1>4, <2>1, <2>2, <2>3, ExitSends DEF ObserverStep, OpClaims, TodoClaims
<1>5. CASE RouteExit \/ DropReply
  <2>1. UNCHANGED <<op, todo>>
    BY <1>5 DEF RouteExit, DropReply, brainVars
  <2>2. \A l \in Inc : obs[l].pc = "none" => obs'[l].pc = "none"
    BY <1>0, <1>5 DEF RouteExit, DropReply, brainVars, BrainTypeOK
  <2> QED BY <1>0, <1>q, <1>5, <2>1, <2>2, ExitSends DEF OpClaims, TodoClaims
<1>6. ASSUME NEW c \in Caller, SpawnReply(c)
      PROVE  ClaimsSound' /\ ClaimsApart'
  <2> DEFINE f == Head(toBrain)
  <2>1. /\ UNCHANGED <<toHolder, obs, todo, nextInc>> /\ SendsNothing
        /\ toBrain # <<>> /\ toBrain' = Tail(toBrain) /\ f.from = c
        /\ op[c].pc = "spawning"
        /\ op' = [op EXCEPT ![c] = SpawnOutcome(@, f)]
    BY <1>0, <1>6, CallerSends DEF SpawnReply, ReplyTo, holderVars
  <2>2. /\ f = toBrain[1] /\ 1 \in 1..Len(toBrain)
        /\ \A k \in 1..Len(toBrain') : k + 1 \in 1..Len(toBrain) /\ toBrain'[k] = toBrain[k + 1]
    BY <1>0, <2>1, Received DEF Shorter
  <2>3. Asked(op[f.from], f) /\ f.verb = "spawn"
    BY <1>0, <2>1, <2>2 DEF CallersHeard, Asked
  <2> HIDE DEF f
  <2>4. CASE ~f.ok
    <3>1. op'[c].pc = "idle" /\ \A d \in Caller : d # c => op'[d] = op[d]
      BY <1>0, <2>1, <2>4 DEF SpawnOutcome, Idle, BrainTypeOK
    <3> QED BY <1>0, <1>q, <2>1, <3>1 DEF OpClaims, TodoClaims
  <2>5. CASE f.ok
    <3>1. FrameClaims(1) /\ Claimable(f.inc)
      BY <1>0, <2>1, <2>2, <2>3, <2>5 DEF FrameClaims, ClaimsSound
    <3>2. /\ op'[c].pc = "spawned" /\ op'[c].inc = f.inc /\ \A d \in Caller : d # c => op'[d] = op[d]
          /\ ~OpClaims(c)
      BY <1>0, <2>1, <2>5 DEF SpawnOutcome, BrainTypeOK, OpClaims
    <3>3. \A i : Claimable(i) => Claimable(i)'
      BY <2>1 DEF Claimable, NoAbort
    <3>4. ASSUME NEW k \in 1..Len(toBrain'), FrameClaims(k)'
          PROVE  FrameClaims(k + 1) /\ toBrain'[k] = toBrain[k + 1] /\ k + 1 \in 1..Len(toBrain)
                 /\ toBrain'[k].inc # f.inc
      <4>1. FrameClaims(k + 1) /\ toBrain'[k] = toBrain[k + 1] /\ k + 1 \in 1..Len(toBrain)
        BY <2>2, <3>4 DEF FrameClaims
      <4> QED BY <1>0, <2>2, <3>1, <4>1 DEF ClaimsApart
    <3>5. /\ \A u \in Uid : TodoClaims(u)' => TodoClaims(u) /\ todo'[u].inc = todo[u].inc /\ todo[u].inc # f.inc
          /\ \A d \in Caller : OpClaims(d)' =>
               \/ d = c /\ op'[d].inc = f.inc
               \/ d # c /\ OpClaims(d) /\ op'[d].inc = op[d].inc /\ op[d].inc # f.inc
      BY <1>0, <2>1, <2>2, <3>1, <3>2 DEF ClaimsApart, OpClaims, TodoClaims
    <3>6. ClaimsSound'
      BY <1>0, <3>1, <3>3, <3>4, <3>5 DEF ClaimsSound
    <3>7. ASSUME NEW k \in 1..Len(toBrain'), NEW l \in 1..Len(toBrain'), FrameClaims(k)', FrameClaims(l)',
                 toBrain'[k].inc = toBrain'[l].inc
          PROVE  k = l
      <4>1. k + 1 = l + 1
        BY <1>0, <3>4, <3>7 DEF ClaimsApart
      <4> QED BY <4>1
    <3>8. ClaimsApart'
      BY <1>0, <3>4, <3>5, <3>7 DEF ClaimsApart
    <3> QED BY <3>6, <3>8
  <2> QED BY <2>4, <2>5
<1>7. ASSUME NEW c \in Caller, ArmReply(c) \/ OpTimeout(c)
      PROVE  ClaimsSound' /\ ClaimsApart'
  <2>1. /\ UNCHANGED <<obs, todo>> /\ SendsNothing
        /\ op'[c].pc # "spawned" /\ \A d \in Caller : d # c => op'[d] = op[d]
    <3>1. [op[c] EXCEPT !.pc = "armfailed"].pc # "spawned" /\ Idle.pc # "spawned"
      BY <1>0 DEF Idle, BrainTypeOK
    <3>2. UNCHANGED <<obs, todo>> /\ SendsNothing
      BY <1>0, <1>7, CallerSends DEF ArmReply, OpTimeout
    <3>3. /\ op' = [op EXCEPT ![c] = op'[c]]
          /\ op'[c] \in {Idle, [op[c] EXCEPT !.pc = "armfailed"]}
      BY <1>0, <1>7 DEF ArmReply, OpTimeout, BrainTypeOK
    <3> QED BY <1>0, <3>1, <3>2, <3>3 DEF BrainTypeOK
  <2> QED BY <1>0, <1>q, <2>1 DEF OpClaims, TodoClaims
<1>8. ASSUME NEW c \in Caller, DropPending(c) \/ RemoveUnarmed(c) \/ InsertAndArm(c)
      PROVE  ClaimsSound' /\ ClaimsApart'
  <2>0. PICK j : j = op[c].inc
    OBVIOUS
  <2>1. /\ UNCHANGED todo
        /\ op'[c].pc # "spawned" /\ \A d \in Caller : d # c => op'[d] = op[d]
        /\ \A i \in Inc : i # j => obs'[i] = obs[i]
    BY <1>0, <1>8, <2>0 DEF DropPending, RemoveUnarmed, InsertAndArm, Idle, BrainTypeOK
  <2>2. PICK x : Sends(x) /\ (x.verb # "abort_spawn" \/ x.inc = j)
    <3>1. AbortReq(op[c].uid, j).inc = j /\ Req("arm_reap", op[c].uid, j, c).verb = "arm_reap"
      BY DEF AbortReq, Req
    <3>2. CASE DropPending(c) \/ RemoveUnarmed(c)
      BY <1>0, <2>0, <3>1, <3>2, CallerSends
    <3>3. CASE InsertAndArm(c)
      BY <1>0, <2>0, <3>1, <3>3, CallerSends
    <3> QED BY <1>8, <3>2, <3>3
  <2>3. obs[j].pc # "none" \/ ~Claimed(j)'
    <3>1. CASE RemoveUnarmed(c)
      BY <1>0, <2>0, <3>1 DEF RemoveUnarmed, WatchSound
    <3>2. CASE op[c].pc = "spawned"
      <4>1. PICK e \in 0..1 : \A k \in 1..Len(toBrain') :
               /\ k + e \in 1..Len(toBrain) /\ SameFrame(toBrain'[k], toBrain[k + e])
               /\ toBrain'[k].ok = toBrain[k + e].ok
        BY <1>k, <2>2 DEF KeptOk
      <4>2. Nobody \notin Caller
        BY TableAssumption, BrainAssumption
      <4>3. \A k \in 1..Len(toBrain') : FrameClaims(k)' =>
               FrameClaims(k + e) /\ toBrain'[k].inc = toBrain[k + e].inc /\ k + e \in 1..Len(toBrain)
        BY <4>1, <4>2 DEF FrameClaims, SameFrame
      <4>4. \A k \in 1..Len(toBrain') : FrameClaims(k)' => toBrain'[k].inc # j
        BY <1>0, <2>0, <3>2, <4>3 DEF ClaimsApart, OpClaims
      <4>5. \A d \in Caller : OpClaims(d)' => op'[d].inc # j
        BY <1>0, <2>0, <2>1, <3>2 DEF ClaimsApart, OpClaims
      <4>6. \A u \in Uid : TodoClaims(u)' => todo'[u].inc # j
        BY <1>0, <2>0, <2>1, <3>2 DEF ClaimsApart, OpClaims, TodoClaims
      <4> QED BY <4>4, <4>5, <4>6 DEF Claimed
    <3> QED BY <1>8, <3>1, <3>2 DEF DropPending, InsertAndArm
  <2> QED BY <1>0, <1>w, <2>1, <2>2, <2>3 DEF OpClaims, TodoClaims

<1>9. ASSUME NEW c \in Caller, NEW u \in Uid, StartOp(c, u)
      PROVE  ClaimsSound' /\ ClaimsApart'
  <2>1. /\ UNCHANGED <<obs, todo>> /\ Sends(Req("spawn", u, 0, c))
        /\ op'[c].pc # "spawned" /\ \A d \in Caller : d # c => op'[d] = op[d]
        /\ Req("spawn", u, 0, c).verb # "abort_spawn"
    BY <1>0, <1>9, CallerSends DEF StartOp, BrainTypeOK, Req
  <2> QED BY <1>0, <1>q, <2>1 DEF OpClaims, TodoClaims
<1>10. CASE FetchBoot
  <2>1. /\ UNCHANGED <<toHolder, toBrain, op, obs, nextInc, sess>>
        /\ toBrain = <<>> /\ toHolder = <<>> /\ Pristine
        /\ \A u \in Uid : todo'[u].inc = sess[u].inc
    BY <1>0, <1>10 DEF FetchBoot, tableVars, BootQuiet, Alive
  <2>2. Len(toBrain) = 0 /\ Len(toHolder) = 0
    BY <2>1
  <2>3. /\ \A k \in 1..Len(toBrain') : FALSE
        /\ \A i : NoAbort(i)'
    BY <2>1, <2>2 DEF NoAbort
  <2>4. \A c \in Caller : ~OpClaims(c)'
    BY <2>1 DEF OpClaims, Pristine, Idle
  <2>5. ASSUME NEW u \in Uid, TodoClaims(u)'
        PROVE  /\ todo'[u].inc \in Inc /\ todo'[u].inc < nextInc' /\ obs'[todo'[u].inc].pc = "none"
               /\ \A v \in Uid : sess[v].inc = sess[u].inc => v = u
    <3>1. Held(u)
      BY <2>1, <2>5 DEF TodoClaims, Held
    <3> QED BY <1>0, <2>1, <3>1, HeldFacts DEF Pristine, Unwatched
  <2>6. ClaimsSound'
    BY <2>3, <2>4, <2>5 DEF ClaimsSound, Claimable, NoAbort
  <2>7. ClaimsApart'
    BY <2>1, <2>3, <2>4, <2>5 DEF ClaimsApart
  <2> QED BY <2>6, <2>7
<1>11. CASE AdoptDone \/ RestoreDone
  <2>1. UNCHANGED <<op, todo, obs>> /\ SendsNothing
    BY <1>0, <1>11, BootSends DEF AdoptDone, RestoreDone
  <2> QED BY <1>0, <1>q, <2>1 DEF OpClaims, TodoClaims
<1>12. ASSUME NEW u \in Uid, AdoptForget(u) \/ AdoptSkip(u) \/ RestoreSkip(u)
       PROVE  ClaimsSound' /\ ClaimsApart'
  <2>1. UNCHANGED <<op, obs>> /\ (UNCHANGED todo \/ todo' = [todo EXCEPT ![u] = NoRecord])
    BY <1>12 DEF AdoptForget, AdoptSkip, RestoreSkip, Reconcile
  <2>4. \A v \in Uid : TodoClaims(v)' => todo'[v].inc = todo[v].inc
    BY <1>0, <2>1 DEF NoRecord, TodoClaims, BrainTypeOK
  <2>2. SendsNothing \/ Sends(Req("forget", u, todo[u].inc, Nobody))
    BY <1>0, <1>12, BootSends
  <2>3. Req("forget", u, todo[u].inc, Nobody).verb # "abort_spawn"
    BY DEF Req
  <2> QED BY <1>0, <1>q, <2>1, <2>2, <2>3, <2>4 DEF OpClaims
<1>13. ASSUME NEW u \in Uid, AdoptAbort(u) \/ AdoptOne(u)
       PROVE  ClaimsSound' /\ ClaimsApart'
  <2>0. PICK j : j = todo[u].inc
    OBVIOUS
  <2>1. /\ UNCHANGED <<op, toBrain>> /\ TodoClaims(u)
        /\ ~TodoClaims(u)' /\ \A v \in Uid : v # u => todo'[v] = todo[v]
        /\ \A i \in Inc : i # j => obs'[i] = obs[i]
    BY <1>0, <1>13, <2>0 DEF AdoptAbort, AdoptOne, Reconcile, NoRecord, BrainTypeOK, TodoClaims
  <2>2. PICK x : Sends(x) /\ (x.verb # "abort_spawn" \/ x.inc = j)
    <3>1. AbortReq(u, j).inc = j /\ Req("arm_reap", u, j, Nobody).verb = "arm_reap"
      BY DEF AbortReq, Req
    <3> QED BY <1>0, <1>13, <2>0, <3>1, BootSends
  <2>3. ~Claimed(j)'
    <3>1. \A k \in 1..Len(toBrain') : FrameClaims(k)' => toBrain'[k].inc # j
      BY <1>0, <2>0, <2>1 DEF ClaimsApart, FrameClaims
    <3>2. \A d \in Caller : OpClaims(d)' => op'[d].inc # j
      BY <1>0, <2>0, <2>1 DEF ClaimsApart, OpClaims
    <3>3. \A v \in Uid : TodoClaims(v)' => todo'[v].inc # j
      BY <1>0, <2>0, <2>1 DEF ClaimsApart, TodoClaims
    <3> QED BY <3>1, <3>2, <3>3 DEF Claimed
  <2> QED BY <1>0, <1>w, <2>1, <2>2, <2>3 DEF OpClaims, TodoClaims
<1> QED BY <1>1, <1>2, <1>3, <1>4, <1>5, <1>6, <1>7, <1>8, <1>9, <1>10, <1>11, <1>12, <1>13
        DEF OpenStep, CallerStep, BootStep

-----------------------------------------------------------------------------
(* What is listed is watched.                                              *)

\* A step that lists nothing and watches nothing new, and that aborts only what
\* is off the list.
LEMMA WatchKeep ==
  ASSUME WatchSound, BrainTypeOK, BrainTypeOK',
         nextInc \in Nat, nextInc' \in Nat, nextInc' >= nextInc,
         \A i \in Inc : /\ obs[i].pc # "none" => obs'[i].pc # "none" /\ obs'[i].uid = obs[i].uid
                        /\ obs'[i].pc # "none" => obs[i].pc # "none",
         \A u \in Uid : reg'[u] \in {reg[u], 0},
         \A c \in Caller : op'[c].pc \in {"arming", "armfailed"} =>
           op[c].pc \in {"arming", "armfailed"} /\ op'[c].inc = op[c].inc /\ op'[c].uid = op[c].uid,
         NEW x,
         \/ Kept(toHolder, toHolder')
         \/ /\ Longer(toHolder, toHolder', x)
            /\ x.verb = "abort_spawn" => /\ x.inc \in Inc /\ x.inc < nextInc
                                         /\ \A u \in Uid : reg'[u] # x.inc
  PROVE  WatchSound'
<1>0. 0 \notin Inc /\ \A i \in Inc : i \in Nat
  BY DEF Inc
<1>1. \A i \in Inc : obs'[i].pc # "none" => i < nextInc'
  BY <1>0 DEF WatchSound
<1>2. \A u \in Uid : reg'[u] # 0 => obs'[reg'[u]].pc # "none" /\ obs'[reg'[u]].uid = u
  BY DEF WatchSound, BrainTypeOK, Inc
<1>3. \A c \in Caller : op'[c].pc \in {"arming", "armfailed"} =>
        op'[c].inc \in Inc /\ obs'[op'[c].inc].pc # "none" /\ obs'[op'[c].inc].uid = op'[c].uid
  BY DEF WatchSound
<1>4. ASSUME NEW k \in 1..Len(toHolder'), toHolder'[k].verb = "abort_spawn"
      PROVE  /\ toHolder'[k].inc \in Inc /\ toHolder'[k].inc < nextInc
             /\ \A u \in Uid : reg'[u] # toHolder'[k].inc
  <2> DEFINE Off(i) == i \in Inc /\ i < nextInc /\ \A u \in Uid : reg'[u] # i
  <2>1. \A l \in 1..Len(toHolder) : toHolder[l].verb = "abort_spawn" => Off(toHolder[l].inc)
    BY <1>0 DEF WatchSound
  <2> SUFFICES Off(toHolder'[k].inc)
    OBVIOUS
  <2>2. CASE Kept(toHolder, toHolder')
    <3> HIDE DEF Off
    <3> QED BY <1>4, <2>1, <2>2 DEF Kept, SameFrame
  <2>3. CASE Longer(toHolder, toHolder', x) /\ (x.verb = "abort_spawn" => Off(x.inc))
    <3> HIDE DEF Off
    <3> QED BY <1>4, <2>1, <2>3 DEF Longer
  <2> QED BY <2>2, <2>3
<1>5. \A k \in 1..Len(toHolder') : toHolder'[k].verb = "abort_spawn" =>
        /\ toHolder'[k].inc \in Inc /\ toHolder'[k].inc < nextInc'
        /\ \A u \in Uid : reg'[u] # toHolder'[k].inc
  BY <1>0, <1>4
<1> QED BY <1>1, <1>2, <1>3, <1>5 DEF WatchSound

\* A claimed incarnation is listed and watched at once, under one uid (the
\* state lock's section of start_session and of adopt_at_boot).
LEMMA WatchInsert ==
  ASSUME WatchSound, BrainTypeOK, nextInc \in Nat, UNCHANGED nextInc,
         NEW i, Claimable(i), NEW u \in Uid,
         obs' = [obs EXCEPT ![i] = [pc |-> "waiting", uid |-> u]],
         reg' = [reg EXCEPT ![u] = i],
         \A c \in Caller : op'[c].pc \in {"arming", "armfailed"} =>
           \/ op[c].pc \in {"arming", "armfailed"} /\ op'[c].inc = op[c].inc /\ op'[c].uid = op[c].uid
           \/ op'[c].inc = i /\ op'[c].uid = u,
         NEW x, Longer(toHolder, toHolder', x), x.verb # "abort_spawn"
  PROVE  WatchSound'
<1>0. /\ i \in Inc /\ obs[i].pc = "none" /\ 0 \notin Inc /\ i < nextInc
      /\ obs'[i].pc = "waiting" /\ obs'[i].uid = u
      /\ \A j \in Inc : j # i => obs'[j] = obs[j]
      /\ reg'[u] = i /\ \A v \in Uid : v # u => reg'[v] = reg[v]
  BY DEF Claimable, BrainTypeOK, Inc
<1>1. \A j \in Inc : obs'[j].pc # "none" => j < nextInc'
  BY <1>0 DEF WatchSound
<1>2. \A v \in Uid : reg'[v] # 0 => obs'[reg'[v]].pc # "none" /\ obs'[reg'[v]].uid = v
  <2>1. ASSUME NEW v \in Uid, v # u, reg[v] # 0
        PROVE  reg[v] \in Inc /\ reg[v] # i /\ obs[reg[v]].pc # "none" /\ obs[reg[v]].uid = v
    BY <1>0, <2>1 DEF WatchSound, BrainTypeOK, Inc
  <2> QED BY <1>0, <2>1
<1>3. \A c \in Caller : op'[c].pc \in {"arming", "armfailed"} =>
        op'[c].inc \in Inc /\ obs'[op'[c].inc].pc # "none" /\ obs'[op'[c].inc].uid = op'[c].uid
  <2>1. ASSUME NEW c \in Caller, op[c].pc \in {"arming", "armfailed"}
        PROVE  op[c].inc \in Inc /\ op[c].inc # i /\ obs[op[c].inc].pc # "none" /\ obs[op[c].inc].uid = op[c].uid
    BY <1>0, <2>1 DEF WatchSound
  <2> QED BY <1>0, <2>1
<1>4. ASSUME NEW k \in 1..Len(toHolder'), toHolder'[k].verb = "abort_spawn"
      PROVE  /\ toHolder'[k].inc \in Inc /\ toHolder'[k].inc < nextInc'
             /\ \A v \in Uid : reg'[v] # toHolder'[k].inc
  <2>1. k \in 1..Len(toHolder) /\ toHolder'[k] = toHolder[k] /\ toHolder[k].inc # i
    BY <1>4 DEF Longer, Claimable, NoAbort
  <2> QED BY <1>0, <1>4, <2>1 DEF WatchSound
<1> QED BY <1>1, <1>2, <1>3, <1>4 DEF WatchSound

\* Every step of an open channel keeps the list and the observers together.
LEMMA WatchStep ==
  ASSUME BrainInv, OpenStep, chan = "open"
  PROVE  WatchSound'
<1>0. /\ WatchSound /\ ClaimsSound /\ TypeInv /\ TypeOK /\ BrainTypeOK /\ BrainTypeOK'
      /\ nextInc \in Nat /\ nextInc' \in Nat /\ nextInc' >= nextInc
      /\ ~HolderStep => UNCHANGED nextInc
      /\ 0 \notin Inc
  BY StepTypes, OpenIsNext, IncsGrow DEF BrainInv, OpenInv, Inc
<1>k. \A x : /\ Sends(x) => Longer(toHolder, toHolder', x)
             /\ SendsNothing => Kept(toHolder, toHolder')
  BY DEF Sends, SendsNothing
\* Nothing listed, nothing watched, nothing aborted.
<1>q. ASSUME NEW x,
             Kept(toHolder, toHolder') \/ (Sends(x) /\ x.verb # "abort_spawn"),
             \A i \in Inc : /\ obs[i].pc # "none" => obs'[i].pc # "none" /\ obs'[i].uid = obs[i].uid
                            /\ obs'[i].pc # "none" => obs[i].pc # "none",
             \A u \in Uid : reg'[u] \in {reg[u], 0},
             \A c \in Caller : op'[c].pc \in {"arming", "armfailed"} =>
               op[c].pc \in {"arming", "armfailed"} /\ op'[c].inc = op[c].inc /\ op'[c].uid = op[c].uid
      PROVE  WatchSound'
  BY <1>0, <1>k, <1>q, WatchKeep
<1>1. CASE HolderStep
  <2>1. toHolder \in Seq(Request) /\ Shorter(toHolder, toHolder')
    BY <1>0, <1>1, HandlerServes DEF BrainInv, TypeOK, Served
  <2>2. Kept(toHolder, toHolder')
    BY <2>1 DEF Kept, Shorter, SameFrame
  <2> QED BY <1>0, <1>1, <1>q, <2>2 DEF HolderStep, brainVars
<1>2. CASE (\E u \in Uid : SeeExitStep(u)) \/ (\E i \in Inc : ExitStep(i))
  <2>1. UNCHANGED toHolder /\ UNCHANGED brainVars
    BY <1>2 DEF SeeExitStep, SeeExit, ExitStep, ChildExits
  <2>2. Kept(toHolder, toHolder')
    BY <1>0, <2>1, KeptRequests DEF TypeOK
  <2> QED BY <1>0, <1>q, <2>1, <2>2 DEF brainVars
<1>3. ASSUME NEW i \in Inc, ObserverStep(i) \/ AckTimeout(i)
      PROVE  WatchSound'
  <2>1. UNCHANGED op /\ \A u \in Uid : reg'[u] \in {reg[u], 0}
    BY <1>0, <1>3 DEF ObserverStep, OnExit, Settle, Acked, AckTimeout, Delisted, BrainTypeOK
  <2>2. /\ obs[i].pc # "none"
        /\ \E p \in {"exited", "acking", "done"} : obs' = [obs EXCEPT ![i].pc = p]
    BY <1>3 DEF ObserverStep, OnExit, Settle, Acked, AckTimeout
  <2>3. \A l \in Inc : /\ obs[l].pc # "none" => obs'[l].pc # "none" /\ obs'[l].uid = obs[l].uid
                       /\ obs'[l].pc # "none" => obs[l].pc # "none"
    BY <1>0, <2>2 DEF BrainTypeOK
  <2>4. Req("ack_exit", obs[i].uid, i, Observer).verb # "abort_spawn"
        /\ Req("forget", obs[i].uid, i, Nobody).verb # "abort_spawn"
    BY DEF Req
  <2> QED BY <1>0, <1>k, <1>q, <1>3, <2>1, <2>3, <2>4, ExitSends DEF ObserverStep
<1>4. CASE RouteExit \/ DropReply
  <2>1. UNCHANGED <<op, reg>>
    BY <1>4 DEF RouteExit, DropReply, brainVars
  <2>2. \/ UNCHANGED obs
        \/ \E i \in Inc : obs[i].pc = "waiting" /\ obs' = [obs EXCEPT ![i].pc = "got"]
    <3>1. RouteExit => toBrain # <<>> /\ toBrain' = Tail(toBrain) /\ Head(toBrain).verb = "exit_event"
      BY DEF RouteExit
    <3>2. RouteExit => Head(toBrain).inc \in Inc
      BY <1>0, <3>1, Received DEF BrainInv, EventInv, EventsAreTrue
    <3> QED BY <1>4, <3>2 DEF RouteExit, DropReply, brainVars
  <2>3. \A l \in Inc : /\ obs[l].pc # "none" => obs'[l].pc # "none" /\ obs'[l].uid = obs[l].uid
                       /\ obs'[l].pc # "none" => obs[l].pc # "none"
    <3>1. CASE UNCHANGED obs
      BY <3>1
    <3>2. ASSUME NEW i \in Inc, obs[i].pc = "waiting", obs' = [obs EXCEPT ![i].pc = "got"]
          PROVE  <2>3
      BY <1>0, <3>2 DEF BrainTypeOK
    <3> QED BY <2>2, <3>1, <3>2
  <2> QED BY <1>0, <1>k, <1>q, <1>4, <2>1, <2>3, ExitSends
<1>5. ASSUME NEW c \in Caller, SpawnReply(c) \/ ArmReply(c) \/ OpTimeout(c)
      PROVE  WatchSound'
  <2>1. UNCHANGED <<obs, reg>> /\ SendsNothing
    BY <1>0, <1>5, CallerSends DEF SpawnReply, ArmReply, OpTimeout
  <2>2. \A d \in Caller : d # c => op'[d] = op[d]
    BY <1>0, <1>5 DEF SpawnReply, ArmReply, OpTimeout, BrainTypeOK
  <2>3. op'[c].pc \in {"arming", "armfailed"} =>
          op[c].pc \in {"arming", "armfailed"} /\ op'[c].inc = op[c].inc /\ op'[c].uid = op[c].uid
    <3>1. SpawnReply(c) => op'[c].pc \in {"idle", "spawned"}
      BY <1>0 DEF SpawnReply, SpawnOutcome, Idle, BrainTypeOK
    <3>2. /\ ArmReply(c) => op[c].pc = "arming" /\ op'[c] \in {Idle, [op[c] EXCEPT !.pc = "armfailed"]}
          /\ OpTimeout(c) => \/ op'[c] = Idle
                             \/ op[c].pc = "arming" /\ op'[c] = [op[c] EXCEPT !.pc = "armfailed"]
      BY <1>0 DEF ArmReply, OpTimeout, BrainTypeOK
    <3>3. /\ [op[c] EXCEPT !.pc = "armfailed"].inc = op[c].inc
          /\ [op[c] EXCEPT !.pc = "armfailed"].uid = op[c].uid
          /\ Idle.pc = "idle"
      BY <1>0 DEF Idle, BrainTypeOK
    <3> QED BY <1>5, <3>1, <3>2, <3>3
  <2> QED BY <1>0, <1>k, <1>q, <2>1, <2>2, <2>3
<1>6. ASSUME NEW c \in Caller, NEW u \in Uid, StartOp(c, u)
      PROVE  WatchSound'
  <2>1. /\ UNCHANGED <<obs, reg>> /\ Sends(Req("spawn", u, 0, c))
        /\ op'[c].pc = "spawning" /\ \A d \in Caller : d # c => op'[d] = op[d]
        /\ Req("spawn", u, 0, c).verb = "spawn"
    BY <1>0, <1>6, CallerSends DEF StartOp, BrainTypeOK, Req
  <2> QED BY <1>0, <1>q, <2>1
<1>7. ASSUME NEW c \in Caller, InsertAndArm(c)
      PROVE  WatchSound'
  <2>0. PICK u \in Uid, i \in 0..MaxInc : u = op[c].uid /\ i = op[c].inc
    BY <1>0, <1>7 DEF InsertAndArm, TypeInv, Named, BrainTypeOK
  <2>1. /\ UNCHANGED nextInc /\ Claimable(i)
        /\ obs' = [obs EXCEPT ![i] = [pc |-> "waiting", uid |-> u]]
        /\ reg' = [reg EXCEPT ![u] = i]
        /\ Sends(Req("arm_reap", u, i, c))
        /\ Req("arm_reap", u, i, c).verb = "arm_reap"
    BY <1>0, <1>7, <2>0, CallerSends DEF InsertAndArm, holderVars, ClaimsSound, OpClaims, Req
  <2>2. \A d \in Caller : op'[d].pc \in {"arming", "armfailed"} =>
           \/ op[d].pc \in {"arming", "armfailed"} /\ op'[d].inc = op[d].inc /\ op'[d].uid = op[d].uid
           \/ op'[d].inc = i /\ op'[d].uid = u
    BY <1>0, <1>7, <2>0 DEF InsertAndArm, BrainTypeOK
  <2>3. PICK x : x = Req("arm_reap", u, i, c)
    OBVIOUS
  <2>4. Longer(toHolder, toHolder', x) /\ x.verb # "abort_spawn"
    BY <1>k, <2>1, <2>3
  <2>5. WatchSound /\ BrainTypeOK /\ nextInc \in Nat
    BY <1>0
  <2> QED BY <2>1, <2>2, <2>4, <2>5, WatchInsert
<1>8. ASSUME NEW c \in Caller, DropPending(c) \/ RemoveUnarmed(c)
      PROVE  WatchSound'
  <2>0. PICK u, i : u = op[c].uid /\ i = op[c].inc
    OBVIOUS
  <2>1. /\ UNCHANGED obs /\ op' = [op EXCEPT ![c] = Idle]
        /\ Sends(AbortReq(u, i)) /\ AbortReq(u, i).inc = i
    BY <1>0, <1>8, <2>0, CallerSends DEF DropPending, RemoveUnarmed, AbortReq, Req
  <2>2. \A d \in Caller : op'[d].pc \in {"arming", "armfailed"} =>
           op[d].pc \in {"arming", "armfailed"} /\ op'[d].inc = op[d].inc /\ op'[d].uid = op[d].uid
    BY <1>0, <2>1 DEF Idle, BrainTypeOK
  <2>3. CASE DropPending(c)
    <3>1. Claimable(i) /\ UNCHANGED reg
      BY <1>0, <2>0, <2>3 DEF DropPending, ClaimsSound, OpClaims
    <3>2. \A v \in Uid : reg'[v] # i
      BY <1>0, <3>1 DEF Claimable, WatchSound
    <3> QED BY <1>0, <1>k, <2>1, <2>2, <3>1, <3>2, WatchKeep DEF Claimable
  <2>4. CASE RemoveUnarmed(c)
    <3>1. /\ u \in Uid /\ i \in Inc /\ obs[i].pc # "none" /\ obs[i].uid = u
          /\ reg' = [reg EXCEPT ![u] = 0] /\ i < nextInc
      BY <1>0, <2>0, <2>4 DEF RemoveUnarmed, WatchSound, Delisted, TypeInv, Named
    <3>2. \A v \in Uid : reg'[v] \in {reg[v], 0} /\ reg'[v] # i
      BY <1>0, <3>1 DEF WatchSound, BrainTypeOK
    <3> QED BY <1>0, <1>k, <2>1, <2>2, <3>1, <3>2, WatchKeep
  <2> QED BY <1>8, <2>3, <2>4
<1>9. CASE FetchBoot \/ AdoptDone \/ RestoreDone
  <2>1. UNCHANGED <<op, obs, reg>> /\ SendsNothing
    BY <1>0, <1>9, BootSends DEF FetchBoot, AdoptDone, RestoreDone
  <2> QED BY <1>0, <1>k, <1>q, <2>1
<1>10. ASSUME NEW u \in Uid, AdoptForget(u) \/ AdoptSkip(u) \/ RestoreSkip(u)
       PROVE  WatchSound'
  <2>1. UNCHANGED <<op, obs, reg>>
    BY <1>10 DEF AdoptForget, AdoptSkip, RestoreSkip
  <2>2. SendsNothing \/ Sends(Req("forget", u, todo[u].inc, Nobody))
    BY <1>0, <1>10, BootSends
  <2>3. Req("forget", u, todo[u].inc, Nobody).verb # "abort_spawn"
    BY DEF Req
  <2> QED BY <1>0, <1>k, <1>q, <2>1, <2>2, <2>3
<1>11. ASSUME NEW u \in Uid, AdoptAbort(u) \/ AdoptOne(u)
       PROVE  WatchSound'
  <2>0. PICK i : i = todo[u].inc
    OBVIOUS
  <2>1. UNCHANGED op /\ Claimable(i)
    BY <1>0, <1>11, <2>0 DEF AdoptAbort, AdoptOne, Reconcile, ClaimsSound, TodoClaims
  <2>2. CASE AdoptAbort(u)
    <3>1. /\ UNCHANGED <<obs, reg>> /\ Sends(AbortReq(u, i)) /\ AbortReq(u, i).inc = i
      BY <1>0, <2>0, <2>2, BootSends DEF AdoptAbort, AbortReq, Req
    <3>2. \A v \in Uid : reg'[v] # i
      BY <1>0, <2>1, <3>1 DEF Claimable, WatchSound
    <3> QED BY <1>0, <1>k, <2>1, <3>1, <3>2, WatchKeep DEF Claimable
  <2>3. CASE AdoptOne(u)
    <3>1. /\ UNCHANGED nextInc
          /\ obs' = [obs EXCEPT ![i] = [pc |-> "waiting", uid |-> u]]
          /\ reg' = [reg EXCEPT ![u] = i]
          /\ Sends(Req("arm_reap", u, i, Nobody))
          /\ Req("arm_reap", u, i, Nobody).verb = "arm_reap"
      BY <1>0, <2>0, <2>3, BootSends DEF AdoptOne, holderVars, Req
    <3> QED BY <1>0, <1>k, <2>1, <3>1, WatchInsert
  <2> QED BY <1>11, <2>2, <2>3
<1> QED BY <1>1, <1>2, <1>3, <1>4, <1>5, <1>6, <1>7, <1>8, <1>9, <1>10, <1>11
        DEF OpenStep, CallerStep, BootStep

-----------------------------------------------------------------------------
(* Every exit event finds its subscription waiting.                        *)

\* What is reaped stays reaped, in every step of the composed system.
LEMMA ReapedStays ==
  ASSUME CustodyInv, [BrainNext]_vars
  PROVE  \A i \in Inc : child[i] = "reaped" => child'[i] = "reaped"
<1>0. /\ child \in [Inc -> {"unborn", "running", "zombie", "reaped"}]
      /\ nextInc \in Inc => child[nextInc] # "reaped"
      /\ \A u \in Uid : sess[u].inc \in 0..MaxInc
  BY DEF CustodyInv, TypeOK, Fresh, Entry, Inc
<1>1. CASE HolderStep
  <2>1. \/ UNCHANGED child
        \/ \E i : child' = [child EXCEPT ![i] = "reaped"]
        \/ child' = [child EXCEPT ![nextInc] = "running"]
    BY <1>1 DEF HolderStep, HandleSpawnOk, HandleSpawnErr, HandleSpawnTorn, HandleArmReap,
           HandleAbortSpawn, HandleAckExit, HandleForget, holderVars
  <2> QED BY <1>0, <2>1
<1>2. ASSUME NEW u \in Uid, SeeExitStep(u)
      PROVE  \A i \in Inc : child[i] = "reaped" => child'[i] = "reaped"
  BY <1>0, <1>2 DEF SeeExitStep, SeeExit
<1>3. ASSUME NEW j \in Inc, ExitStep(j)
      PROVE  \A i \in Inc : child[i] = "reaped" => child'[i] = "reaped"
  BY <1>0, <1>3 DEF ExitStep, ChildExits
<1>4. CASE StopAll
  <2>1. \A i \in Inc : child'[i] = IF \E u \in Uid : sess[u].inc = i THEN "reaped" ELSE child[i]
    BY <1>4 DEF StopAll, Shutdown
  <2> QED BY <2>1
<1>5. CASE EofStep
  <2>1. UNCHANGED child \/ \A i \in Inc : child'[i] \in {child[i], "reaped"}
    BY <1>5 DEF EofStep, BrainEof, Sweep
  <2> QED BY <2>1
<1>6. CASE BrainUp \/ BrainCrash \/ BootStep \/ RouteExit \/ DropReply
  BY <1>6 DEF BrainUp, Serve, BrainCrash, BrainDies, WatchdogKill, BootStep, FetchBoot, AdoptDone,
         RestoreDone, AdoptForget, AdoptSkip, AdoptAbort, AdoptOne, RestoreSkip, RouteExit, DropReply,
         holderVars, tableVars
<1>7. ASSUME NEW j \in Inc, ObserverStep(j) \/ AckTimeout(j)
      PROVE  UNCHANGED child
  BY <1>7 DEF ObserverStep, OnExit, Settle, Acked, AckTimeout, holderVars
<1>8. ASSUME NEW c \in Caller, CallerStep(c) \/ OpTimeout(c) \/ \E u \in Uid : StartOp(c, u)
      PROVE  UNCHANGED child
  BY <1>8 DEF CallerStep, SpawnReply, DropPending, InsertAndArm, ArmReply, RemoveUnarmed, OpTimeout,
         StartOp, holderVars
<1>9. CASE UNCHANGED vars
  BY <1>9 DEF vars
<1> QED BY <1>1, <1>2, <1>3, <1>4, <1>5, <1>6, <1>7, <1>8, <1>9 DEF BrainNext

\* What a handler does to a session: nothing, it lets it go or starts it (and
\* then nothing is delivered for it yet), it acknowledges its exit, or arms it
\* because that very incarnation was named.
LEMMA HandlerEffect ==
  ASSUME EventInv, HolderStep, NEW u \in Uid
  PROVE  \/ sess'[u] = sess[u]
         \/ ~sess'[u].ready
         \/ /\ sess'[u].inc = sess[u].inc /\ sess'[u].ready = sess[u].ready
            /\ sess[u].exit # "none"
         \/ /\ Head(toHolder).verb = "arm_reap" /\ Head(toHolder).uid = u
            /\ sess[u].inc = Head(toHolder).inc /\ sess'[u].inc = sess[u].inc
            /\ sess[u].inc # 0
<1>0. sess \in [Uid -> Entry] /\ sess[u] \in Entry /\ CustodyInv
  BY DEF EventInv, CustodyInv, TypeOK
<1> DEFINE m == Head(toHolder)
<1>1. CASE HandleSpawnOk
  <2>1. sess' = [sess EXCEPT ![m.uid] = Spawned(nextInc)]
    BY <1>1 DEF HandleSpawnOk
  <2> QED BY <1>0, <2>1 DEF Spawned, NoEntry
<1>2. CASE HandleSpawnErr \/ HandleSpawnTorn
  BY <1>2 DEF HandleSpawnErr, HandleSpawnTorn, holderVars
<1>3. CASE HandleAbortSpawn \/ HandleForget
  <2>1. UNCHANGED sess \/ sess' = [sess EXCEPT ![m.uid] = NoEntry]
    BY <1>3 DEF HandleAbortSpawn, HandleForget
  <2> QED BY <1>0, <2>1 DEF NoEntry
<1>4. CASE HandleAckExit
  <2>1. \/ UNCHANGED sess
        \/ sess' = [sess EXCEPT ![m.uid].exit = "acked"] /\ sess[m.uid].exit = "pending"
    BY <1>4 DEF HandleAckExit, Ackable
  <2> QED BY <1>0, <2>1 DEF Entry
<1>5. CASE HandleArmReap
  <2> DEFINE e == [sess[m.uid] EXCEPT !.armed = TRUE, !.ready = TRUE]
  <2>1. /\ m.verb = "arm_reap"
        /\ \/ UNCHANGED sess
           \/ Matches(m) /\ sess' = [sess EXCEPT ![m.uid] = Consumed(e)]
           \/ Matches(m) /\ sess' = [sess EXCEPT ![m.uid] = e]
    BY <1>5 DEF HandleArmReap, Dispatch
  <2>2. CASE m.uid # u
    BY <1>0, <2>1, <2>2
  <2>3. CASE m.uid = u
    <3>1. e.inc = sess[u].inc /\ Consumed(e).inc = sess[u].inc
      BY <1>0, <2>3 DEF Consumed, Entry
    <3> HIDE DEF e
    <3> QED BY <1>0, <2>1, <2>3, <3>1 DEF Matches, Held
  <2> QED BY <2>2, <2>3
<1> QED BY <1>1, <1>2, <1>3, <1>4, <1>5 DEF HolderStep

\* The four facts about an exit's way to its observer.
ExitPath == ArmsWait /\ EventsWait /\ ReadyWatched /\ SeenReaped

\* A step that unlocks nothing and announces nothing, in which observers only
\* go on from an exit they have seen.
LEMMA ExitKeep ==
  ASSUME ExitPath, CustodyInv, UNCHANGED sess,
         \A i \in Inc : child[i] = "reaped" => child'[i] = "reaped",
         KeptOk(toBrain, toBrain'),
         \A i \in Inc : \/ obs'[i] = obs[i]
                        \/ /\ obs[i].pc \in {"got", "exited", "acking"}
                           /\ obs'[i].pc \in {"exited", "acking", "done"}
                           /\ obs'[i].uid = obs[i].uid,
         NEW x,
         Kept(toHolder, toHolder') \/ (Longer(toHolder, toHolder', x) /\ x.verb # "arm_reap")
  PROVE  ExitPath'
<1> USE DEF ExitPath
<1>1. \A i, u : Waiting(i, u) => Waiting(i, u)'
  BY DEF Waiting
<1>2. PICK e \in 0..1 : \A k \in 1..Len(toBrain') :
         k + e \in 1..Len(toBrain) /\ SameFrame(toBrain'[k], toBrain[k + e])
  BY DEF KeptOk
<1>3. PICK d \in 0..1 : \A k \in 1..Len(toHolder') : toHolder'[k].verb = "arm_reap" =>
         /\ k + d \in 1..Len(toHolder) /\ toHolder[k + d].verb = "arm_reap"
         /\ toHolder'[k].uid = toHolder[k + d].uid /\ toHolder'[k].inc = toHolder[k + d].inc
  <2>1. CASE Kept(toHolder, toHolder')
    BY <2>1 DEF Kept, SameFrame
  <2>2. CASE Longer(toHolder, toHolder', x) /\ x.verb # "arm_reap"
    <3>1. \A k \in 1..Len(toHolder') : k + 0 = k
      OBVIOUS
    <3> QED BY <2>2, <3>1 DEF Longer
  <2> QED BY <2>1, <2>2
<1>4. ASSUME NEW k \in 1..Len(toHolder'), toHolder'[k].verb = "arm_reap"
      PROVE  /\ toHolder'[k].inc \in Inc /\ obs'[toHolder'[k].inc].pc = "waiting"
             /\ obs'[toHolder'[k].inc].uid = toHolder'[k].uid
             /\ sess'[toHolder'[k].uid].inc = toHolder'[k].inc => ~sess'[toHolder'[k].uid].ready
             /\ \A j \in 1..Len(toBrain') :
                  toBrain'[j].verb = "exit_event" => toBrain'[j].inc # toHolder'[k].inc
             /\ \A j \in 1..Len(toHolder') :
                  toHolder'[j].verb = "arm_reap" /\ toHolder'[j].inc = toHolder'[k].inc => j = k
  <2>0. PICK i, u : i = toHolder'[k].inc /\ u = toHolder'[k].uid
    OBVIOUS
  <2>1. /\ k + d \in 1..Len(toHolder) /\ toHolder[k + d].verb = "arm_reap"
        /\ toHolder[k + d].inc = i /\ toHolder[k + d].uid = u
    BY <1>3, <1>4, <2>0
  <2>2. /\ Waiting(i, u) /\ (sess[u].inc = i => ~sess[u].ready)
        /\ \A j \in 1..Len(toBrain) : toBrain[j].verb = "exit_event" => toBrain[j].inc # i
        /\ \A j \in 1..Len(toHolder) :
             toHolder[j].verb = "arm_reap" /\ toHolder[j].inc = i => j = k + d
    BY <2>1 DEF ArmsWait
  <2>3. Waiting(i, u)'
    BY <1>1, <2>2
  <2>4. \A j \in 1..Len(toBrain') : toBrain'[j].verb = "exit_event" => toBrain'[j].inc # i
    BY <1>2, <2>2 DEF SameFrame
  <2>5. ASSUME NEW j \in 1..Len(toHolder'), toHolder'[j].verb = "arm_reap", toHolder'[j].inc = i
        PROVE  j = k
    <3>1. j + d = k + d
      BY <1>3, <2>2, <2>5
    <3> QED BY <3>1
  <2> QED BY <2>0, <2>2, <2>3, <2>4, <2>5 DEF Waiting, Inc
<1>5. ArmsWait'
  BY <1>4 DEF ArmsWait, Waiting
<1>6. ASSUME NEW k \in 1..Len(toBrain'), toBrain'[k].verb = "exit_event"
      PROVE  /\ toBrain'[k].inc \in Inc /\ obs'[toBrain'[k].inc].pc = "waiting"
             /\ obs'[toBrain'[k].inc].uid = toBrain'[k].uid
             /\ \A j \in 1..Len(toBrain') :
                  toBrain'[j].verb = "exit_event" /\ toBrain'[j].inc = toBrain'[k].inc => j = k
  <2>0. PICK i, u : i = toBrain'[k].inc /\ u = toBrain'[k].uid
    OBVIOUS
  <2>1. /\ k + e \in 1..Len(toBrain) /\ toBrain[k + e].verb = "exit_event"
        /\ toBrain[k + e].inc = i /\ toBrain[k + e].uid = u
    BY <1>2, <1>6, <2>0 DEF SameFrame
  <2>2. /\ Waiting(i, u)'
        /\ \A j \in 1..Len(toBrain) :
             toBrain[j].verb = "exit_event" /\ toBrain[j].inc = i => j = k + e
    BY <1>1, <2>1 DEF EventsWait
  <2>3. ASSUME NEW j \in 1..Len(toBrain'), toBrain'[j].verb = "exit_event", toBrain'[j].inc = i
        PROVE  j = k
    <3>1. j + e = k + e
      BY <1>2, <2>2, <2>3 DEF SameFrame
    <3> QED BY <3>1
  <2> QED BY <2>0, <2>2, <2>3 DEF Waiting, Inc
<1>7. EventsWait'
  BY <1>6 DEF EventsWait, Waiting
<1>8. ReadyWatched'
  BY HeldFacts DEF ReadyWatched, Held
<1>9. SeenReaped'
  BY DEF SeenReaped
<1> QED BY <1>5, <1>7, <1>8, <1>9

\* Insert and subscribe, then arm: the only request of its kind, sent before
\* anything about that incarnation may be delivered.
LEMMA ExitInsert ==
  ASSUME ExitPath, CustodyInv, BrainTypeOK, UNCHANGED <<sess, child, toBrain>>,
         NEW i, Claimable(i), NEW u \in Uid,
         obs' = [obs EXCEPT ![i] = [pc |-> "waiting", uid |-> u]],
         NEW x, Longer(toHolder, toHolder', x),
         x.verb = "arm_reap", x.uid = u, x.inc = i
  PROVE  ExitPath'
<1> USE DEF ExitPath
<1>0. /\ i \in Inc /\ obs[i].pc = "none"
      /\ obs'[i].pc = "waiting" /\ obs'[i].uid = u
      /\ \A j \in Inc : j # i => obs'[j] = obs[j]
      /\ Len(toHolder) \in Nat /\ Len(toHolder') = Len(toHolder) + 1
      /\ toHolder'[Len(toHolder')] = x
      /\ \A k \in 1..Len(toHolder') : k # Len(toHolder') => k \in 1..Len(toHolder) /\ toHolder'[k] = toHolder[k]
  BY DEF Claimable, BrainTypeOK, Longer
<1>1. /\ \A k \in 1..Len(toHolder) : toHolder[k].verb = "arm_reap" => toHolder[k].inc # i
      /\ \A k \in 1..Len(toBrain) : toBrain[k].verb = "exit_event" => toBrain[k].inc # i
  BY <1>0 DEF ArmsWait, EventsWait, Waiting
<1>2. sess[u].inc = i => ~sess[u].ready
  <2>1. ASSUME sess[u].inc = i, sess[u].ready
        PROVE  FALSE
    <3>1. Held(u)
      BY <1>0, <2>1 DEF Held, Inc
    <3>2. obs[sess[u].inc].pc # "none"
      BY <2>1, <3>1 DEF ReadyWatched
    <3> QED BY <1>0, <2>1, <3>2
  <2> QED BY <2>1 DEF CustodyInv, TypeOK, Entry
<1>3. ASSUME NEW k \in 1..Len(toHolder'), toHolder'[k].verb = "arm_reap"
      PROVE  /\ toHolder'[k].inc \in Inc /\ obs'[toHolder'[k].inc].pc = "waiting"
             /\ obs'[toHolder'[k].inc].uid = toHolder'[k].uid
             /\ sess'[toHolder'[k].uid].inc = toHolder'[k].inc => ~sess'[toHolder'[k].uid].ready
             /\ \A j \in 1..Len(toBrain') :
                  toBrain'[j].verb = "exit_event" => toBrain'[j].inc # toHolder'[k].inc
             /\ \A j \in 1..Len(toHolder') :
                  toHolder'[j].verb = "arm_reap" /\ toHolder'[j].inc = toHolder'[k].inc => j = k
  <2>1. CASE k = Len(toHolder')
    BY <1>0, <1>1, <1>2, <2>1
  <2>2. CASE k # Len(toHolder')
    <3>1. k \in 1..Len(toHolder) /\ toHolder'[k] = toHolder[k]
      BY <1>0, <2>2
    <3>2. /\ toHolder[k].inc # i
          /\ \A j \in 1..Len(toHolder) :
               toHolder[j].verb = "arm_reap" /\ toHolder[j].inc = toHolder[k].inc => j = k
          /\ toHolder[k].inc \in Inc /\ obs[toHolder[k].inc].pc = "waiting"
          /\ obs[toHolder[k].inc].uid = toHolder[k].uid
          /\ sess[toHolder[k].uid].inc = toHolder[k].inc => ~sess[toHolder[k].uid].ready
          /\ \A j \in 1..Len(toBrain) :
               toBrain[j].verb = "exit_event" => toBrain[j].inc # toHolder[k].inc
      BY <1>1, <1>3, <3>1 DEF ArmsWait, Waiting
    <3> QED BY <1>0, <3>1, <3>2
  <2> QED BY <2>1, <2>2
<1>4. ArmsWait'
  BY <1>3 DEF ArmsWait, Waiting, Inc
<1>5. EventsWait'
  BY <1>0, <1>1 DEF EventsWait, Waiting, Inc
<1>6. ASSUME NEW v \in Uid, Held(v), sess[v].ready
      PROVE  sess[v].inc \in Inc /\ sess[v].inc # i
  BY <1>0, <1>6, HeldFacts DEF ReadyWatched
<1>7. ReadyWatched'
  BY <1>0, <1>6 DEF ReadyWatched, Held
<1>8. SeenReaped'
  BY <1>0 DEF SeenReaped
<1> QED BY <1>4, <1>5, <1>7, <1>8

\* The reader routes the head event: its observer was waiting for it.
LEMMA ExitRouted ==
  ASSUME ExitPath, EventInv, BrainTypeOK, RouteExit
  PROVE  ExitPath' /\ UNCHANGED parked
<1> USE DEF ExitPath
<1>0. CustodyInv /\ TypeOK /\ toBrain \in Seq(Frame) /\ toBrain # <<>>
  BY DEF EventInv, CustodyInv, TypeOK, RouteExit
<1>1. /\ Head(toBrain) = toBrain[1] /\ 1 \in 1..Len(toBrain) /\ Head(toBrain).verb = "exit_event"
      /\ \A k \in 1..Len(toBrain') : k + 1 \in 1..Len(toBrain) /\ toBrain'[k] = toBrain[k + 1]
  BY <1>0, TailElements DEF RouteExit, Shorter
<1>2. PICK i, u : i = Head(toBrain).inc /\ u = Head(toBrain).uid
  OBVIOUS
<1>3. /\ i \in Inc /\ obs[i].pc = "waiting" /\ obs[i].uid = u /\ child[i] = "reaped"
      /\ \A j \in 1..Len(toBrain) : toBrain[j].verb = "exit_event" /\ toBrain[j].inc = i => j = 1
  BY <1>1, <1>2 DEF EventsWait, Waiting, EventInv, EventsAreTrue
<1>4. /\ obs' = [obs EXCEPT ![i].pc = "got"] /\ UNCHANGED <<parked, sess, child, toHolder>>
  BY <1>2, <1>3 DEF RouteExit, holderVars
<1>5. obs'[i].pc = "got" /\ obs'[i].uid = u /\ \A j \in Inc : j # i => obs'[j] = obs[j]
  BY <1>3, <1>4 DEF BrainTypeOK
<1>6. ASSUME NEW k \in 1..Len(toHolder), toHolder[k].verb = "arm_reap"
      PROVE  toHolder[k].inc # i
  BY <1>1, <1>2, <1>6 DEF ArmsWait
<1>7. ASSUME NEW k \in 1..Len(toHolder'), toHolder'[k].verb = "arm_reap"
      PROVE  /\ toHolder'[k].inc \in Inc /\ obs'[toHolder'[k].inc].pc = "waiting"
             /\ obs'[toHolder'[k].inc].uid = toHolder'[k].uid
             /\ sess'[toHolder'[k].uid].inc = toHolder'[k].inc => ~sess'[toHolder'[k].uid].ready
             /\ \A j \in 1..Len(toBrain') :
                  toBrain'[j].verb = "exit_event" => toBrain'[j].inc # toHolder'[k].inc
             /\ \A j \in 1..Len(toHolder') :
                  toHolder'[j].verb = "arm_reap" /\ toHolder'[j].inc = toHolder'[k].inc => j = k
  BY <1>1, <1>4, <1>5, <1>6, <1>7 DEF ArmsWait, Waiting
<1>8. ArmsWait'
  BY <1>7 DEF ArmsWait, Waiting, Inc
<1>9. ASSUME NEW k \in 1..Len(toBrain'), toBrain'[k].verb = "exit_event"
      PROVE  /\ toBrain'[k].inc \in Inc /\ obs'[toBrain'[k].inc].pc = "waiting"
             /\ obs'[toBrain'[k].inc].uid = toBrain'[k].uid
             /\ \A j \in 1..Len(toBrain') :
                  toBrain'[j].verb = "exit_event" /\ toBrain'[j].inc = toBrain'[k].inc => j = k
  <2>1. k + 1 \in 1..Len(toBrain) /\ toBrain'[k] = toBrain[k + 1] /\ k + 1 # 1
    BY <1>1
  <2>2. /\ toBrain[k + 1].inc \in Inc /\ toBrain[k + 1].inc # i
        /\ obs[toBrain[k + 1].inc].pc = "waiting" /\ obs[toBrain[k + 1].inc].uid = toBrain[k + 1].uid
        /\ \A j \in 1..Len(toBrain) :
             toBrain[j].verb = "exit_event" /\ toBrain[j].inc = toBrain[k + 1].inc => j = k + 1
    BY <1>3, <1>9, <2>1 DEF EventsWait, Waiting
  <2>3. ASSUME NEW j \in 1..Len(toBrain'), toBrain'[j].verb = "exit_event", toBrain'[j].inc = toBrain'[k].inc
        PROVE  j = k
    <3>1. j + 1 = k + 1
      BY <1>1, <2>1, <2>2, <2>3
    <3> QED BY <3>1
  <2> QED BY <1>5, <2>1, <2>2, <2>3
<1>10. EventsWait'
  BY <1>9 DEF EventsWait, Waiting, Inc
<1>11. ASSUME NEW v \in Uid, Held(v), sess[v].ready
       PROVE  /\ sess[v].inc \in Inc /\ obs[sess[v].inc].pc # "none" /\ obs[sess[v].inc].uid = v
              /\ sess[v].exit = "none" => obs[sess[v].inc].pc = "waiting" /\ sess[v].inc # i
  BY <1>0, <1>3, <1>11, HeldFacts DEF ReadyWatched
<1>12. ReadyWatched'
  <2>1. ASSUME NEW v \in Uid, Held(v), sess[v].ready
        PROVE  /\ obs'[sess[v].inc].pc # "none" /\ obs'[sess[v].inc].uid = v
               /\ sess[v].exit = "none" => obs'[sess[v].inc].pc = "waiting"
    BY <1>3, <1>5, <1>11, <2>1
  <2> QED BY <1>4, <2>1 DEF ReadyWatched, Held
<1>13. SeenReaped'
  BY <1>3, <1>4, <1>5 DEF SeenReaped
<1> QED BY <1>4, <1>8, <1>10, <1>12, <1>13

\* A handler announces an exit only to the arm_reap that names it, whose
\* subscription is waiting.
LEMMA ExitServe ==
  ASSUME ExitPath, EventInv, EventInv', BrainTypeOK, HolderStep, chan = "open",
         \A i \in Inc : child[i] = "reaped" => child'[i] = "reaped"
  PROVE  ExitPath'
<1> USE DEF ExitPath
<1>0. CustodyInv /\ CustodyInv' /\ TypeOK /\ UNCHANGED obs
  BY DEF EventInv, CustodyInv, HolderStep, brainVars
<1>1. PICK m, r, E : Served(m, r, E) /\ m = Head(toHolder)
  BY HandlerServes
<1>2. /\ m = toHolder[1] /\ 1 \in 1..Len(toHolder) /\ m \in Request
      /\ \A k \in 1..Len(toHolder') : k + 1 \in 1..Len(toHolder) /\ toHolder'[k] = toHolder[k + 1]
  BY <1>1 DEF Served, Shorter
<1>3. PICK i, u : i = m.inc /\ u = m.uid
  OBVIOUS
<1>4. E => /\ m.verb = "arm_reap" /\ sess[u].inc = i
           /\ ExitEvent(u).verb = "exit_event" /\ ExitEvent(u).inc = i /\ ExitEvent(u).uid = u
  BY <1>1, <1>3 DEF Served, Matches, ExitEvent
<1>5. \A k \in 1..Len(toBrain') :
        \/ k \in 1..Len(toBrain) /\ toBrain'[k] = toBrain[k]
        \/ k = Len(toBrain) + 1 /\ toBrain'[k].verb # "exit_event"
        \/ /\ E /\ k = Len(toBrain) + 2 /\ toBrain'[k].inc = i /\ toBrain'[k].uid = u
  <2>1. r.verb # "exit_event"
    BY <1>1 DEF Served, Request, Verbs
  <2> QED BY <1>1, <1>3, <1>4, <2>1 DEF Served, Pushed
<1>6. m.verb = "arm_reap" =>
        /\ i \in Inc /\ obs[i].pc = "waiting" /\ obs[i].uid = u
        /\ sess[u].inc = i => ~sess[u].ready
        /\ \A j \in 1..Len(toBrain) : toBrain[j].verb = "exit_event" => toBrain[j].inc # i
        /\ \A j \in 1..Len(toHolder) : toHolder[j].verb = "arm_reap" /\ toHolder[j].inc = i => j = 1
  BY <1>2, <1>3 DEF ArmsWait, Waiting
<1>7. ASSUME NEW k \in 1..Len(toHolder'), toHolder'[k].verb = "arm_reap"
      PROVE  /\ toHolder'[k].inc \in Inc /\ obs'[toHolder'[k].inc].pc = "waiting"
             /\ obs'[toHolder'[k].inc].uid = toHolder'[k].uid
             /\ sess'[toHolder'[k].uid].inc = toHolder'[k].inc => ~sess'[toHolder'[k].uid].ready
             /\ \A j \in 1..Len(toBrain') :
                  toBrain'[j].verb = "exit_event" => toBrain'[j].inc # toHolder'[k].inc
             /\ \A j \in 1..Len(toHolder') :
                  toHolder'[j].verb = "arm_reap" /\ toHolder'[j].inc = toHolder'[k].inc => j = k
  <2>1. PICK j, v : j = toHolder'[k].inc /\ v = toHolder'[k].uid
    OBVIOUS
  <2>2. k + 1 \in 1..Len(toHolder) /\ toHolder'[k] = toHolder[k + 1] /\ k + 1 # 1 /\ v \in Uid
    <3>1. k + 1 \in 1..Len(toHolder) /\ toHolder'[k] = toHolder[k + 1] /\ k + 1 # 1
      BY <1>2
    <3>2. toHolder[k + 1] \in Request
      BY <1>0, <3>1 DEF TypeOK
    <3> QED BY <2>1, <3>1, <3>2 DEF Request
  <2>3. /\ j \in Inc /\ obs[j].pc = "waiting" /\ obs[j].uid = v
        /\ sess[v].inc = j => ~sess[v].ready
        /\ \A l \in 1..Len(toBrain) : toBrain[l].verb = "exit_event" => toBrain[l].inc # j
        /\ \A l \in 1..Len(toHolder) : toHolder[l].verb = "arm_reap" /\ toHolder[l].inc = j => l = k + 1
    BY <1>7, <2>1, <2>2 DEF ArmsWait, Waiting
  <2>4. m.verb = "arm_reap" => i # j
    BY <1>2, <1>3, <2>2, <2>3
  <2>5. sess'[v].inc = j => ~sess'[v].ready
    <3>1. \/ sess'[v] = sess[v]
          \/ ~sess'[v].ready
          \/ sess'[v].inc = sess[v].inc /\ sess'[v].ready = sess[v].ready
          \/ m.verb = "arm_reap" /\ sess[v].inc = i /\ sess'[v].inc = sess[v].inc
      BY <1>1, <1>3, <2>2, HandlerEffect
    <3> QED BY <2>3, <2>4, <3>1
  <2>6. \A l \in 1..Len(toBrain') : toBrain'[l].verb = "exit_event" => toBrain'[l].inc # j
    BY <1>4, <1>5, <2>3, <2>4
  <2>7. ASSUME NEW l \in 1..Len(toHolder'), toHolder'[l].verb = "arm_reap", toHolder'[l].inc = j
        PROVE  l = k
    <3>1. l + 1 = k + 1
      BY <1>2, <2>3, <2>7
    <3> QED BY <3>1
  <2> QED BY <1>0, <2>1, <2>3, <2>5, <2>6, <2>7
<1>8. ArmsWait'
  BY <1>7 DEF ArmsWait, Waiting, Inc
<1>9. ASSUME NEW k \in 1..Len(toBrain'), toBrain'[k].verb = "exit_event"
      PROVE  /\ toBrain'[k].inc \in Inc /\ obs'[toBrain'[k].inc].pc = "waiting"
             /\ obs'[toBrain'[k].inc].uid = toBrain'[k].uid
             /\ \A j \in 1..Len(toBrain') :
                  toBrain'[j].verb = "exit_event" /\ toBrain'[j].inc = toBrain'[k].inc => j = k
  <2>1. CASE k \in 1..Len(toBrain) /\ toBrain'[k] = toBrain[k]
    <3>1. /\ toBrain[k].inc \in Inc /\ obs[toBrain[k].inc].pc = "waiting"
          /\ obs[toBrain[k].inc].uid = toBrain[k].uid
          /\ \A j \in 1..Len(toBrain) :
               toBrain[j].verb = "exit_event" /\ toBrain[j].inc = toBrain[k].inc => j = k
          /\ E => toBrain[k].inc # i
      BY <1>4, <1>6, <1>9, <2>1 DEF EventsWait, Waiting
    <3> QED BY <1>0, <1>5, <2>1, <3>1
  <2>2. CASE E /\ k = Len(toBrain) + 2 /\ toBrain'[k].inc = i /\ toBrain'[k].uid = u
    BY <1>0, <1>4, <1>5, <1>6, <2>2
  <2> QED BY <1>5, <1>9, <2>1, <2>2
<1>10. EventsWait'
  BY <1>9 DEF EventsWait, Waiting, Inc
<1>11. ASSUME NEW v \in Uid, sess'[v].inc # 0, sess'[v].ready
       PROVE  /\ obs[sess'[v].inc].pc # "none" /\ obs[sess'[v].inc].uid = v
              /\ sess'[v].exit = "none" => obs[sess'[v].inc].pc = "waiting"
  <2>1. CASE sess'[v] = sess[v]
    BY <1>11, <2>1 DEF ReadyWatched, Held
  <2>2. CASE /\ sess'[v].inc = sess[v].inc /\ sess'[v].ready = sess[v].ready /\ sess[v].exit # "none"
    <3>1. PICK j : j = sess[v].inc
      OBVIOUS
    <3>2. Held(v) /\ obs[j].pc # "none" /\ obs[j].uid = v
      BY <1>11, <2>2, <3>1 DEF ReadyWatched, Held
    <3>3. j \in Inc /\ child[j] = "reaped"
      BY <1>0, <2>2, <3>1, <3>2, HeldFacts
    <3>4. child'[sess'[v].inc] = "reaped" <=> sess'[v].exit # "none"
      BY <1>0, <1>11 DEF CustodyInv, Custody, Held
    <3> QED BY <2>2, <3>1, <3>2, <3>3, <3>4
  <2>3. CASE /\ m.verb = "arm_reap" /\ u = v /\ sess[v].inc = i /\ sess'[v].inc = sess[v].inc
    BY <1>6, <2>3
  <2> QED BY <1>1, <1>3, <1>11, <2>1, <2>2, <2>3, HandlerEffect
<1>12. ReadyWatched'
  BY <1>0, <1>11 DEF ReadyWatched, Held
<1>13. SeenReaped'
  BY <1>0 DEF SeenReaped
<1> QED BY <1>8, <1>10, <1>12, <1>13

\* A seen exit is announced only for a session that is ready, so its observer
\* is waiting, no arm_reap for it is in flight, and no other event is: the
\* child had not been reaped.
LEMMA ExitSeen ==
  ASSUME ExitPath, EventInv, BrainTypeOK, chan = "open", NEW u \in Uid, SeeExitStep(u),
         \A i \in Inc : child[i] = "reaped" => child'[i] = "reaped"
  PROVE  ExitPath'
<1> USE DEF ExitPath
<1>0. CustodyInv /\ TypeOK /\ UNCHANGED <<obs, toHolder>> /\ Held(u)
      /\ sess[u].exit = "none" /\ sess[u] \in Entry /\ sess \in [Uid -> Entry]
  BY DEF EventInv, CustodyInv, SeeExitStep, SeeExit, brainVars, TypeOK
<1>1. PICK i : i = sess[u].inc
  OBVIOUS
<1>2. i \in Inc /\ child[i] # "reaped"
  BY <1>0, <1>1, HeldFacts
<1>3. \/ sess' = [sess EXCEPT ![u] = Consumed(sess[u])]
      \/ sess' = [sess EXCEPT ![u].latched = TRUE]
  BY DEF SeeExitStep, SeeExit
<1>4. \A v \in Uid : sess'[v].inc = sess[v].inc /\ sess'[v].ready = sess[v].ready
                     /\ (sess'[v].exit = "none" => sess[v].exit = "none")
  <2>1. /\ Consumed(sess[u]).inc = i /\ Consumed(sess[u]).ready = sess[u].ready
        /\ Consumed(sess[u]).exit = "pending"
    BY <1>0, <1>1 DEF Consumed, Entry
  <2>2. CASE sess' = [sess EXCEPT ![u] = Consumed(sess[u])]
    BY <1>0, <1>1, <2>1, <2>2
  <2>3. CASE sess' = [sess EXCEPT ![u].latched = TRUE]
    BY <1>0, <2>3 DEF Entry
  <2> QED BY <1>3, <2>2, <2>3
<1>5. ReadyWatched'
  BY <1>0, <1>4 DEF ReadyWatched, Held
<1>6. SeenReaped'
  BY <1>0 DEF SeenReaped
<1>7. UNCHANGED toBrain \/ (Push(<<ExitEvent(u)>>) /\ sess[u].ready)
  BY DEF SeeExitStep, SeeExit, MayAnnounce
<1>8. CASE UNCHANGED toBrain
  <2>1. ASSUME NEW k \in 1..Len(toHolder), toHolder[k].verb = "arm_reap"
        PROVE  toHolder[k].uid \in Uid
    <3>1. toHolder[k] \in Request
      BY <1>0 DEF TypeOK
    <3> QED BY <3>1 DEF Request
  <2>2. ArmsWait'
    BY <1>0, <1>4, <1>8, <2>1 DEF ArmsWait, Waiting
  <2>3. EventsWait'
    BY <1>0, <1>8 DEF EventsWait, Waiting
  <2> QED BY <1>5, <1>6, <2>2, <2>3
<1>9. CASE Push(<<ExitEvent(u)>>) /\ sess[u].ready
  <2>1. obs[i].pc = "waiting" /\ obs[i].uid = u
    BY <1>0, <1>1, <1>9 DEF ReadyWatched
  <2>2. /\ ExitEvent(u) \in Frame /\ ExitEvent(u).inc = i /\ ExitEvent(u).uid = u
        /\ ExitEvent(u).verb = "exit_event"
    BY <1>0, <1>1, ExitEventType DEF ExitEvent
  <2>3. /\ Len(toBrain) \in Nat
        /\ \A k \in 1..Len(toBrain') :
             \/ k \in 1..Len(toBrain) /\ toBrain'[k] = toBrain[k]
             \/ k = Len(toBrain) + 1 /\ toBrain'[k] = ExitEvent(u)
    <3>1. Pushed(toBrain, toBrain', ExitEvent(u), 0, FALSE)
      BY <1>0, <1>9, <2>2, PushedOne
    <3> QED BY <3>1 DEF Pushed
  <2>4. \A k \in 1..Len(toBrain) : toBrain[k].verb = "exit_event" => toBrain[k].inc # i
    BY <1>2 DEF EventInv, EventsAreTrue
  <2>5. \A k \in 1..Len(toHolder) : toHolder[k].verb = "arm_reap" => toHolder[k].inc # i
    BY <1>1, <1>9, <2>1 DEF ArmsWait, Waiting
  <2>6. ASSUME NEW k \in 1..Len(toHolder), toHolder[k].verb = "arm_reap"
        PROVE  toHolder[k].uid \in Uid
    <3>1. toHolder[k] \in Request
      BY <1>0 DEF TypeOK
    <3> QED BY <3>1 DEF Request
  <2>7. ASSUME NEW k \in 1..Len(toHolder), toHolder[k].verb = "arm_reap"
        PROVE  /\ toHolder[k].inc \in Inc /\ obs'[toHolder[k].inc].pc = "waiting"
               /\ obs'[toHolder[k].inc].uid = toHolder[k].uid
               /\ sess'[toHolder[k].uid].inc = toHolder[k].inc => ~sess'[toHolder[k].uid].ready
               /\ \A j \in 1..Len(toBrain') :
                    toBrain'[j].verb = "exit_event" => toBrain'[j].inc # toHolder[k].inc
               /\ \A j \in 1..Len(toHolder) :
                    toHolder[j].verb = "arm_reap" /\ toHolder[j].inc = toHolder[k].inc => j = k
    BY <1>0, <1>4, <2>2, <2>3, <2>5, <2>6, <2>7 DEF ArmsWait, Waiting
  <2>8. ArmsWait'
    BY <1>0, <2>7 DEF ArmsWait, Waiting, Inc
  <2>9. ASSUME NEW k \in 1..Len(toBrain'), toBrain'[k].verb = "exit_event"
        PROVE  /\ toBrain'[k].inc \in Inc /\ obs'[toBrain'[k].inc].pc = "waiting"
               /\ obs'[toBrain'[k].inc].uid = toBrain'[k].uid
               /\ \A j \in 1..Len(toBrain') :
                    toBrain'[j].verb = "exit_event" /\ toBrain'[j].inc = toBrain'[k].inc => j = k
    <3>1. CASE k \in 1..Len(toBrain) /\ toBrain'[k] = toBrain[k]
      <4>1. /\ toBrain[k].inc \in Inc /\ obs[toBrain[k].inc].pc = "waiting"
            /\ obs[toBrain[k].inc].uid = toBrain[k].uid /\ toBrain[k].inc # i
            /\ \A j \in 1..Len(toBrain) :
                 toBrain[j].verb = "exit_event" /\ toBrain[j].inc = toBrain[k].inc => j = k
        BY <2>4, <2>9, <3>1 DEF EventsWait, Waiting
      <4> QED BY <1>0, <2>2, <2>3, <3>1, <4>1
    <3>2. CASE k = Len(toBrain) + 1 /\ toBrain'[k] = ExitEvent(u)
      BY <1>0, <1>2, <2>1, <2>2, <2>3, <2>4, <3>2
    <3> QED BY <2>3, <3>1, <3>2
  <2>10. EventsWait'
    BY <2>9 DEF EventsWait, Waiting, Inc
  <2> QED BY <1>5, <1>6, <2>8, <2>10
<1> QED BY <1>7, <1>8, <1>9

\* Every step of an open channel keeps the exits on their way.
LEMMA ExitPathStep ==
  ASSUME BrainInv, OpenStep, chan = "open"
  PROVE  ExitPath' /\ UNCHANGED parked
<1>0. /\ ExitPath /\ ClaimsSound /\ EventInv /\ EventInv' /\ CustodyInv /\ TypeInv /\ TypeOK
      /\ BrainTypeOK
      /\ \A i \in Inc : child[i] = "reaped" => child'[i] = "reaped"
  BY StepTypes, OpenIsNext, ReapedStays DEF BrainInv, OpenInv, ExitPath
<1>k. \A x : /\ Sends(x) => KeptOk(toBrain, toBrain') /\ Longer(toHolder, toHolder', x)
             /\ SendsNothing => KeptOk(toBrain, toBrain') /\ Kept(toHolder, toHolder')
  BY DEF Sends, SendsNothing
<1>q. ASSUME NEW x, UNCHANGED sess, SendsNothing \/ (Sends(x) /\ x.verb # "arm_reap"),
             \A i \in Inc : \/ obs'[i] = obs[i]
                            \/ /\ obs[i].pc \in {"got", "exited", "acking"}
                               /\ obs'[i].pc \in {"exited", "acking", "done"}
                               /\ obs'[i].uid = obs[i].uid
      PROVE  ExitPath'
  BY <1>0, <1>k, <1>q, ExitKeep
<1>1. CASE HolderStep
  BY <1>0, <1>1, ExitServe DEF HolderStep, brainVars
<1>2. ASSUME NEW u \in Uid, SeeExitStep(u)
      PROVE  ExitPath' /\ UNCHANGED parked
  BY <1>0, <1>2, ExitSeen DEF SeeExitStep, brainVars
<1>3. ASSUME NEW i \in Inc, ExitStep(i)
      PROVE  ExitPath' /\ UNCHANGED parked
  <2>1. UNCHANGED <<sess, obs, parked>> /\ SendsNothing
    BY <1>0, <1>3, StaySilent DEF ExitStep, ChildExits, brainVars
  <2> QED BY <1>q, <2>1
<1>4. ASSUME NEW i \in Inc, ObserverStep(i) \/ AckTimeout(i)
      PROVE  ExitPath' /\ UNCHANGED parked
  <2>1. UNCHANGED <<sess, parked>>
    BY <1>4 DEF ObserverStep, OnExit, Settle, Acked, AckTimeout, holderVars
  <2>2. /\ obs[i].pc \in {"got", "exited", "acking"}
        /\ \E p \in {"exited", "acking", "done"} : obs' = [obs EXCEPT ![i].pc = p]
    BY <1>4 DEF ObserverStep, OnExit, Settle, Acked, AckTimeout
  <2>3. \A l \in Inc : \/ obs'[l] = obs[l]
                       \/ /\ obs[l].pc \in {"got", "exited", "acking"}
                          /\ obs'[l].pc \in {"exited", "acking", "done"}
                          /\ obs'[l].uid = obs[l].uid
    BY <1>0, <2>2 DEF BrainTypeOK
  <2>4. Req("ack_exit", obs[i].uid, i, Observer).verb # "arm_reap"
        /\ Req("forget", obs[i].uid, i, Nobody).verb # "arm_reap"
    BY DEF Req
  <2> QED BY <1>0, <1>q, <1>4, <2>1, <2>3, <2>4, ExitSends DEF ObserverStep
<1>5. CASE RouteExit
  BY <1>0, <1>5, ExitRouted
<1>6. CASE DropReply
  <2>1. UNCHANGED <<sess, obs, parked>> /\ SendsNothing
    BY <1>0, <1>6, ExitSends DEF DropReply, brainVars, holderVars
  <2> QED BY <1>q, <2>1
<1>7. ASSUME NEW c \in Caller, SpawnReply(c) \/ ArmReply(c) \/ OpTimeout(c) \/ DropPending(c) \/ RemoveUnarmed(c)
      PROVE  ExitPath' /\ UNCHANGED parked
  <2>1. UNCHANGED <<sess, obs, parked>>
    BY <1>7 DEF SpawnReply, ArmReply, OpTimeout, DropPending, RemoveUnarmed, holderVars
  <2>2. SendsNothing \/ Sends(AbortReq(op[c].uid, op[c].inc))
    BY <1>0, <1>7, CallerSends
  <2>3. AbortReq(op[c].uid, op[c].inc).verb # "arm_reap"
    BY DEF AbortReq, Req
  <2> QED BY <1>q, <2>1, <2>2, <2>3
<1>8. ASSUME NEW c \in Caller, NEW u \in Uid, StartOp(c, u)
      PROVE  ExitPath' /\ UNCHANGED parked
  <2>1. UNCHANGED <<sess, obs, parked>> /\ Sends(Req("spawn", u, 0, c))
    BY <1>0, <1>8, CallerSends DEF StartOp, holderVars
  <2>2. Req("spawn", u, 0, c).verb # "arm_reap"
    BY DEF Req
  <2> QED BY <1>q, <2>1, <2>2
<1>9. ASSUME NEW c \in Caller, InsertAndArm(c)
      PROVE  ExitPath' /\ UNCHANGED parked
  <2>. PICK u \in Uid : u = op[c].uid
    BY <1>0, <1>9 DEF InsertAndArm, TypeInv, Named
  <2>0. PICK i, x : u = op[c].uid /\ i = op[c].inc /\ x = Req("arm_reap", u, i, c)
    OBVIOUS
  <2>1. /\ Claimable(i) /\ UNCHANGED <<sess, child, toBrain, parked>>
        /\ obs' = [obs EXCEPT ![i] = [pc |-> "waiting", uid |-> u]]
        /\ Sends(x)
        /\ x.verb = "arm_reap" /\ x.uid = u /\ x.inc = i
    BY <1>0, <1>9, <2>0, CallerSends DEF InsertAndArm, holderVars, ClaimsSound, OpClaims, Req
  <2> QED BY <1>0, <1>k, <2>1, ExitInsert
<1>10. ASSUME NEW u \in Uid, AdoptOne(u)
       PROVE  ExitPath' /\ UNCHANGED parked
  <2>0. PICK i, x : i = todo[u].inc /\ x = Req("arm_reap", u, i, Nobody)
    OBVIOUS
  <2>1. /\ Claimable(i) /\ UNCHANGED <<sess, child, toBrain, parked>>
        /\ obs' = [obs EXCEPT ![i] = [pc |-> "waiting", uid |-> u]]
        /\ Sends(x)
        /\ x.verb = "arm_reap" /\ x.uid = u /\ x.inc = i
    BY <1>0, <1>10, <2>0, BootSends DEF AdoptOne, Reconcile, holderVars, ClaimsSound, TodoClaims, Req
  <2> QED BY <1>0, <1>k, <2>1, ExitInsert
<1>11. CASE FetchBoot \/ AdoptDone \/ RestoreDone
  <2>1. UNCHANGED <<sess, obs, parked>> /\ SendsNothing
    BY <1>0, <1>11, BootSends DEF FetchBoot, AdoptDone, RestoreDone, tableVars
  <2> QED BY <1>q, <2>1
<1>12. ASSUME NEW u \in Uid, AdoptForget(u) \/ AdoptSkip(u) \/ RestoreSkip(u) \/ AdoptAbort(u)
       PROVE  ExitPath' /\ UNCHANGED parked
  <2>1. UNCHANGED <<sess, obs, parked>>
    BY <1>12 DEF AdoptForget, AdoptSkip, RestoreSkip, AdoptAbort, tableVars, holderVars
  <2>2. \/ SendsNothing \/ Sends(Req("forget", u, todo[u].inc, Nobody))
        \/ Sends(AbortReq(u, todo[u].inc))
    BY <1>0, <1>12, BootSends
  <2>3. Req("forget", u, todo[u].inc, Nobody).verb # "arm_reap"
        /\ AbortReq(u, todo[u].inc).verb # "arm_reap"
    BY DEF Req, AbortReq
  <2> QED BY <1>q, <2>1, <2>2, <2>3
<1> QED BY <1>1, <1>2, <1>3, <1>4, <1>5, <1>6, <1>7, <1>8, <1>9, <1>10, <1>11, <1>12
        DEF OpenStep, CallerStep, BootStep

-----------------------------------------------------------------------------
(* The boot, the ends of the channel, and the tombstones.                  *)

\* A brain that has fetched nothing yet only fetches: nothing else happens on
\* its channel, whatever children exit meanwhile.
LEMMA QuietStep ==
  ASSUME BrainInv, OpenStep, chan = "open"
  PROVE  BootQuiet'
<1> SUFFICES ASSUME phase' = "booting"
             PROVE  BootQuiet'
  BY DEF BootQuiet
<1>0. TypeOK /\ CustodyInv
  BY DEF BrainInv, EventInv, CustodyInv
<1>1. phase = "booting"
  BY DEF OpenStep, HolderStep, SeeExitStep, ExitStep, ObserverStep, OnExit, Settle, Acked, AckTimeout,
         BootStep, FetchBoot, AdoptDone, RestoreDone, AdoptForget, AdoptSkip, AdoptAbort,
         AdoptOne, RestoreSkip, RouteExit, DropReply, CallerStep, SpawnReply, DropPending, InsertAndArm,
         ArmReply, RemoveUnarmed, OpTimeout, StartOp, brainVars
<1>2. /\ Pristine /\ toHolder = <<>> /\ toBrain = <<>> /\ \A u \in Uid : ~sess[u].ready
  BY <1>1 DEF BrainInv, OpenInv, BootQuiet
<1>3. /\ \A c \in Caller : op[c].pc = "idle"
      /\ \A i \in Inc : obs[i].pc = "none"
  BY <1>2 DEF Pristine, Idle, Unwatched
<1>4. /\ ~HolderStep /\ ~RouteExit /\ ~DropReply
      /\ \A i \in Inc : ~ObserverStep(i) /\ ~AckTimeout(i)
      /\ \A c \in Caller : ~CallerStep(c) /\ ~OpTimeout(c)
      /\ \A c \in Caller, u \in Uid : ~StartOp(c, u)
  <2>1. ~HolderStep /\ ~RouteExit /\ ~DropReply
    BY <1>2 DEF HolderStep, HandleSpawnOk, HandleSpawnErr, HandleSpawnTorn, HandleArmReap,
         HandleAbortSpawn, HandleAckExit, HandleForget, Dispatch, RouteExit, DropReply
  <2>2. \A i \in Inc : ~ObserverStep(i) /\ ~AckTimeout(i)
    BY <1>3 DEF ObserverStep, OnExit, Settle, Acked, AckTimeout
  <2>3. \A c \in Caller : ~CallerStep(c) /\ ~OpTimeout(c)
    BY <1>3 DEF CallerStep, SpawnReply, DropPending, InsertAndArm, ArmReply, RemoveUnarmed, OpTimeout
  <2>4. \A c \in Caller, u \in Uid : ~StartOp(c, u)
    BY <1>1 DEF StartOp, Alive
  <2> QED BY <2>1, <2>2, <2>3, <2>4
<1>5. ~BootStep
  BY <1>1 DEF BootStep, FetchBoot, AdoptDone, RestoreDone, AdoptForget, AdoptSkip, AdoptAbort,
         AdoptOne, RestoreSkip, Reconcile, Alive
<1>6. ASSUME NEW u \in Uid, SeeExitStep(u)
      PROVE  BootQuiet'
  <2>1. UNCHANGED <<toHolder, toBrain, op, reg, obs, todo>>
    BY <1>2, <1>6 DEF SeeExitStep, SeeExit, MayAnnounce, brainVars
  <2>2. \A v \in Uid : sess'[v].ready = sess[v].ready
    <3>1. sess \in [Uid -> Entry] /\ Consumed(sess[u]).ready = sess[u].ready
      BY <1>0 DEF TypeOK, Entry, Consumed
    <3>2. \/ sess' = [sess EXCEPT ![u] = Consumed(sess[u])]
          \/ sess' = [sess EXCEPT ![u].latched = TRUE]
      BY <1>6 DEF SeeExitStep, SeeExit
    <3> QED BY <3>1, <3>2 DEF Entry
  <2> QED BY <1>2, <2>1, <2>2 DEF BootQuiet, Pristine
<1>7. ASSUME NEW i \in Inc, ExitStep(i)
      PROVE  BootQuiet'
  BY <1>2, <1>7 DEF ExitStep, ChildExits, brainVars, BootQuiet, Pristine
<1> QED BY <1>4, <1>5, <1>6, <1>7 DEF OpenStep

\* A tombstone is written with an incarnation only by the observer of that
\* incarnation's exit, so only once its child is reaped (handle_session_exit).
LEMMA TombsStep ==
  ASSUME BrainInv, BrainNext
  PROVE  TombsTrue'
<1>0. /\ BrainTypeOK /\ TombsTrue /\ (chan = "open" => SeenReaped) /\ CustodyInv
      /\ \A i \in Inc : child[i] = "reaped" => child'[i] = "reaped"
  BY StepTypes, ReapedStays DEF BrainInv, OpenInv
<1>1. \A t : TombTrue(t) => TombTrue(t)'
  BY <1>0 DEF TombTrue
<1>2. /\ TombTrue(NoTomb) /\ TombTrue([kind |-> "lost", inc |-> 0])
      /\ TombTrue(NoTomb)' /\ TombTrue([kind |-> "lost", inc |-> 0])'
  BY DEF TombTrue, NoTomb
<1>q. ASSUME \A u \in Uid : \/ memTomb'[u] \in {memTomb[u], tombFile[u], NoTomb, [kind |-> "lost", inc |-> 0]}
                            \/ TombTrue(memTomb'[u]),
             \A u \in Uid : tombFile'[u] \in {memTomb[u], tombFile[u], memTomb'[u]}
      PROVE  TombsTrue'
  <2>1. ASSUME NEW u \in Uid
        PROVE  /\ \A t : t = memTomb'[u] => TombTrue(t)'
               /\ \A t : t = tombFile'[u] => TombTrue(t)'
    <3>0. PICK t, f : t = memTomb'[u] /\ f = tombFile'[u]
      OBVIOUS
    <3>1. TombTrue(memTomb[u]) /\ TombTrue(tombFile[u])
      BY <1>0 DEF TombsTrue
    <3>2. TombTrue(t)'
      BY <1>1, <1>2, <1>q, <3>0, <3>1
    <3>3. TombTrue(f)'
      BY <1>1, <1>q, <3>0, <3>1, <3>2
    <3> QED BY <3>0, <3>2, <3>3
  <2> QED BY <2>1 DEF TombsTrue, TombTrue
<1>3. CASE UNCHANGED <<memTomb, tombFile>>
  BY <1>q, <1>3
<1>4. ASSUME NEW i \in Inc, OnExit(i)
      PROVE  TombsTrue'
  <2>1. child[i] = "reaped" /\ UNCHANGED tombFile
    BY <1>0, <1>4 DEF OnExit, SeenReaped
  <2>2. \A u \in Uid : memTomb'[u] = memTomb[u] \/ memTomb'[u] = ExitRecord(i, obs[i].uid)
    BY <1>0, <1>4 DEF OnExit, BrainTypeOK
  <2>3. TombTrue(ExitRecord(i, obs[i].uid))
    BY <2>1 DEF TombTrue, ExitRecord
  <2>4. \A u \in Uid : memTomb'[u] = memTomb[u] \/ TombTrue(memTomb'[u])
    <3>1. PICK t : t = ExitRecord(i, obs[i].uid)
      OBVIOUS
    <3> QED BY <2>2, <2>3, <3>1
  <2> QED BY <1>q, <2>1, <2>4
<1>5. ASSUME NEW i \in Inc, Settle(i)
      PROVE  TombsTrue'
  BY <1>5, <1>q DEF Settle, SaveTombs
<1>6. CASE AdoptDone
  <2>1. \/ UNCHANGED <<memTomb, tombFile>>
        \/ /\ \A u \in Uid : memTomb'[u] \in {memTomb[u], [kind |-> "lost", inc |-> 0]}
           /\ tombFile' = memTomb' \/ UNCHANGED tombFile
    BY <1>6 DEF AdoptDone
  <2> QED BY <1>q, <2>1
<1>7. CASE BrainUp
  BY <1>7, <1>q DEF BrainUp
<1>8. CASE BrainCrash
  <2>1. \A u \in Uid : memTomb'[u] = NoTomb
    BY <1>8 DEF BrainCrash
  <2>2. tombFile' \in {tombFile, memTomb}
    BY <1>8 DEF BrainCrash, PersistBeforeExit
  <2> QED BY <1>q, <2>1, <2>2
<1>9. CASE StopAll
  BY <1>9, <1>q DEF StopAll, PersistBeforeExit
<1>10. CASE HolderStep \/ EofStep \/ RouteExit \/ DropReply \/ (\E u \in Uid : SeeExitStep(u))
            \/ (\E i \in Inc : ExitStep(i))
  BY <1>3, <1>10 DEF HolderStep, EofStep, RouteExit, DropReply, SeeExitStep, ExitStep, brainVars
<1>11. ASSUME NEW i \in Inc, Acked(i) \/ AckTimeout(i)
       PROVE  TombsTrue'
  BY <1>3, <1>11 DEF Acked, AckTimeout
<1>12. ASSUME NEW c \in Caller, CallerStep(c) \/ OpTimeout(c) \/ \E u \in Uid : StartOp(c, u)
       PROVE  TombsTrue'
  BY <1>3, <1>12 DEF CallerStep, SpawnReply, DropPending, InsertAndArm, ArmReply, RemoveUnarmed,
         OpTimeout, StartOp
<1>13. CASE BootStep /\ ~AdoptDone
  BY <1>3, <1>13 DEF BootStep, FetchBoot, RestoreDone, AdoptForget, AdoptSkip, AdoptAbort,
         AdoptOne, RestoreSkip
<1> QED BY <1>4, <1>5, <1>6, <1>7, <1>8, <1>9, <1>10, <1>11, <1>12, <1>13
        DEF BrainNext, ObserverStep

\* No reverse migration is ever armed, and a brain that is gone leaves nothing
\* but the files and, until the end of the stream, its last requests.
LEMMA GoneStep ==
  ASSUME BrainInv, BrainNext
  PROVE  Gone' /\ ~split' /\ ~parked'
<1>0. Gone /\ ~split /\ ~parked
  BY DEF BrainInv
<1>1. CASE OpenStep /\ chan = "open"
  <2>1. UNCHANGED chan /\ UNCHANGED split
    BY <1>1 DEF OpenStep, HolderStep, HandleSpawnOk, HandleSpawnErr, HandleSpawnTorn, HandleArmReap,
         HandleAbortSpawn, HandleAckExit, HandleForget, SeeExitStep, SeeExit, ExitStep, ChildExits,
         ObserverStep, OnExit, Settle, Acked, AckTimeout, BootStep, FetchBoot, AdoptDone, RestoreDone,
         AdoptForget, AdoptSkip, AdoptAbort, AdoptOne, RestoreSkip, RouteExit, DropReply, CallerStep,
         SpawnReply, DropPending, InsertAndArm, ArmReply, RemoveUnarmed, OpTimeout, StartOp,
         holderVars, tableVars
  <2> QED BY <1>0, <1>1, <2>1, ExitPathStep DEF Gone
<1>2. CASE BrainUp
  BY <1>0, <1>2 DEF BrainUp, Serve, Gone
<1>3. CASE BrainCrash
  <2>0. Pristine' /\ ~parked'
    BY <1>3 DEF BrainCrash, Pristine
  <2>k. BrainDies \/ WatchdogKill
    BY <1>3 DEF BrainCrash
  <2>s. ~split'
    BY <1>0, <2>k, Zenon DEF BrainDies, WatchdogKill
  <2>1. Pristine' /\ ~split' /\ ~parked'
    BY <2>0, <2>s
  <2>2. \/ chan = "open" /\ UNCHANGED toHolder /\ chan' = "closed"
        \/ toHolder' = <<>> /\ chan' = "down"
    BY <1>3 DEF BrainCrash, BrainDies, WatchdogKill
  <2>3. chan = "open" => AbortsNamed
    BY DEF BrainInv, OpenInv, WatchSound, AbortsNamed
  <2> QED BY <2>1, <2>2, <2>3 DEF Gone, AbortsNamed
<1>4. CASE StopAll
  BY <1>0, <1>4 DEF StopAll, Shutdown, Gone
<1>5. CASE EofStep
  BY <1>0, <1>5 DEF EofStep, BrainEof, brainVars, Gone, Pristine
<1>6. CASE chan # "open" /\ (HolderStep \/ (\E u \in Uid : SeeExitStep(u)))
  <2>1. Serving /\ UNCHANGED <<chan, split>> /\ UNCHANGED brainVars
    BY <1>6 DEF HolderStep, HandleSpawnOk, HandleSpawnErr, HandleSpawnTorn, HandleArmReap,
         HandleAbortSpawn, HandleAckExit, HandleForget, Dispatch, SeeExitStep, SeeExit, holderVars
  <2>2. UNCHANGED toHolder \/ (toHolder # <<>> /\ toHolder' = Tail(toHolder))
    BY <1>6 DEF HolderStep, HandleSpawnOk, HandleSpawnErr, HandleSpawnTorn, HandleArmReap,
         HandleAbortSpawn, HandleAckExit, HandleForget, Dispatch, SeeExitStep, SeeExit
  <2>3. toHolder \in Seq(Request)
    BY DEF BrainInv, EventInv, CustodyInv, TypeOK
  <2>4. chan = "closed" /\ AbortsNamed
    BY <1>0, <1>6, <2>1 DEF Serving, Gone
  <2>5. AbortsNamed'
    BY <2>2, <2>3, <2>4, TailElements DEF AbortsNamed, Shorter
  <2> QED BY <1>0, <1>6, <2>1, <2>4, <2>5 DEF Gone, Pristine, brainVars
<1>7. ASSUME NEW i \in Inc, ExitStep(i)
      PROVE  Gone' /\ ~split' /\ ~parked'
  BY <1>0, <1>7 DEF ExitStep, ChildExits, brainVars, Gone, Pristine, AbortsNamed
<1>8. chan = "open" \/ HolderStep \/ (\E u \in Uid : SeeExitStep(u)) \/ (\E i \in Inc : ExitStep(i))
        \/ EofStep \/ BrainUp \/ BrainCrash \/ StopAll
  BY DEF BrainNext, ObserverStep, OnExit, Settle, Acked, AckTimeout,
         BootStep, FetchBoot, AdoptDone, RestoreDone, AdoptForget, AdoptSkip, AdoptAbort,
         AdoptOne, RestoreSkip, Reconcile, Alive, RouteExit, DropReply, ReplyTo, CallerStep, SpawnReply,
         DropPending, InsertAndArm, ArmReply, RemoveUnarmed, OpTimeout, StartOp
<1>9. chan = "open" => OpenStep \/ EofStep \/ BrainUp \/ BrainCrash \/ StopAll
  BY DEF BrainNext, OpenStep
<1> QED BY <1>1, <1>2, <1>3, <1>4, <1>5, <1>6, <1>7, <1>8, <1>9

\* A generation that has just come up has claimed, listed and asked nothing.
LEMMA UpQuiet ==
  ASSUME BrainInv, BrainUp
  PROVE  OpenInv'
<1>0. /\ TypeOK /\ Pristine /\ toHolder = <<>> /\ toBrain = <<>>
  BY DEF BrainInv, EventInv, CustodyInv, Gone, BrainUp, Serve, OnlyOpenTalks
<1>1. /\ Pristine' /\ toHolder' = <<>> /\ toBrain' = <<>>
      /\ \A u \in Uid : ~sess'[u].ready
  <2>1. \A u \in Uid : ~Unready(sess[u]).ready
    BY <1>0 DEF Unready, TypeOK, Entry
  <2> QED BY <1>0, <2>1 DEF BrainUp, Serve, Pristine
<1>2. /\ \A k \in 1..Len(toHolder') : FALSE
      /\ \A k \in 1..Len(toBrain') : FALSE
  <2>1. Len(<<>>) = 0
    OBVIOUS
  <2> QED BY <1>1, <2>1
<1>3. /\ \A c \in Caller : op'[c].pc = "idle"
      /\ \A u \in Uid : reg'[u] = 0 /\ todo'[u].inc = 0
      /\ \A i \in Inc : obs'[i].pc = "none"
  BY <1>1 DEF Pristine, Idle, Unwatched, NoRecord
<1>4. BootQuiet' /\ CallersHeard'
  BY <1>1, <1>2 DEF BootQuiet, CallersHeard
<1>5. ClaimsSound' /\ ClaimsApart'
  BY <1>2, <1>3 DEF ClaimsSound, ClaimsApart, OpClaims, TodoClaims
<1>6. WatchSound'
  BY <1>2, <1>3 DEF WatchSound
<1>7. ArmsWait' /\ EventsWait' /\ SeenReaped' /\ ReadyWatched'
  BY <1>1, <1>2, <1>3 DEF ArmsWait, EventsWait, SeenReaped, ReadyWatched
<1> QED BY <1>4, <1>5, <1>6, <1>7 DEF OpenInv

\* The invariant holds at the start.
LEMMA BrainStart ==
  ASSUME BrainInit
  PROVE  BrainInv
<1>0. Init /\ 0 \in 0..MaxInc
  BY TableAssumption DEF BrainInit
<1>1. EventInv /\ TypeOK
  <2>1. CustodyInv /\ TypeOK /\ toBrain = <<>>
    BY <1>0, CustodyInit, TypeInit DEF Init
  <2> QED BY <2>1 DEF EventInv, OnlyOpenTalks, EventsAreTrue
<1>2. BrainTypeOK /\ Named
  BY <1>0, BrainAssumption
     DEF BrainInit, BrainTypeOK, Named, Idle, Unwatched, NoRecord, NoTomb
<1>3. ~split /\ ~parked /\ chan = "down" /\ toHolder = <<>> /\ Pristine
  BY DEF BrainInit, Init, Pristine
<1>4. TombsTrue
  BY DEF BrainInit, TombsTrue, TombTrue, NoTomb
<1> QED BY <1>1, <1>2, <1>3, <1>4 DEF BrainInv, TypeInv, Gone

\* And every step keeps it.
LEMMA BrainStep ==
  ASSUME BrainInv, [BrainNext]_vars
  PROVE  BrainInv'
<1>1. CASE BrainNext
  <2>1. EventInv' /\ TypeInv'
    BY <1>1, StepTypes
  <2>2. Gone' /\ ~split' /\ ~parked' /\ TombsTrue'
    BY <1>1, GoneStep, TombsStep
  <2>3. ASSUME chan' = "open"
        PROVE  OpenInv'
    <3>1. CASE OpenStep /\ chan = "open"
      <4>1. CallersHeard' /\ ClaimsSound' /\ ClaimsApart' /\ WatchSound' /\ ExitPath' /\ BootQuiet'
        BY <3>1, CallersStep, ClaimsStep, WatchStep, ExitPathStep, QuietStep
      <4> QED BY <4>1 DEF OpenInv, ExitPath
    <3> QED BY <1>1, <2>3, <3>1, UpQuiet, OpenOrUp
  <2> QED BY <2>1, <2>2, <2>3 DEF BrainInv
<1>2. CASE UNCHANGED vars
  <2>1. EventInv' /\ BrainTypeOK' /\ Named'
    BY <1>2, TableStep, BrainTypeStep DEF BrainInv
  <2> USE <1>2 DEF vars, BrainInv
  <2>2. Gone' /\ ~split' /\ ~parked' /\ TombsTrue'
    BY DEF Gone, AbortsNamed, Pristine, TombsTrue, TombTrue
  <2>3. TypeInv'
    BY <2>1 DEF EventInv, CustodyInv, TypeInv
  <2>4. CASE chan = "open"
    <3>1. BootQuiet' /\ CallersHeard'
      BY <2>4 DEF OpenInv, BootQuiet, Pristine, CallersHeard, Asked
    <3>2. ClaimsSound' /\ ClaimsApart'
      BY <2>4 DEF OpenInv, ClaimsSound, ClaimsApart, FrameClaims, OpClaims, TodoClaims, Claimable, NoAbort
    <3>3. WatchSound' /\ ReadyWatched' /\ SeenReaped'
      BY <2>4 DEF OpenInv, WatchSound, ReadyWatched, Held, SeenReaped
    <3>4. ArmsWait' /\ EventsWait'
      BY <2>4 DEF OpenInv, ArmsWait, EventsWait, Waiting
    <3> QED BY <2>1, <2>2, <2>3, <3>1, <3>2, <3>3, <3>4 DEF OpenInv
  <2> QED BY <2>1, <2>2, <2>3, <2>4
<1> QED BY <1>1, <1>2

\* The invariant the theorems below rest on.
LEMMA BrainInvariant == BrainSpec => []BrainInv
<1>1. BrainInit => BrainInv
  BY BrainStart
<1>2. BrainInv /\ [BrainNext]_vars => BrainInv'
  BY BrainStep
<1> QED BY <1>1, <1>2, PTL DEF BrainSpec

-----------------------------------------------------------------------------
(* The theorems.                                                           *)

\* Type correctness of the brain's tables, files and threads, for every value
\* of the constants.
THEOREM BrainTypeCorrect == BrainSpec => []BrainTypeOK
<1>1. BrainInv => BrainTypeOK
  BY DEF BrainInv, TypeInv
<1> QED BY <1>1, BrainInvariant, PTL

\* Whatever fails, comes late or crashes, an exit event finds its subscription
\* (route_exit's park branch is never taken).
THEOREM NeverParkedSafe == BrainSpec => []NeverParked
<1>1. BrainInv => NeverParked
  BY DEF BrainInv, NeverParked
<1> QED BY <1>1, BrainInvariant, PTL

\* Under every set of faults no abort in flight names a listed session, and a
\* tombstone that names an incarnation tells the truth about it.
THEOREM LateSafe == BrainSpec => []LateIsHarmless
<1>1. ASSUME BrainInv
      PROVE  LateIsHarmless
  <2>1. \A u \in Uid : \A t \in {memTomb[u], tombFile[u]} :
          t.inc # 0 => child[t.inc] = "reaped"
    BY <1>1 DEF BrainInv, TombsTrue, TombTrue
  <2>2. ASSUME NEW k \in 1..Len(toHolder), toHolder[k].verb = "abort_spawn"
        PROVE  reg[toHolder[k].uid] # toHolder[k].inc
    <3>0. /\ TypeOK /\ BrainTypeOK /\ Gone
          /\ chan \in {"open", "closed", "down", "migrated", "stopped"}
      BY <1>1 DEF BrainInv, EventInv, CustodyInv, TypeInv, TypeOK
    <3>1. toHolder[k] \in Request /\ toHolder[k].uid \in Uid
      <4>1. toHolder[k] \in Request
        BY <3>0 DEF TypeOK
      <4> QED BY <4>1 DEF Request
    <3>2. CASE chan = "open"
      BY <1>1, <2>2, <3>1, <3>2 DEF BrainInv, OpenInv, WatchSound
    <3>3. CASE chan = "closed"
      BY <2>2, <3>0, <3>1, <3>3 DEF Gone, AbortsNamed, Pristine, Inc
    <3>4. CASE chan \notin {"open", "closed"}
      <4>1. toHolder = <<>>
        BY <3>0, <3>4 DEF Gone
      <4> QED BY <4>1
    <3> QED BY <3>2, <3>3, <3>4
  <2> QED BY <2>1, <2>2 DEF LateIsHarmless
<1>2. BrainInv => LateIsHarmless
  BY <1>1
<1> QED BY <1>2, BrainInvariant, PTL
===============================================================================
