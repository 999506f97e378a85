------------------------ MODULE ContinuousRunProofs -------------------------
(***************************************************************************)
(* Proofs about ContinuousRun, for every number of callers, items, fires,  *)
(* sessions, requests and crashes and every choice of Kinds and Faults.    *)
(*                                                                         *)
(* FireInv is the invariant of the guard: who owns it, from which record   *)
(* its owner was armed, and what a pause or a drain has closed off.        *)
(* QueueInv adds the rows of a Consumer: where a claimed row is staged,    *)
(* which fires its item has been handed to, and which run may replay it.   *)
(***************************************************************************)
EXTENDS ContinuousRun, FiniteSetTheorems, TLAPS

(***************************************************************************)
(* The invariant of the guard.                                             *)
(***************************************************************************)
\* A guard has a token, and one no recorded run has: Open compares them.
GuardIsNew ==
  /\ task.guard.token = 0 => task.guard = NoGuard
  /\ task.guard.token # 0 => task.run.token # task.guard.token

\* A call overtaken by a pause or drain has an older revision than the record,
\* or the record is still paused; so it cannot be armed, and none that holds
\* the guard was overtaken.
OvertakenStayOut ==
  \A t \in Threads :
    /\ fire[t].pc = "loaded" =>
         /\ fire[t].rev <= task.rev
         /\ fire[t].closed => fire[t].rev < task.rev \/ task.paused
    /\ Held(t) => ~fire[t].closed

\* One call owns the guard, and a reconcile on its way found a guard that no
\* call owns.
GuardOwned ==
  /\ task.run.seq = task.runs
  /\ \A t \in Threads :
       /\ Held(t) =>
            /\ task.guard = [token |-> fire[t].token, uid |-> fire[t].uid]
            /\ fire[t].token # 0
            /\ fire[t].runs = task.runs
       /\ fire[t].pc = "loaded" => fire[t].runs <= task.runs
  /\ \A t, s \in Threads : Held(t) /\ Held(s) => t = s
  /\ tick.pc = "found" /\ tick.mark # 0 =>
       /\ task.guard.token = tick.mark
       /\ \A t \in Threads : ~Held(t)

\* What a drain names is not behind the last run nor the spawn window.
DrainedLast ==
  task.drain.on =>
    /\ task.run.seq <= task.drain.seq
    /\ \/ task.guard.token = 0
       \/ /\ task.guard.token = task.drain.token
          /\ task.runs + 1 <= task.drain.seq

FireInv ==
  /\ RunTypeOK
  /\ GuardIsNew
  /\ OvertakenStayOut
  /\ ~wiped => GuardOwned /\ DrainedLast

(***************************************************************************)
(* The invariant of the queue.                                             *)
(***************************************************************************)
\* The fires are numbered as they arm.
Numbered ==
  /\ task.run.no <= spent.fires
  /\ \A i \in Items : \A n \in given[i] : n <= spent.fires
  /\ \A t \in Threads : Held(t) => fire[t].no <= spent.fires /\ fire[t].no # task.run.no

\* What a call that has the guard has claimed, staged and handed over.
ClaimsStaged ==
  \A t \in Threads :
    /\ fire[t].pc \in {"loaded", "armed"} => fire[t].rows = {}
    /\ fire[t].pc = "armed" => Consumer /\ ~fire[t].compact
    /\ fire[t].pc \in {"loaded", "armed", "staged", "sent"}
         /\ (~Consumer \/ fire[t].compact) => fire[t].rows = {}
    /\ fire[t].pc \in {"staged", "sent"} /\ Consumer /\ ~fire[t].compact =>
         /\ Seq(t) \in DOMAIN batch
         /\ batch[Seq(t)] = fire[t].rows
    /\ fire[t].pc \in {"armed", "staged"} => \A i \in Items : fire[t].no \notin given[i]
    /\ fire[t].pc = "staged" => \A i \in fire[t].rows : given[i] \subseteq poisoned
    /\ fire[t].pc = "sent" =>
         /\ \A i \in Items : fire[t].no \in given[i] => i \in fire[t].rows
         /\ \A i \in fire[t].rows : given[i] \subseteq poisoned \cup {fire[t].no}
    /\ fire[t].pc \in {"staged", "sent"} => \A i \in fire[t].rows : item[i].at # "pending"

\* A call that may still arm has seen the Running run, which it will not prune.
OpenSeen ==
  \A t \in Threads :
    /\ fire[t].pc = "loaded" \/ Held(t)
    /\ fire[t].runs = task.runs
    /\ Running
    => fire[t].open = task.run.seq

\* The batch of the Running run: complete, its items handed to nobody else, and
\* off the queue unless an account block holds the run.
BatchKept ==
  Consumer /\ Running =>
    /\ task.run.seq \in DOMAIN batch
    /\ \A i \in Items : task.run.no \in given[i] => i \in batch[task.run.seq]
    /\ \A i \in batch[task.run.seq] :
         /\ given[i] \subseteq poisoned \cup {task.run.no}
         /\ task.block # task.run.seq => item[i].at # "pending"
    /\ \A t \in Threads : Held(t) => fire[t].rows \cap batch[task.run.seq] = {}

\* A blocked run is on the list of the poisoned ones, and nothing arms past it.
BlockHolds ==
  Running =>
    /\ task.run.seq # 0
    /\ task.block = task.run.seq =>
         /\ task.run.no \in poisoned
         /\ \A t \in Threads : ~Held(t)

\* A snapshot with the number of the last run is of that run.
SnapIsOfRun ==
  Snap.run.status = "running" =>
    /\ Snap.run.seq <= task.runs
    /\ Snap.run.seq = task.run.seq => Snap.run.no = task.run.no

\* A pending row has been handed to nobody but runs held by a block, and an
\* item to one other run at most.
HandedOnce ==
  \A i \in Items :
    /\ item[i].at = "pending" => given[i] \subseteq poisoned
    /\ \E n \in Nat : given[i] \ poisoned \subseteq {n}

QueueKept ==
  /\ Numbered
  /\ ClaimsStaged
  /\ OpenSeen
  /\ BatchKept
  /\ BlockHolds
  /\ SnapIsOfRun
  /\ HandedOnce

QueueInv == ~wiped => QueueKept

(***************************************************************************)
(* Types.                                                                  *)
(***************************************************************************)
Tasks == [guard : [token : Nat, uid : Nat],
          run : Runs,
          runs : Nat, cur : Nat, paused : BOOLEAN, rev : Nat,
          drain : [on : BOOLEAN, seq : Nat, token : Nat], block : Nat,
          inv : Nat, invs : Nat, closes : Nat, fails : Nat]

Places == {"idle", "loaded", "armed", "staged", "sent", "recorded", "mark",
           "fired", "failed", "skipped"}

Fires == [pc : Places,
          runs : Nat, rev : Nat, cur : Nat, open : Nat, live : BOOLEAN,
          want : Nat, token : Nat, no : Nat, uid : Nat, compact : BOOLEAN,
          rows : SUBSET Items, closed : BOOLEAN]

Snaps == [run : Runs, busy : BOOLEAN, paused : BOOLEAN, drain : BOOLEAN,
          block : Nat, closes : Nat, cur : Nat]

Ticks == [pc : {"idle", "found", "load", "pass", "investigate", "escalate",
                "recover"},
          pass : 0 .. 4, snap : Snaps, acted : BOOLEAN, mark : Nat]

Sessions == [Uids -> {"none", "live", "doomed", "exited", "gone"}]
Turns == [Uids -> {"busy", "quiet", "blocked"}]
Rows == [Items -> [at : {"pending", "claimed", "consumed"}, keyed : BOOLEAN]]
Budget == [fires : Nat, sessions : Nat, requests : Nat, crashes : Nat]

\* The parts of RunTypeOK.
RecordTypes == kind \in Kinds /\ task \in Tasks /\ poisoned \subseteq Nat /\ wiped \in BOOLEAN
ThreadTypes ==
  /\ lock \in Threads \cup {"free"}
  /\ fire \in [Threads -> Fires]
  /\ tick \in Ticks
  /\ spent \in Budget
AgentTypes == sess \in Sessions /\ turn \in Turns
QueueTypes ==
  /\ item \in Rows
  /\ DOMAIN batch \subseteq Nat
  /\ \A s \in DOMAIN batch : batch[s] \subseteq Items
  /\ given \in [Items -> SUBSET Nat]

LEMMA TypeParts == RunTypeOK <=> RecordTypes /\ ThreadTypes /\ AgentTypes /\ QueueTypes
  BY DEF RunTypeOK, RecordTypes, ThreadTypes, AgentTypes, QueueTypes, Tasks, Places,
         Fires, Snaps, Ticks, Sessions, Turns, Rows, Budget

\* The values a record, a call or a tick starts from.
LEMMA FreshTypes ==
  /\ NewTask \in Tasks
  /\ NoGuard \in [token : Nat, uid : Nat]
  /\ NoRun \in Runs
  /\ NoDrain \in [on : BOOLEAN, seq : Nat, token : Nat]
  /\ NoFire \in Fires
  /\ NoSnap \in Snaps
  /\ NoTick \in Ticks
  BY DEF NewTask, NoGuard, NoRun, NoDrain, NoFire, NoSnap, NoTick, Tasks, Runs, Fires,
         Places, Snaps, Ticks

\* A call that returns, or loads the record, is still a call.
LEMMA CallTypes ==
  ASSUME ThreadTypes, task \in Tasks, NEW t \in Threads
  PROVE  /\ \A p \in Places : Finish(t, p) => /\ fire' \in [Threads -> Fires]
                                              /\ lock' \in Threads \cup {"free"}
         /\ \A w \in Nat : Loaded(t, w) => fire' \in [Threads -> Fires]
         /\ Overtaken \in [Threads -> Fires]
<1> USE FreshTypes DEF ThreadTypes, Fires
<1>1. ASSUME NEW p \in Places, Finish(t, p)
      PROVE  fire' \in [Threads -> Fires] /\ lock' \in Threads \cup {"free"}
  BY <1>1 DEF Finish
<1>2. ASSUME NEW w \in Nat, Loaded(t, w) PROVE fire' \in [Threads -> Fires]
  BY <1>2 DEF Loaded, Tasks, Runs, Places, Persistent, Running, Alive
<1>3. Overtaken \in [Threads -> Fires]
  BY DEF Overtaken
<1> QED BY <1>1, <1>2, <1>3

\* A kill leaves a table of sessions.
LEMMA KillTypes ==
  ASSUME sess \in Sessions, NEW u
  PROVE  \A s \in Killed(u) : s \in Sessions
  BY DEF Killed, Sessions

\* Rows stay rows, and files hold items.
LEMMA RowTypes ==
  ASSUME QueueTypes
  PROVE  /\ \A rows, from : \A to \in {"pending", "claimed", "consumed"} :
              Moved(rows, from, to) \in Rows
         /\ \A rows : Replayed(rows) \in Rows
         /\ \A rows \in Claims : rows \subseteq Items
         /\ \A n \in Nat, rows \in SUBSET Items : \A open :
              /\ DOMAIN Staged(n, rows, open) \subseteq Nat
              /\ \A s \in DOMAIN Staged(n, rows, open) :
                   Staged(n, rows, open)[s] \subseteq Items
<1> USE DEF QueueTypes, Rows
<1>1. \A rows, from : \A to \in {"pending", "claimed", "consumed"} :
        Moved(rows, from, to) \in Rows
  BY DEF Moved
<1>2. \A rows : Replayed(rows) \in Rows
  BY DEF Replayed
<1>3. \A rows \in Claims : rows \subseteq Items
  BY DEF Claims, Pending
<1>4. ASSUME NEW n \in Nat, NEW rows \in SUBSET Items, NEW open
      PROVE  /\ DOMAIN Staged(n, rows, open) \subseteq Nat
             /\ \A s \in DOMAIN Staged(n, rows, open) :
                  Staged(n, rows, open)[s] \subseteq Items
  <2> DEFINE files == [s \in DOMAIN batch \cup {n} |-> IF s = n THEN rows ELSE batch[s]]
  <2>1. Retained(files, n, open) \subseteq DOMAIN files
    BY DEF Retained
  <2>2. Staged(n, rows, open) = [s \in Retained(files, n, open) |-> files[s]]
    BY DEF Staged
  <2>3. \A s \in DOMAIN files : s \in Nat /\ files[s] \subseteq Items
    OBVIOUS
  <2> HIDE DEF files
  <2> QED BY <2>1, <2>2, <2>3
<1> QED BY <1>1, <1>2, <1>3, <1>4

LEMMA TypesAtStart == ASSUME RunInit PROVE RunTypeOK
<1>1. RecordTypes /\ ThreadTypes
  BY RunAssumption, FreshTypes
  DEF RunInit, RecordTypes, ThreadTypes, Threads, Budget
<1>2. AgentTypes
  BY DEF RunInit, AgentTypes, Sessions, Turns
<1>3. QueueTypes
  BY DEF RunInit, QueueTypes, Rows
<1> QED BY <1>1, <1>2, <1>3, TypeParts

\* trigger.
LEMMA TriggerTypes ==
  ASSUME RunTypeOK, NEW t \in Threads, Trigger(t)
  PROVE  RunTypeOK'
<1>0. RecordTypes /\ ThreadTypes /\ AgentTypes /\ QueueTypes
  BY TypeParts
<1> SUFFICES RecordTypes' /\ ThreadTypes' /\ AgentTypes' /\ QueueTypes'
  BY TypeParts DEF RunTypeOK, RecordTypes, ThreadTypes, AgentTypes, QueueTypes, Tasks,
     Places, Fires, Snaps, Ticks, Sessions, Turns, Rows, Budget
<1> USE FreshTypes DEF Places
<1>1. fire[t] \in Fires /\ task \in Tasks
  BY <1>0 DEF RecordTypes, ThreadTypes
<1>2. \A p \in Places : Finish(t, p) => /\ fire' \in [Threads -> Fires]
                                        /\ lock' \in Threads \cup {"free"}
  BY <1>0, <1>1, CallTypes
<1>3. \A rows, from : \A to \in {"pending", "claimed", "consumed"} :
        Moved(rows, from, to) \in Rows
  BY <1>0, RowTypes
<1>4. ASSUME Fails(t)
      PROVE  /\ task' \in Tasks
             /\ fire' \in [Threads -> Fires]
             /\ lock' \in Threads \cup {"free"}
  BY <1>1, <1>2, <1>4 DEF Fails, Tasks
<1>5. CASE Arm(t)
  <2>1. Token(t) \in Nat /\ spent.sessions + 1 \in Nat /\ fire[t].cur \in Nat
    BY <1>0, <1>1 DEF Token, Fires, ThreadTypes, Budget
  <2>2. task' \in Tasks
    BY <1>1, <1>5, <2>1 DEF Arm, Tasks
  <2>5. spent.fires \in Nat /\ spent.sessions \in Nat
    BY <1>0 DEF ThreadTypes, Budget
  <2>3. fire' \in [Threads -> Fires]
    <3>1. ASSUME NEW p \in Places, NEW k \in Nat, NEW n \in Nat, NEW u \in Nat,
                 NEW c \in BOOLEAN
          PROVE  [fire EXCEPT ![t].pc = p, ![t].token = k, ![t].no = n,
                      ![t].uid = u, ![t].compact = c,
                      ![t].want = 0, ![t].rev = 0, ![t].cur = 0]
                   \in [Threads -> Fires]
      <4> DEFINE f == [fire[t] EXCEPT !.pc = p, !.token = k, !.no = n, !.uid = u,
                          !.compact = c, !.want = 0, !.rev = 0, !.cur = 0]
      <4>1. f \in Fires
        BY <1>1, <3>1 DEF Fires
      <4>2. [fire EXCEPT ![t].pc = p, ![t].token = k, ![t].no = n,
                      ![t].uid = u, ![t].compact = c,
                      ![t].want = 0, ![t].rev = 0, ![t].cur = 0]
              = [fire EXCEPT ![t] = f]
        BY <1>0, <1>1, <3>1 DEF ThreadTypes
      <4> HIDE DEF f
      <4> QED BY <1>0, <4>1, <4>2 DEF ThreadTypes
    <3>2. spent.fires + 1 \in Nat
      BY <2>5
    <3>3. (IF Consumer /\ ~(/\ fire[t].live /\ t = Sched /\ CompactEvery > 0
                           /\ Seq(t) % CompactEvery = 0) THEN "armed" ELSE "staged")
            \in Places
      OBVIOUS
    <3>4. (IF fire[t].live THEN fire[t].cur ELSE spent.sessions + 1) \in Nat
      BY <2>1
    <3>5. (/\ fire[t].live /\ t = Sched /\ CompactEvery > 0
           /\ Seq(t) % CompactEvery = 0) \in BOOLEAN
      OBVIOUS
    <3>6. PICK p \in Places, u \in Nat, c \in BOOLEAN :
            fire' = [fire EXCEPT ![t].pc = p,
                      ![t].token = Token(t), ![t].no = spent.fires + 1,
                      ![t].uid = u, ![t].compact = c,
                      ![t].want = 0, ![t].rev = 0, ![t].cur = 0]
      BY <1>5, <3>3, <3>4, <3>5, Zenon DEF Arm
    <3>7. [fire EXCEPT ![t].pc = p, ![t].token = Token(t), ![t].no = spent.fires + 1,
                      ![t].uid = u, ![t].compact = c,
                      ![t].want = 0, ![t].rev = 0, ![t].cur = 0]
            \in [Threads -> Fires]
      BY <2>1, <3>1, <3>2, Zenon
    <3> QED BY <3>6, <3>7, Zenon
  <2>4. spent' \in Budget
    <3>1. ASSUME NEW m \in Nat, NEW n \in Nat
          PROVE  [spent EXCEPT !.fires = m, !.sessions = n] \in Budget
      BY <1>0, <3>1 DEF ThreadTypes, Budget
    <3>2. spent.fires + 1 \in Nat
      BY <2>5
    <3>3. (IF fire[t].live THEN spent.sessions ELSE spent.sessions + 1) \in Nat
      BY <2>5
    <3>4. spent' = [spent EXCEPT !.fires = spent.fires + 1,
                      !.sessions = IF fire[t].live THEN spent.sessions
                                                   ELSE spent.sessions + 1]
      BY <1>5, Zenon DEF Arm
    <3> QED BY <3>1, <3>2, <3>3, <3>4, Zenon
  <2> QED
    BY <1>0, <1>5, <2>2, <2>3, <2>4
    DEF Arm, RecordTypes, ThreadTypes, AgentTypes, QueueTypes, queueVars, histVars
<1>6. CASE ArmRefused(t)
  BY <1>0, <1>2, <1>6
  DEF ArmRefused, RecordTypes, ThreadTypes, AgentTypes, QueueTypes, queueVars, histVars
<1>7. CASE Stage(t)
  <2>1. PICK rows \in Claims :
          /\ item' = Moved(rows, "pending", "claimed")
          /\ batch' = Staged(Seq(t), rows, fire[t].open)
          /\ fire' = [fire EXCEPT ![t].pc = "staged", ![t].rows = rows]
    BY <1>7 DEF Stage
  <2>2. rows \in SUBSET Items /\ Seq(t) \in Nat
    BY <1>0, <1>1, RowTypes DEF Seq, Fires
  <2>3. DOMAIN batch' \subseteq Nat /\ \A s \in DOMAIN batch' : batch'[s] \subseteq Items
    BY <1>0, <2>1, <2>2, RowTypes
  <2>4. item' \in Rows
    BY <1>3, <2>1
  <2>5. fire' \in [Threads -> Fires]
    BY <1>0, <1>1, <2>1, <2>2 DEF ThreadTypes, Fires
  <2> QED
    BY <1>0, <1>7, <2>3, <2>4, <2>5
    DEF Stage, RecordTypes, ThreadTypes, AgentTypes, QueueTypes, histVars
<1>8. CASE StageFails(t)
  <2>1. item' \in Rows
    BY <1>0, <1>3, <1>8 DEF StageFails, QueueTypes
  <2>2. /\ task' \in Tasks
        /\ fire' \in [Threads -> Fires]
        /\ lock' \in Threads \cup {"free"}
    BY <1>4, <1>8 DEF StageFails
  <2> QED
    BY <1>0, <1>8, <2>1, <2>2
    DEF StageFails, RecordTypes, ThreadTypes, AgentTypes, QueueTypes, histVars
<1>9. CASE Send(t)
  <2>1. sess' \in Sessions
    BY <1>0, <1>9 DEF Send, AgentTypes, Sessions
  <2>2. turn' \in Turns /\ given' \in [Items -> SUBSET Nat]
    BY <1>0, <1>1, <1>9 DEF Send, Prompted, AgentTypes, QueueTypes, Turns, Fires
  <2>3. fire' \in [Threads -> Fires]
    BY <1>0, <1>1, <1>9 DEF Send, ThreadTypes, Fires
  <2> QED
    BY <1>0, <1>9, <2>1, <2>2, <2>3
    DEF Send, RecordTypes, ThreadTypes, AgentTypes, QueueTypes, histVars
<1>10. CASE SpawnFails(t)
  <2>1. item' \in Rows
    BY <1>0, <1>3, <1>10 DEF SpawnFails, Release, QueueTypes
  <2>2. /\ task' \in Tasks
        /\ fire' \in [Threads -> Fires]
        /\ lock' \in Threads \cup {"free"}
    BY <1>4, <1>10 DEF SpawnFails
  <2> QED
    BY <1>0, <1>10, <2>1, <2>2
    DEF SpawnFails, RecordTypes, ThreadTypes, AgentTypes, QueueTypes, histVars
<1>11. CASE Record(t)
  <2>1. task' \in Tasks
    <3>1. ASSUME NEW r \in Runs, NEW u \in Nat, NEW n \in Nat,
                 NEW g \in [token : Nat, uid : Nat]
          PROVE  [task EXCEPT !.run = r, !.cur = u, !.runs = n, !.guard = g,
                              !.block = 0, !.invs = 0, !.inv = 0] \in Tasks
      BY <1>1, <3>1 DEF Tasks
    <3>2. /\ fire[t].runs \in Nat /\ fire[t].token \in Nat /\ fire[t].uid \in Nat
          /\ fire[t].no \in Nat /\ task.runs + 1 \in Nat
      BY <1>1 DEF Fires, Tasks
    <3>3. [seq |-> Seq(t), token |-> fire[t].token, uid |-> fire[t].uid,
           status |-> IF fire[t].compact THEN "done" ELSE "running",
           no |-> fire[t].no] \in Runs
      BY <3>2 DEF Runs, Seq
    <3> QED BY <1>11, <3>1, <3>2, <3>3, Zenon DEF Record
  <2>2. fire' \in [Threads -> Fires] /\ lock' \in Threads \cup {"free"}
    <3>1. CASE Finish(t, "fired")
      BY <1>2, <3>1
    <3>2. CASE fire' = [fire EXCEPT ![t].pc = "recorded"] /\ UNCHANGED lock
      BY <1>0, <1>1, <3>2 DEF ThreadTypes, Fires
    <3> QED BY <1>11, <3>1, <3>2 DEF Record
  <2> QED
    BY <1>0, <1>11, <2>1, <2>2
    DEF Record, RecordTypes, ThreadTypes, AgentTypes, QueueTypes, queueVars, histVars
<1>12. CASE Ack(t)
  <2>1. item' \in Rows
    BY <1>0, <1>3, <1>12 DEF Ack, QueueTypes
  <2>2. fire' \in [Threads -> Fires] /\ lock' \in Threads \cup {"free"}
    BY <1>2, <1>12 DEF Ack
  <2> QED
    BY <1>0, <1>12, <2>1, <2>2
    DEF Ack, RecordTypes, ThreadTypes, AgentTypes, QueueTypes, histVars
<1> QED
  BY <1>5, <1>6, <1>7, <1>8, <1>9, <1>10, <1>11, <1>12 DEF Trigger

\* A run that is closed, or marked stuck, is a run.
LEMMA ClosedTypes ==
  ASSUME task \in Tasks
  PROVE  /\ \A s \in {"done", "failed", "orphaned"} : Closed(s) \in Tasks
         /\ Completed \in Tasks
         /\ [Closed("failed") EXCEPT !.closes = 0] \in Tasks
         /\ [Closed("failed") EXCEPT !.closes = @ + 1] \in Tasks
         /\ Stuck \in Tasks
<1>1. \A s \in {"done", "failed", "orphaned"} : Closed(s) \in Tasks
  BY DEF Closed, Tasks, Runs
<1>2. \A x \in Tasks : \A n \in Nat : [x EXCEPT !.closes = n] \in Tasks
  BY DEF Tasks
<1>3. Completed \in Tasks
  BY <1>1, <1>2 DEF Completed
<1>4. [Closed("failed") EXCEPT !.closes = 0] \in Tasks
  BY <1>1, <1>2
<1>5. Closed("failed").closes + 1 \in Nat
  BY <1>1 DEF Tasks
<1>6. [Closed("failed") EXCEPT !.closes = @ + 1] \in Tasks
  BY <1>1, <1>2, <1>5
<1>7. Stuck \in Tasks
  BY DEF Stuck, Tasks, Runs
<1> QED BY <1>1, <1>3, <1>4, <1>6, <1>7

\* Agents, reapers and the operator.
LEMMA OutsideTypes ==
  ASSUME RunTypeOK,
         \/ \E t \in Callers : RunNow(t)
         \/ \E u \in Uids : TurnEnds(u) \/ Nudge(u) \/ ReportDone(u) \/ Exit(u) \/ ExitHook(u)
         \/ Pause \/ Resume \/ Drain
         \/ \E seq \in Seqs : ForceDone(seq)
  PROVE  RunTypeOK'
<1>0. RecordTypes /\ ThreadTypes /\ AgentTypes /\ QueueTypes
  BY TypeParts
<1> SUFFICES RecordTypes' /\ ThreadTypes' /\ AgentTypes' /\ QueueTypes'
  BY TypeParts DEF RunTypeOK, RecordTypes, ThreadTypes, AgentTypes, QueueTypes, Tasks,
     Places, Fires, Snaps, Ticks, Sessions, Turns, Rows, Budget
<1>1. task \in Tasks /\ spent \in Budget /\ sess \in Sessions /\ turn \in Turns
  BY <1>0 DEF RecordTypes, ThreadTypes, AgentTypes
<1>2. Request => spent' \in Budget
  BY <1>1 DEF Request, Budget
<1>3. Completed \in Tasks /\ Closed("failed") \in Tasks
  BY <1>1, ClosedTypes
<1>4. Overtaken \in [Threads -> Fires]
  BY <1>0, <1>1, CallTypes, RunAssumption DEF Threads
<1> USE DEF RecordTypes, ThreadTypes, AgentTypes, QueueTypes, queueVars, histVars
<1>5. ASSUME NEW t \in Callers, RunNow(t) PROVE RecordTypes' /\ ThreadTypes' /\ AgentTypes' /\ QueueTypes'
  <2>1. PICK want \in 0 .. spent.fires : Loaded(t, want)
    BY <1>5 DEF RunNow
  <2>2. want \in Nat
    BY <1>1, <2>1 DEF Budget
  <2>3. fire' \in [Threads -> Fires]
    BY <1>0, <1>1, <2>1, <2>2, CallTypes DEF Threads
  <2> QED BY <1>0, <1>2, <1>5, <2>3 DEF RunNow
<1>6. ASSUME NEW u \in Uids,
             TurnEnds(u) \/ Nudge(u) \/ ReportDone(u) \/ Exit(u) \/ ExitHook(u)
      PROVE  RecordTypes' /\ ThreadTypes' /\ AgentTypes' /\ QueueTypes'
  <2>1. sess' \in Sessions /\ turn' \in Turns
    BY <1>1, <1>6 DEF TurnEnds, Nudge, ReportDone, Exit, ExitHook, Sessions, Turns
  <2>2. task' \in Tasks
    BY <1>1, <1>3, <1>6 DEF TurnEnds, Nudge, ReportDone, Exit, ExitHook
  <2> QED
    BY <1>0, <1>6, <2>1, <2>2 DEF TurnEnds, Nudge, ReportDone, Exit, ExitHook
<1>7. CASE Pause
  <2>1. \A n \in Nat : [task EXCEPT !.paused = TRUE, !.rev = n] \in Tasks
    BY <1>1 DEF Tasks
  <2>2. task.rev + 1 \in Nat
    BY <1>1 DEF Tasks
  <2>3. task' \in Tasks
    BY <1>7, <2>1, <2>2 DEF Pause
  <2> QED BY <1>0, <1>2, <1>4, <1>7, <2>3 DEF Pause
<1>8. CASE Resume
  <2>1. \A n \in Nat : [task EXCEPT !.paused = FALSE, !.rev = n, !.drain = NoDrain] \in Tasks
    BY <1>1, FreshTypes DEF Tasks
  <2>2. task.rev + 1 \in Nat
    BY <1>1 DEF Tasks
  <2>3. task' \in Tasks
    BY <1>8, <2>1, <2>2 DEF Resume
  <2> QED BY <1>0, <1>2, <1>8, <2>3 DEF Resume
<1>9. CASE Drain
  <2>1. \A n \in Nat : \A d \in [on : BOOLEAN, seq : Nat, token : Nat] :
          [task EXCEPT !.paused = TRUE, !.rev = n, !.drain = d] \in Tasks
    BY <1>1 DEF Tasks
  <2>2. task.rev + 1 \in Nat /\ DrainTarget \in [on : BOOLEAN, seq : Nat, token : Nat]
    BY <1>1 DEF Tasks, DrainTarget, Runs
  <2>3. task' \in Tasks
    BY <1>9, <2>1, <2>2 DEF Drain
  <2> QED BY <1>0, <1>2, <1>4, <1>9, <2>3 DEF Drain
<1>10. ASSUME NEW seq \in Seqs, ForceDone(seq)
       PROVE  RecordTypes' /\ ThreadTypes' /\ AgentTypes' /\ QueueTypes'
  BY <1>0, <1>2, <1>3, <1>10 DEF ForceDone
<1> QED BY <1>5, <1>6, <1>7, <1>8, <1>9, <1>10

\* The investigator's calls.
LEMMA ResolveTypes ==
  ASSUME RunTypeOK, NEW t \in Callers,
         MarkUnstuck(t) \/ ResolveRestart(t) \/ ResolveEscalate(t) \/ ResolveMark(t)
  PROVE  RunTypeOK'
<1>0. RecordTypes /\ ThreadTypes /\ AgentTypes /\ QueueTypes
  BY TypeParts
<1> SUFFICES RecordTypes' /\ ThreadTypes' /\ AgentTypes' /\ QueueTypes'
  BY TypeParts DEF RunTypeOK, RecordTypes, ThreadTypes, AgentTypes, QueueTypes, Tasks,
     Places, Fires, Snaps, Ticks, Sessions, Turns, Rows, Budget
<1>1. task \in Tasks /\ sess \in Sessions /\ t \in Threads
  BY <1>0 DEF RecordTypes, AgentTypes, Threads
<1>2. [task EXCEPT !.inv = 0] \in Tasks /\ Stuck \in Tasks
  BY <1>1, ClosedTypes DEF Tasks
<1>3. \A u : sess' \in Killed(u) => sess' \in Sessions
  BY <1>1, KillTypes
<1> USE DEF RecordTypes, ThreadTypes, AgentTypes, QueueTypes, queueVars, histVars
<1>4. CASE MarkUnstuck(t)
  BY <1>0, <1>2, <1>4 DEF MarkUnstuck
<1>5. CASE ResolveRestart(t)
  <2>1. fire' \in [Threads -> Fires] /\ lock' \in Threads \cup {"free"}
    BY <1>0, <1>1, <1>5, CallTypes DEF ResolveRestart
  <2> QED BY <1>0, <1>2, <1>3, <1>5, <2>1 DEF ResolveRestart
<1>6. CASE ResolveEscalate(t)
  <2>1. fire' \in [Threads -> Fires]
    BY <1>0, <1>1, <1>6 DEF ResolveEscalate, Fires, Places
  <2> QED BY <1>0, <1>1, <1>3, <1>6, <2>1 DEF ResolveEscalate
<1>7. CASE ResolveMark(t)
  <2>1. fire' \in [Threads -> Fires] /\ lock' \in Threads \cup {"free"}
    BY <1>0, <1>1, <1>7, CallTypes DEF ResolveMark, Places
  <2> QED BY <1>0, <1>2, <1>7, <2>1 DEF ResolveMark
<1> QED BY <1>4, <1>5, <1>6, <1>7

\* The scheduler's tick.
LEMMA TickTypes == ASSUME RunTypeOK, Tick PROVE RunTypeOK'
<1>0. RecordTypes /\ ThreadTypes /\ AgentTypes /\ QueueTypes
  BY TypeParts
<1> SUFFICES RecordTypes' /\ ThreadTypes' /\ AgentTypes' /\ QueueTypes'
  BY TypeParts DEF RunTypeOK, RecordTypes, ThreadTypes, AgentTypes, QueueTypes, Tasks,
     Places, Fires, Snaps, Ticks, Sessions, Turns, Rows, Budget
<1>1. /\ task \in Tasks /\ sess \in Sessions /\ tick \in Ticks /\ Sched \in Threads
      /\ NoTick \in Ticks
  BY <1>0, FreshTypes DEF RecordTypes, ThreadTypes, AgentTypes, Threads
<1>2. /\ Completed \in Tasks /\ Stuck \in Tasks
      /\ Closed("failed") \in Tasks /\ Closed("orphaned") \in Tasks
      /\ [Closed("failed") EXCEPT !.closes = 0] \in Tasks
      /\ [Closed("failed") EXCEPT !.closes = @ + 1] \in Tasks
  BY <1>1, ClosedTypes
<1>3. \A u : sess' \in Killed(u) => sess' \in Sessions
  BY <1>1, KillTypes
<1>4. \A n \in 0 .. 4 : [tick EXCEPT !.pass = n] \in Ticks
  BY <1>1 DEF Ticks
<1>5. \A n \in 0 .. 4 : [tick EXCEPT !.pc = "pass", !.pass = n] \in Ticks
  BY <1>1 DEF Ticks
<1>6. Loaded(Sched, 0) => fire' \in [Threads -> Fires]
  BY <1>0, <1>1, CallTypes
<1> USE DEF RecordTypes, ThreadTypes, AgentTypes, QueueTypes, queueVars, histVars
<1>7. CASE ReconcileFind
  <2>1. \A n \in Nat : [NoTick EXCEPT !.pc = "found", !.mark = n] \in Ticks
    BY <1>1 DEF Ticks
  <2>2. task.guard.token \in Nat
    BY <1>1 DEF Tasks
  <2> QED BY <1>0, <1>7, <2>1, <2>2 DEF ReconcileFind
<1>8. CASE OrphanWrite
  <2>1. \A x \in Tasks : [x EXCEPT !.guard = NoGuard, !.block = 0] \in Tasks
    BY FreshTypes DEF Tasks
  <2>2. task' \in Tasks
    BY <1>1, <1>2, <1>8, <2>1 DEF OrphanWrite
  <2>3. tick' \in Ticks
    BY <1>1, <1>8 DEF OrphanWrite, Ticks
  <2> QED BY <1>0, <1>8, <2>2, <2>3 DEF OrphanWrite
<1>9. CASE TickLoad
  <2>1. \A x \in Snaps : [NoTick EXCEPT !.pc = "pass", !.snap = x] \in Ticks
    BY <1>1 DEF Ticks
  <2>2. /\ (IF Running THEN task.run ELSE NoRun) \in Runs
        /\ (task.guard # NoGuard) \in BOOLEAN
        /\ task.paused \in BOOLEAN
        /\ (Running /\ task.drain.on) \in BOOLEAN
        /\ (IF Running THEN task.block ELSE 0) \in Nat
        /\ (IF Running THEN task.closes ELSE 0) \in Nat
        /\ (IF Persistent THEN task.cur ELSE 0) \in Nat
    BY <1>1, FreshTypes DEF Tasks, Running
  <2>3. \A r \in Runs, b, p, d \in BOOLEAN, k, c, u \in Nat :
          [run |-> r, busy |-> b, paused |-> p, drain |-> d, block |-> k,
           closes |-> c, cur |-> u] \in Snaps
    BY DEF Snaps
  <2>4. [run |-> IF Running THEN task.run ELSE NoRun,
         busy |-> task.guard # NoGuard, paused |-> task.paused,
         drain |-> Running /\ task.drain.on,
         block |-> IF Running THEN task.block ELSE 0,
         closes |-> IF Running THEN task.closes ELSE 0,
         cur |-> IF Persistent THEN task.cur ELSE 0] \in Snaps
    BY <2>2, <2>3
  <2>5. tick' \in Ticks
    BY <1>9, <2>1, <2>4, Zenon DEF TickLoad
  <2> QED BY <1>0, <1>9, <2>5 DEF TickLoad
<1>10. CASE Supervise \/ InvestigateFails
  BY <1>0, <1>1, <1>4, <1>6, <1>10 DEF Supervise, InvestigateFails
<1>11. CASE Abandon
  <2>1. [task EXCEPT !.inv = 0] \in Tasks
    BY <1>1 DEF Tasks
  <2> QED BY <1>0, <1>3, <1>4, <1>11, <2>1 DEF Abandon
<1>12. CASE Investigate
  <2>1. spent.sessions + 1 \in Nat
    BY <1>0 DEF Budget
  <2>2. sess' \in Sessions
    BY <1>1, <1>12 DEF Investigate, Sessions
  <2>3. \A n \in Nat : [tick EXCEPT !.pc = "investigate", !.mark = n] \in Ticks
    BY <1>1 DEF Ticks
  <2>4. tick' \in Ticks
    BY <1>12, <2>1, <2>3 DEF Investigate
  <2>5. spent' \in Budget
    BY <1>0, <1>12, <2>1 DEF Investigate, Budget
  <2> QED BY <1>0, <1>1, <1>12, <2>2, <2>4, <2>5 DEF Investigate
<1>13. CASE InvestigateRecord
  <2>1. \A i, n \in Nat : [task EXCEPT !.inv = i, !.invs = n] \in Tasks
    BY <1>1 DEF Tasks
  <2>2. tick.mark \in Nat /\ task.invs + 1 \in Nat
    BY <1>1 DEF Tasks, Ticks
  <2>3. task' \in Tasks
    BY <1>13, <2>1, <2>2 DEF InvestigateRecord
  <2>4. \A n \in 0 .. 4 : [tick EXCEPT !.pc = "pass", !.pass = n, !.mark = 0] \in Ticks
    BY <1>1 DEF Ticks
  <2> QED BY <1>0, <1>13, <2>3, <2>4 DEF InvestigateRecord
<1>14. CASE Escalate
  <2>1. [tick EXCEPT !.pc = "escalate"] \in Ticks
    BY <1>1 DEF Ticks
  <2> QED BY <1>0, <1>1, <1>3, <1>14, <2>1 DEF Escalate
<1>15. CASE EscalateMark
  BY <1>0, <1>2, <1>5, <1>15 DEF EscalateMark
<1>16. CASE BlockDetect
  <2>1. Snap.run.seq \in Nat /\ Snap.run.no \in Nat
    BY <1>1 DEF Snap, Ticks, Snaps, Runs
  <2>2. [task EXCEPT !.block = Snap.run.seq] \in Tasks
    BY <1>1, <2>1 DEF Tasks
  <2>3. task' \in Tasks /\ poisoned' \subseteq Nat
    BY <1>0, <1>1, <1>16, <2>1, <2>2 DEF BlockDetect
  <2> QED BY <1>0, <1>1, <1>16, <2>3 DEF BlockDetect
<1>17. CASE WedgeClose
  BY <1>0, <1>2, <1>4, <1>17 DEF WedgeClose
<1>18. CASE RecoverReplay
  <2>1. item' \in Rows
    BY <1>0, <1>18, RowTypes DEF RecoverReplay
  <2>2. tick' \in Ticks
    BY <1>1, <1>18 DEF RecoverReplay, Ticks
  <2> QED BY <1>0, <1>1, <1>18, <2>1, <2>2 DEF RecoverReplay
<1>19. CASE ReplayFails
  <2>1. item' \in Rows
    BY <1>0, <1>19, RowTypes DEF ReplayFails
  <2> QED BY <1>0, <1>1, <1>19, <2>1 DEF ReplayFails
<1>20. CASE RecoverClose
  BY <1>0, <1>1, <1>2, <1>3, <1>20 DEF RecoverClose
<1>21. CASE Due
  <2>1. \A n \in 0 .. 4 : [NoTick EXCEPT !.pc = "pass", !.pass = n] \in Ticks
    BY <1>1 DEF Ticks
  <2> QED BY <1>0, <1>6, <1>21, <2>1 DEF Due
<1>22. CASE Advance
  <2>1. \A n \in Nat : \A b \in BOOLEAN : [task EXCEPT !.fails = n, !.paused = b] \in Tasks
    BY <1>1 DEF Tasks
  <2>2. task.fails \in Nat /\ task.fails + 1 \in Nat /\ task.paused \in BOOLEAN
    BY <1>1 DEF Tasks
  <2>3. PICK n \in Nat, b \in BOOLEAN : task' = [task EXCEPT !.fails = n, !.paused = b]
    <3> DEFINE fired == fire[Sched].pc = "fired"
               failed == fire[Sched].pc = "failed" /\ tick.pass = 4
               trips == failed /\ task.fails + 1 >= FailLimit
    <3>1. task' = [task EXCEPT
             !.fails = IF fired THEN 0
                       ELSE IF failed /\ task.fails < FailLimit THEN task.fails + 1
                            ELSE task.fails,
             !.paused = task.paused \/ trips]
      BY <1>22, Zenon DEF Advance
    <3>2. (IF fired THEN 0
           ELSE IF failed /\ task.fails < FailLimit THEN task.fails + 1
                ELSE task.fails) \in Nat
      BY <2>2
    <3>3. (task.paused \/ trips) \in BOOLEAN
      OBVIOUS
    <3> HIDE DEF fired, failed, trips
    <3> QED BY <3>1, <3>2, <3>3, Zenon
  <2>4. task' \in Tasks
    BY <2>1, <2>3
  <2>5. Overtaken \in [Threads -> Fires]
    BY <1>0, <1>1, CallTypes
  <2>6. fire' \in [Threads -> Fires]
    BY <1>0, <1>22, <2>5, FreshTypes DEF Advance
  <2>7. \A act \in BOOLEAN : [tick EXCEPT !.acted = act] \in Ticks
    BY <1>1 DEF Ticks
  <2>8. tick' \in Ticks
    <3>1. (tick.acted \/ fire[Sched].pc = "fired") \in BOOLEAN
      OBVIOUS
    <3>2. tick' = NoTick \/ tick' = [tick EXCEPT !.acted = tick.acted \/ fire[Sched].pc = "fired"]
      BY <1>22, Zenon DEF Advance
    <3> QED BY <1>1, <2>7, <3>1, <3>2, Zenon
  <2> QED BY <1>0, <1>22, <2>4, <2>6, <2>8 DEF Advance
<1>23. CASE TickEnd
  BY <1>0, <1>1, <1>23 DEF TickEnd
<1> QED
  BY <1>7, <1>8, <1>9, <1>10, <1>11, <1>12, <1>13, <1>14, <1>15, <1>16, <1>17, <1>18,
     <1>19, <1>20, <1>21, <1>22, <1>23
  DEF Tick

\* The daemon ends and starts again.
LEMMA RestartTypes == ASSUME RunTypeOK, BrainRestart \/ HardRestart PROVE RunTypeOK'
<1>0. RecordTypes /\ ThreadTypes /\ AgentTypes /\ QueueTypes
  BY TypeParts
<1> SUFFICES RecordTypes' /\ ThreadTypes' /\ AgentTypes' /\ QueueTypes'
  BY TypeParts DEF RunTypeOK, RecordTypes, ThreadTypes, AgentTypes, QueueTypes, Tasks,
     Places, Fires, Snaps, Ticks, Sessions, Turns, Rows, Budget
<1>1. task \in Tasks /\ sess \in Sessions
  BY <1>0 DEF RecordTypes, AgentTypes
<1>2. \A x \in Tasks : [x EXCEPT !.guard = NoGuard] \in Tasks
  BY FreshTypes DEF Tasks
<1>3. \A left : Swept(left) \in Tasks
  BY <1>1, <1>2, ClosedTypes DEF Swept
<1>4. ThreadTypes'
  <2>1. spent' \in Budget
    BY <1>0 DEF BrainRestart, HardRestart, Fresh, ThreadTypes, Budget
  <2> QED BY <1>0, <2>1, FreshTypes DEF BrainRestart, HardRestart, Fresh, ThreadTypes
<1>5. task' \in Tasks
  BY <1>2, <1>3 DEF BrainRestart, HardRestart
<1>6. AgentTypes'
  BY <1>0, <1>1 DEF BrainRestart, HardRestart, AgentTypes, Sessions, Turns
<1> QED
  BY <1>0, <1>4, <1>5, <1>6
  DEF BrainRestart, HardRestart, RecordTypes, QueueTypes, queueVars, histVars

LEMMA TypeStep == ASSUME RunTypeOK, [RunNext]_runVars PROVE RunTypeOK'
<1>1. CASE RunNext
  BY <1>1, TriggerTypes, OutsideTypes, ResolveTypes, TickTypes, RestartTypes DEF RunNext
<1>2. CASE UNCHANGED runVars
  BY <1>2 DEF runVars, RunTypeOK
<1> QED BY <1>1, <1>2

\* Every value the record, the threads, the queue and the history take has its
\* shape: a thread's place in trigger, a session's state, a run's number.
THEOREM RunTypeCorrect == RunSpec => []RunTypeOK
<1> QED BY TypesAtStart, TypeStep, PTL DEF RunSpec

(***************************************************************************)
(* The guard.                                                              *)
(***************************************************************************)
\* What the guard's invariant reads of the record is as it was.
GuardPartSame ==
  /\ task'.guard = task.guard
  /\ task'.runs = task.runs
  /\ task'.run.seq = task.run.seq
  /\ task'.run.token = task.run.token
  /\ task'.rev = task.rev
  /\ task'.paused = task.paused
  /\ task'.drain = task.drain

\* A call goes on with what it loaded and claimed, or is over.
GoesOn(t) ==
  /\ fire'[t].pc = "loaded" => fire[t].pc = "loaded"
  /\ Held(t)' => Held(t)
  /\ fire'[t].pc = "loaded" \/ Held(t)' =>
       /\ fire'[t].token = fire[t].token
       /\ fire'[t].uid = fire[t].uid
       /\ fire'[t].runs = fire[t].runs
       /\ fire'[t].rev = fire[t].rev
       /\ fire'[t].closed = fire[t].closed

\* A call has just loaded the record.
JustLoaded(t) ==
  /\ fire'[t].pc = "loaded"
  /\ fire'[t].runs = task.runs
  /\ fire'[t].rev = task.rev
  /\ ~fire'[t].closed

\* A step that leaves the guard's part of the record alone keeps its invariant.
LEMMA GuardFrame ==
  ASSUME FireInv, RunTypeOK', GuardPartSame,
         \A t \in Threads : GoesOn(t) \/ JustLoaded(t),
         tick'.pc = "found" => tick' = tick,
         wiped' = wiped
  PROVE  FireInv'
<1>1. \A t \in Threads :
        /\ JustLoaded(t) => ~Held(t)'
        /\ Held(t)' => Held(t) /\ GoesOn(t)
  BY DEF JustLoaded, GoesOn, Held
<1>2. GuardIsNew'
  BY DEF FireInv, GuardIsNew, GuardPartSame
<1>3. OvertakenStayOut'
  <2>1. task.rev \in Nat
    BY DEF FireInv, RunTypeOK
  <2>2. ASSUME NEW t \in Threads
        PROVE  /\ fire'[t].pc = "loaded" =>
                    /\ fire'[t].rev <= task'.rev
                    /\ fire'[t].closed => fire'[t].rev < task'.rev \/ task'.paused
               /\ Held(t)' => ~fire'[t].closed
    BY <1>1, <2>1, <2>2 DEF FireInv, OvertakenStayOut, GuardPartSame, GoesOn, JustLoaded
  <2> QED BY <2>2 DEF OvertakenStayOut, Held
<1>4. ASSUME ~wiped' PROVE GuardOwned' /\ DrainedLast'
  <2>1. GuardOwned /\ DrainedLast
    BY <1>4 DEF FireInv
  <2>2. DrainedLast'
    BY <2>1 DEF DrainedLast, GuardPartSame
  <2>3. task.runs \in Nat
    BY DEF FireInv, RunTypeOK
  <2>4. ASSUME NEW t \in Threads
        PROVE  /\ Held(t)' =>
                    /\ task'.guard = [token |-> fire'[t].token, uid |-> fire'[t].uid]
                    /\ fire'[t].token # 0
                    /\ fire'[t].runs = task'.runs
               /\ fire'[t].pc = "loaded" => fire'[t].runs <= task'.runs
    BY <1>1, <2>1, <2>3, <2>4 DEF GuardOwned, GuardPartSame, GoesOn, JustLoaded
  <2>5. \A t, s \in Threads : Held(t)' /\ Held(s)' => t = s
    BY <1>1, <2>1 DEF GuardOwned
  <2>6. tick'.pc = "found" /\ tick'.mark # 0 =>
          /\ task'.guard.token = tick'.mark
          /\ \A t \in Threads : ~Held(t)'
    BY <1>1, <2>1 DEF GuardOwned, GuardPartSame
  <2> QED BY <2>1, <2>2, <2>4, <2>5, <2>6 DEF GuardOwned, GuardPartSame, Held
<1> QED BY <1>2, <1>3, <1>4 DEF FireInv

\* What the calls' operators do, call by call.
LEMMA CallFacts ==
  ASSUME RunTypeOK, NEW t \in Threads
  PROVE  /\ \A p : Finish(t, p) =>
              /\ \A s \in Threads : s # t => fire'[s] = fire[s]
              /\ p \notin {"loaded", "armed", "staged", "sent"} =>
                   fire'[t].pc \notin {"loaded", "armed", "staged", "sent"}
         /\ \A w : Loaded(t, w) =>
              /\ \A s \in Threads : s # t => fire'[s] = fire[s]
              /\ JustLoaded(t)
              /\ fire'[t].rows = {}
              /\ fire'[t].open = IF Running THEN task.run.seq ELSE 0
         /\ /\ Overtaken[t].pc = fire[t].pc
            /\ Overtaken[t].runs = fire[t].runs
            /\ Overtaken[t].rev = fire[t].rev
            /\ Overtaken[t].token = fire[t].token
            /\ Overtaken[t].uid = fire[t].uid
            /\ Overtaken[t].no = fire[t].no
            /\ Overtaken[t].open = fire[t].open
            /\ Overtaken[t].compact = fire[t].compact
            /\ Overtaken[t].rows = fire[t].rows
            /\ Overtaken[t].closed = (fire[t].pc = "loaded" \/ fire[t].closed)
<1>1. fire \in [Threads -> Fires] /\ fire[t] \in Fires
  BY TypeParts DEF ThreadTypes
<1>2. ASSUME NEW p, Finish(t, p)
      PROVE  /\ \A s \in Threads : s # t => fire'[s] = fire[s]
             /\ p \notin {"loaded", "armed", "staged", "sent"} =>
                  fire'[t].pc \notin {"loaded", "armed", "staged", "sent"}
  <2>1. fire'[t].pc \in {p, "idle"}
    BY <1>1, <1>2 DEF Finish, NoFire
  <2>2. \A s \in Threads : s # t => fire'[s] = fire[s]
    BY <1>1, <1>2 DEF Finish
  <2> QED BY <2>1, <2>2
<1>3. ASSUME NEW w, Loaded(t, w)
      PROVE  /\ \A s \in Threads : s # t => fire'[s] = fire[s]
             /\ JustLoaded(t)
             /\ fire'[t].rows = {}
             /\ fire'[t].open = IF Running THEN task.run.seq ELSE 0
  BY <1>1, <1>3 DEF Loaded, NoFire, JustLoaded
<1>4. /\ Overtaken[t].pc = fire[t].pc
      /\ Overtaken[t].runs = fire[t].runs
      /\ Overtaken[t].rev = fire[t].rev
      /\ Overtaken[t].token = fire[t].token
      /\ Overtaken[t].uid = fire[t].uid
      /\ Overtaken[t].no = fire[t].no
      /\ Overtaken[t].open = fire[t].open
      /\ Overtaken[t].compact = fire[t].compact
      /\ Overtaken[t].rows = fire[t].rows
      /\ Overtaken[t].closed = (fire[t].pc = "loaded" \/ fire[t].closed)
  BY <1>1 DEF Overtaken, Fires
<1> QED BY <1>2, <1>3, <1>4, Zenon

\* A closed run keeps its number, and the record everything else.
Ended(x) ==
  /\ x.guard = task.guard /\ x.runs = task.runs /\ x.rev = task.rev
  /\ x.paused = task.paused /\ x.drain = task.drain
  /\ x.run.seq = task.run.seq /\ x.run.token = task.run.token /\ x.run.no = task.run.no
  /\ x.run.status # "running"

LEMMA ClosedFacts ==
  ASSUME task \in Tasks
  PROVE  /\ Ended(Closed("done")) /\ Ended(Closed("failed")) /\ Ended(Closed("orphaned"))
         /\ Ended(Completed) /\ Ended(Stuck)
         /\ Ended([Closed("failed") EXCEPT !.closes = 0])
         /\ Ended([Closed("failed") EXCEPT !.closes = @ + 1])
<1>1. \A s \in {"done", "failed", "orphaned"} : Ended(Closed(s))
  BY DEF Ended, Closed, Tasks, Runs
<1>2. ASSUME NEW x \in Tasks, NEW n, Ended(x) PROVE Ended([x EXCEPT !.closes = n])
  BY <1>2 DEF Ended, Tasks
<1>3. \A s \in {"done", "failed"} : Closed(s) \in Tasks
  BY ClosedTypes
<1>4. Ended(Completed)
  BY <1>1, <1>2, <1>3 DEF Completed
<1>5. Ended(Stuck)
  BY DEF Ended, Stuck, Tasks, Runs
<1> QED BY <1>1, <1>2, <1>3, <1>4, <1>5

LEMMA GuardAtStart == ASSUME RunInit PROVE FireInv
<1>1. RunTypeOK
  BY TypesAtStart
<1>2. \A t \in Threads : fire[t] = NoFire
  BY DEF RunInit
<1> QED
  BY <1>1, <1>2
  DEF RunInit, FireInv, GuardIsNew, OvertakenStayOut, GuardOwned, DrainedLast, Held,
      NewTask, NoGuard, NoRun, NoDrain, NoFire, NoTick

\* The steps that leave the guard alone: those of the agents and their exits, of
\* the investigator, and of the queue.
LEMMA GuardOutside ==
  ASSUME FireInv, RunTypeOK',
         \/ \E t \in Callers : RunNow(t)
         \/ \E u \in Uids : TurnEnds(u) \/ Nudge(u) \/ ReportDone(u) \/ Exit(u) \/ ExitHook(u)
         \/ \E seq \in Seqs : ForceDone(seq)
         \/ \E t \in Callers :
              MarkUnstuck(t) \/ ResolveRestart(t) \/ ResolveEscalate(t) \/ ResolveMark(t)
  PROVE  FireInv'
<1>1. RunTypeOK /\ task \in Tasks /\ fire \in [Threads -> Fires]
  BY TypeParts DEF FireInv, RecordTypes, ThreadTypes
<1>2. Ended(Completed) /\ Ended(Closed("failed")) /\ Ended(Stuck)
  BY <1>1, ClosedFacts
<1>3. \A t \in Threads : fire'[t] = fire[t] => GoesOn(t)
  BY DEF GoesOn, Held
<1>4. (task' = task \/ Ended(task')) => GuardPartSame
  BY DEF GuardPartSame, Ended
<1>5. tick' = tick /\ wiped' = wiped
  BY DEF RunNow, TurnEnds, Nudge, ReportDone, Exit, ExitHook, ForceDone, MarkUnstuck,
     ResolveRestart, ResolveEscalate, ResolveMark, histVars
<1>6. CASE \E t \in Callers : RunNow(t)
  <2>1. PICK t \in Callers : RunNow(t)
    BY <1>6
  <2>2. PICK w \in 0 .. spent.fires : Loaded(t, w)
    BY <2>1 DEF RunNow
  <2>3. \A s \in Threads : GoesOn(s) \/ JustLoaded(s)
    BY <1>1, <1>3, <2>2, CallFacts DEF Threads
  <2>4. task' = task
    BY <2>1 DEF RunNow
  <2> QED BY <1>4, <1>5, <2>3, <2>4, GuardFrame
<1>7. CASE \/ \E u \in Uids :
                TurnEnds(u) \/ Nudge(u) \/ ReportDone(u) \/ Exit(u) \/ ExitHook(u)
           \/ \E seq \in Seqs : ForceDone(seq)
  <2>1. fire' = fire
    BY <1>7 DEF TurnEnds, Nudge, ReportDone, Exit, ExitHook, ForceDone
  <2>2. task' \in {task, Completed, Closed("failed")}
    BY <1>7 DEF TurnEnds, Nudge, ReportDone, Exit, ExitHook, ForceDone
  <2> QED BY <1>2, <1>3, <1>4, <1>5, <2>1, <2>2, GuardFrame
<1>8. ASSUME NEW t \in Callers, ResolveRestart(t) PROVE FireInv'
  <2>1. GuardPartSame
    BY <1>1, <1>8 DEF ResolveRestart, GuardPartSame, Tasks
  <2>2. \A s \in Threads : GoesOn(s) \/ JustLoaded(s)
    BY <1>1, <1>3, <1>8, CallFacts DEF ResolveRestart, Threads
  <2> QED BY <1>5, <2>1, <2>2, GuardFrame
<1>9. ASSUME NEW t \in Callers, MarkUnstuck(t) PROVE FireInv'
  <2>1. GuardPartSame
    BY <1>1, <1>9 DEF MarkUnstuck, GuardPartSame, Tasks
  <2> QED BY <1>3, <1>5, <1>9, <2>1, GuardFrame DEF MarkUnstuck
<1>10. ASSUME NEW t \in Callers, ResolveEscalate(t) PROVE FireInv'
  <2>1. GuardPartSame
    BY <1>10 DEF ResolveEscalate, GuardPartSame
  <2>2. \A s \in Threads : GoesOn(s)
    BY <1>1, <1>3, <1>10 DEF ResolveEscalate, Threads, GoesOn, Held
  <2> QED BY <1>5, <2>1, <2>2, GuardFrame
<1>11. ASSUME NEW t \in Callers, ResolveMark(t) PROVE FireInv'
  <2>1. task' = Stuck /\ Finish(t, "fired") /\ t \in Threads
    BY <1>11 DEF ResolveMark, Threads
  <2>2. \A s \in Threads : GoesOn(s)
    BY <1>1, <1>3, <2>1, CallFacts DEF GoesOn, Held
  <2> QED BY <1>2, <1>4, <1>5, <2>1, <2>2, GuardFrame
<1> QED BY <1>6, <1>7, <1>8, <1>9, <1>10, <1>11

\* A pause, a drain or a resume, under the lifecycle lock.
LEMMA GuardOperator ==
  ASSUME FireInv, RunTypeOK', Pause \/ Resume \/ Drain
  PROVE  FireInv'
<1>1. RunTypeOK /\ task \in Tasks /\ fire \in [Threads -> Fires]
  BY TypeParts DEF FireInv, RecordTypes, ThreadTypes
<1>2. /\ task'.guard = task.guard /\ task'.run = task.run /\ task'.runs = task.runs
      /\ task'.rev = task.rev + 1 /\ task.rev \in Nat
      /\ tick' = tick /\ wiped' = wiped
  BY <1>1 DEF Pause, Resume, Drain, Tasks, histVars
<1>3. \A t \in Threads :
        /\ fire'[t].pc = fire[t].pc /\ fire'[t].runs = fire[t].runs
        /\ fire'[t].rev = fire[t].rev /\ fire'[t].token = fire[t].token
        /\ fire'[t].uid = fire[t].uid
        /\ fire'[t].closed => fire[t].pc = "loaded" \/ fire[t].closed
  BY <1>1, CallFacts DEF Pause, Resume, Drain
<1>4. \A t \in Threads : fire[t].rev \in Nat
  BY <1>1 DEF Fires
<1>5. GuardIsNew'
  BY <1>2 DEF FireInv, GuardIsNew
<1>6. OvertakenStayOut'
  BY <1>2, <1>3, <1>4 DEF FireInv, OvertakenStayOut, Held
<1>7. ASSUME ~wiped' PROVE GuardOwned' /\ DrainedLast'
  <2>1. GuardOwned /\ DrainedLast
    BY <1>2, <1>7 DEF FireInv
  <2>2. GuardOwned'
    BY <1>2, <1>3, <2>1 DEF GuardOwned, Held
  <2>3. task.run.seq \in Nat /\ task.runs \in Nat
    BY <1>1 DEF Tasks, Runs
  <2>4. CASE Drain
    <3>1. task'.drain = DrainTarget
      BY <1>1, <2>4 DEF Drain, Tasks
    <3>2. CASE task.guard # NoGuard
      <4>1. task.guard.token # 0 /\ task.run.token # task.guard.token
        BY <3>2 DEF FireInv, GuardIsNew
      <4>2. DrainTarget = [on |-> TRUE, token |-> task.guard.token, seq |-> task.runs + 1]
        BY <3>2, <4>1 DEF DrainTarget
      <4> QED BY <1>2, <2>1, <2>2, <2>3, <3>1, <4>2 DEF DrainedLast, GuardOwned
    <3>3. CASE task.guard = NoGuard
      BY <1>2, <2>1, <2>2, <2>3, <3>1, <3>3 DEF DrainTarget, DrainedLast, NoGuard
    <3> QED BY <3>2, <3>3
  <2>5. CASE Resume
    <3>1. ~task'.drain.on
      BY <1>1, <2>5 DEF Resume, Tasks, NoDrain
    <3> QED BY <2>2, <3>1 DEF DrainedLast
  <2>6. CASE Pause
    <3>1. task'.drain = task.drain
      BY <1>1, <2>6 DEF Pause, Tasks
    <3> QED BY <1>2, <2>1, <2>2, <3>1 DEF DrainedLast
  <2> QED BY <2>4, <2>5, <2>6
<1> QED BY <1>5, <1>6, <1>7 DEF FireInv

\* What the steps of trigger do to the record and the calls.
LEMMA ArmFacts ==
  ASSUME RunTypeOK, NEW t \in Threads, Arm(t)
  PROVE  /\ Token(t) \in Nat \ {0}
         /\ Open(t) /\ task.block = 0 /\ fire[t].pc = "loaded"
         /\ \A s \in Threads : s # t => fire'[s] = fire[s]
         /\ fire'[t].pc \in {"armed", "staged"}
         /\ fire'[t].pc = "armed" <=> Consumer /\ ~fire'[t].compact
         /\ fire'[t].token = Token(t) /\ fire'[t].token = task'.guard.token
         /\ task'.guard = [token |-> fire'[t].token, uid |-> fire'[t].uid]
         /\ fire'[t].runs = fire[t].runs /\ fire'[t].open = fire[t].open
         /\ fire'[t].closed = fire[t].closed /\ fire'[t].rows = fire[t].rows
         /\ fire'[t].no = spent.fires + 1 /\ spent'.fires = spent.fires + 1
         /\ task'.run = task.run /\ task'.runs = task.runs /\ task'.rev = task.rev
         /\ task'.paused = task.paused /\ task'.drain = task.drain
         /\ task'.block = task.block
<1> DEFINE uid == IF fire[t].live THEN fire[t].cur ELSE spent.sessions + 1
           compact == /\ fire[t].live /\ t = Sched /\ CompactEvery > 0
                      /\ Seq(t) % CompactEvery = 0
           place == IF Consumer /\ ~compact THEN "armed" ELSE "staged"
<1>1. task \in Tasks /\ fire \in [Threads -> Fires] /\ fire[t] \in Fires /\ spent \in Budget
  BY TypeParts DEF RecordTypes, ThreadTypes
<1>2. Token(t) \in Nat \ {0}
  BY <1>1 DEF Token, Fires, Budget
<1>3. /\ task' = [task EXCEPT !.guard = [token |-> Token(t), uid |-> uid]]
      /\ fire' = [fire EXCEPT ![t].pc = place,
                      ![t].token = Token(t), ![t].no = spent.fires + 1,
                      ![t].uid = uid, ![t].compact = compact,
                      ![t].want = 0, ![t].rev = 0, ![t].cur = 0]
      /\ spent' = [spent EXCEPT !.fires = spent.fires + 1,
                     !.sessions = IF fire[t].live THEN spent.sessions
                                                  ELSE spent.sessions + 1]
  BY Zenon DEF Arm
<1>4. Open(t) /\ task.block = 0 /\ fire[t].pc = "loaded"
  BY DEF Arm, Admits
<1>5. compact \in BOOLEAN /\ place \in {"armed", "staged"}
      /\ (place = "armed" <=> Consumer /\ ~compact)
  OBVIOUS
<1> HIDE DEF uid, compact, place
<1>6. /\ \A s \in Threads : s # t => fire'[s] = fire[s]
      /\ fire'[t].pc = place /\ fire'[t].compact = compact
      /\ fire'[t].token = Token(t) /\ fire'[t].uid = uid
      /\ fire'[t].no = spent.fires + 1
      /\ fire'[t].runs = fire[t].runs /\ fire'[t].open = fire[t].open
      /\ fire'[t].closed = fire[t].closed /\ fire'[t].rows = fire[t].rows
  BY <1>1, <1>3 DEF Fires
<1>7. /\ task'.guard = [token |-> Token(t), uid |-> uid]
      /\ task'.run = task.run /\ task'.runs = task.runs /\ task'.rev = task.rev
      /\ task'.paused = task.paused /\ task'.drain = task.drain
      /\ task'.block = task.block
  BY <1>1, <1>3 DEF Tasks
<1>8. spent'.fires = spent.fires + 1
  BY <1>1, <1>3 DEF Budget
<1> QED BY <1>2, <1>4, <1>5, <1>6, <1>7, <1>8

LEMMA FailFacts ==
  ASSUME RunTypeOK, NEW t \in Threads, Fails(t)
  PROVE  /\ task'.guard = NoGuard
         /\ task'.run = task.run /\ task'.runs = task.runs /\ task'.rev = task.rev
         /\ task'.paused = task.paused /\ task'.drain = task.drain
         /\ task'.block = task.block
         /\ \A s \in Threads : s # t => fire'[s] = fire[s]
         /\ fire'[t].pc \notin {"loaded", "armed", "staged", "sent"}
  BY CallFacts, TypeParts DEF Fails, RecordTypes, Tasks

LEMMA RecordFacts ==
  ASSUME RunTypeOK, NEW t \in Threads, Record(t)
  PROVE  /\ fire[t].pc = "sent"
         /\ task'.guard = NoGuard /\ task'.block = 0
         /\ task'.run.seq = fire[t].runs + 1 /\ task'.run.token = fire[t].token
         /\ task'.run.no = fire[t].no
         /\ task'.run.status = IF fire[t].compact THEN "done" ELSE "running"
         /\ task'.runs = task.runs + 1 /\ task'.rev = task.rev
         /\ task'.paused = task.paused /\ task'.drain = task.drain
         /\ \A s \in Threads : s # t => fire'[s] = fire[s]
         /\ fire'[t].pc \notin {"loaded", "armed", "staged", "sent"}
<1>1. task \in Tasks /\ fire \in [Threads -> Fires] /\ fire[t] \in Fires
  BY TypeParts DEF RecordTypes, ThreadTypes
<1>2. /\ \A s \in Threads : s # t => fire'[s] = fire[s]
      /\ fire'[t].pc \notin {"loaded", "armed", "staged", "sent"}
  <2>1. CASE Finish(t, "fired")
    BY <2>1, CallFacts
  <2>2. CASE fire' = [fire EXCEPT ![t].pc = "recorded"]
    BY <1>1, <2>2 DEF Fires
  <2> QED BY <2>1, <2>2 DEF Record
<1>3. /\ task'.guard = NoGuard /\ task'.block = 0
      /\ task'.run = [seq |-> Seq(t), token |-> fire[t].token, uid |-> fire[t].uid,
                      status |-> IF fire[t].compact THEN "done" ELSE "running",
                      no |-> fire[t].no]
      /\ task'.runs = task.runs + 1 /\ task'.rev = task.rev
      /\ task'.paused = task.paused /\ task'.drain = task.drain
  BY <1>1 DEF Record, Tasks
<1> QED BY <1>2, <1>3 DEF Record, Seq

\* Whoever releases the guard was its one owner.
LEMMA GuardReleased ==
  ASSUME FireInv, NEW t \in Threads, Held(t),
         task'.guard = NoGuard, task'.rev = task.rev, task'.paused = task.paused,
         task'.drain = task.drain, tick' = tick, wiped' = wiped,
         \/ task'.run = task.run /\ task'.runs = task.runs
         \/ task'.run.seq = fire[t].runs + 1 /\ task'.runs = task.runs + 1,
         \A s \in Threads : s # t => fire'[s] = fire[s],
         fire'[t].pc \notin {"loaded", "armed", "staged", "sent"}
  PROVE  GuardIsNew' /\ OvertakenStayOut' /\ (~wiped' => GuardOwned' /\ DrainedLast')
<1>1. RunTypeOK /\ task \in Tasks /\ fire \in [Threads -> Fires]
  BY TypeParts DEF FireInv, RecordTypes, ThreadTypes
<1>2. ~Held(t)'
  BY DEF Held
<1>3. GuardIsNew'
  BY DEF GuardIsNew, NoGuard
<1>4. OvertakenStayOut'
  BY DEF FireInv, OvertakenStayOut, Held
<1>5. ASSUME ~wiped' PROVE GuardOwned' /\ DrainedLast'
  <2>1. GuardOwned /\ DrainedLast
    BY <1>5 DEF FireInv
  <2>2. \A s \in Threads : ~Held(s)'
    BY <1>2, <2>1 DEF GuardOwned, Held
  <2>3. task.runs \in Nat /\ \A s \in Threads : fire[s].runs \in Nat
    BY <1>1 DEF Tasks, Fires
  <2>4. fire[t].runs = task.runs /\ task.guard.token # 0
    <3>1. /\ task.guard = [token |-> fire[t].token, uid |-> fire[t].uid]
          /\ fire[t].token # 0 /\ fire[t].runs = task.runs
      BY <2>1 DEF GuardOwned
    <3> QED BY <3>1
  <2>5. tick.pc = "found" => tick.mark = 0
    BY <2>1 DEF GuardOwned
  <2>6. task'.run.seq = task'.runs
    BY <2>1, <2>4 DEF GuardOwned
  <2>7. ASSUME NEW s \in Threads, fire'[s].pc = "loaded"
        PROVE  fire'[s].runs <= task'.runs
    <3>1. fire'[s] = fire[s]
      BY <2>7
    <3>2. fire[s].runs <= task.runs
      BY <2>1, <2>7, <3>1 DEF GuardOwned
    <3>3. task'.runs = task.runs \/ task'.runs = task.runs + 1
      OBVIOUS
    <3> QED BY <2>3, <3>1, <3>2, <3>3
  <2>8. GuardOwned'
    BY <2>2, <2>5, <2>6, <2>7 DEF GuardOwned, Held
  <2>9. DrainedLast'
    BY <2>1, <2>3, <2>4 DEF DrainedLast, NoGuard
  <2> QED BY <2>8, <2>9
<1> QED BY <1>3, <1>4, <1>5

\* trigger.
LEMMA GuardTrigger ==
  ASSUME FireInv, RunTypeOK', NEW t \in Threads, Trigger(t)
  PROVE  FireInv'
<1>1. RunTypeOK /\ task \in Tasks /\ fire \in [Threads -> Fires]
  BY TypeParts DEF FireInv, RecordTypes, ThreadTypes
<1>2. \A s \in Threads : fire'[s] = fire[s] => GoesOn(s)
  BY DEF GoesOn, Held
<1>3. task' = task => GuardPartSame
  BY DEF GuardPartSame
<1>4. tick' = tick /\ wiped' = wiped
  BY DEF Trigger, Arm, ArmRefused, Stage, StageFails, Send, SpawnFails, Record, Ack,
     histVars
<1>5. CASE Arm(t)
  <2>1. Open(t) /\ task.guard = NoGuard /\ ~task.drain.on /\ ~task.paused
        /\ task.rev = fire[t].rev /\ task.runs = fire[t].runs
        /\ task.run.token # Token(t) /\ fire[t].pc = "loaded"
    BY <1>1, <1>5, ArmFacts DEF Open
  <2>2. GuardIsNew'
    <3>1. /\ task'.guard.token = Token(t) /\ task'.run = task.run
          /\ Token(t) \in Nat \ {0}
      BY <1>1, <1>5, ArmFacts
    <3> QED BY <2>1, <3>1 DEF GuardIsNew
  <2>3. ~fire[t].closed
    <3>1. task.rev \in Nat
      BY <1>1 DEF Tasks
    <3>2. fire[t].closed => fire[t].rev < task.rev \/ task.paused
      BY <2>1 DEF FireInv, OvertakenStayOut
    <3> QED BY <2>1, <3>1, <3>2
  <2>4. OvertakenStayOut'
    <3>1. ASSUME NEW s \in Threads
          PROVE  /\ fire'[s].pc = "loaded" =>
                      /\ fire'[s].rev <= task'.rev
                      /\ fire'[s].closed => fire'[s].rev < task'.rev \/ task'.paused
                 /\ Held(s)' => ~fire'[s].closed
      BY <1>1, <1>5, <2>3, <3>1, ArmFacts DEF FireInv, OvertakenStayOut, Held
    <3> QED BY <3>1 DEF OvertakenStayOut, Held
  <2>5. ASSUME ~wiped' PROVE GuardOwned' /\ DrainedLast'
    <3>1. GuardOwned
      BY <1>4, <2>5 DEF FireInv
    <3>2. ASSUME NEW s \in Threads PROVE ~Held(s)
      <4>1. Held(s) => task.guard = [token |-> fire[s].token, uid |-> fire[s].uid]
                       /\ fire[s].token # 0
        BY <3>1 DEF GuardOwned
      <4> QED BY <2>1, <4>1 DEF NoGuard
    <3>3. \A s \in Threads : Held(s)' => s = t
      BY <1>1, <1>5, <3>2, ArmFacts DEF Held
    <3>4. ~(tick.pc = "found" /\ tick.mark # 0)
      BY <2>1, <3>1 DEF GuardOwned, NoGuard
    <3>5. /\ task'.guard = [token |-> fire'[t].token, uid |-> fire'[t].uid]
          /\ fire'[t].token # 0
          /\ fire'[t].runs = task'.runs
          /\ fire'[t].pc # "loaded"
          /\ task'.run.seq = task'.runs
          /\ \A s \in Threads \ {t} : fire'[s] = fire[s]
          /\ task'.runs = task.runs
      BY <1>1, <1>5, <2>1, <3>1, ArmFacts DEF GuardOwned
    <3>6. GuardOwned'
      BY <1>4, <3>1, <3>3, <3>4, <3>5 DEF GuardOwned, Held
    <3>7. DrainedLast'
      BY <1>1, <1>5, <2>1, ArmFacts DEF DrainedLast
    <3> QED BY <3>6, <3>7
  <2> QED BY <2>2, <2>4, <2>5 DEF FireInv
<1>6. CASE ArmRefused(t) \/ Ack(t)
  <2>1. task' = task /\ \E p \in {"skipped", "fired"} : Finish(t, p)
    BY <1>6 DEF ArmRefused, Ack
  <2>2. \A s \in Threads : GoesOn(s)
    BY <1>1, <1>2, <2>1, CallFacts DEF GoesOn, Held
  <2> QED BY <1>3, <1>4, <2>1, <2>2, GuardFrame
<1>7. CASE Stage(t) \/ Send(t)
  <2>1. task' = task
    BY <1>7 DEF Stage, Send
  <2>2. \A s \in Threads : GoesOn(s)
    BY <1>1, <1>7 DEF Stage, Send, GoesOn, Held, Fires
  <2> QED BY <1>3, <1>4, <2>1, <2>2, GuardFrame
<1>8. CASE StageFails(t) \/ SpawnFails(t)
  <2>1. Held(t) /\ Fails(t)
    BY <1>8 DEF StageFails, SpawnFails, Held
  <2> QED BY <1>1, <1>4, <2>1, FailFacts, GuardReleased DEF FireInv
<1>9. CASE Record(t)
  <2>1. Held(t)
    BY <1>9 DEF Record, Held
  <2> QED BY <1>1, <1>4, <1>9, <2>1, RecordFacts, GuardReleased DEF FireInv
<1> QED BY <1>5, <1>6, <1>7, <1>8, <1>9 DEF Trigger

\* What a reconcile or a restart leaves of the record: the guard may be gone and
\* the run closed.
Settled ==
  /\ task'.guard \in {task.guard, NoGuard}
  /\ task'.runs = task.runs
  /\ task'.run.seq = task.run.seq
  /\ task'.run.token = task.run.token
  /\ task'.rev = task.rev
  /\ task'.paused = task.paused
  /\ task'.drain = task.drain

\* It may be, when no call holds the guard or the wipe is on record.
LEMMA GuardSettled ==
  ASSUME FireInv, RunTypeOK', Settled, tick'.pc # "found", wiped => wiped',
         \A t \in Threads :
           \/ fire'[t] = fire[t]
           \/ fire'[t].pc \notin {"loaded", "armed", "staged", "sent"},
         wiped' \/ \A t \in Threads : ~Held(t)'
  PROVE  FireInv'
<1>1. \A t \in Threads : fire'[t] # fire[t] => fire'[t].pc # "loaded" /\ ~Held(t)'
  BY DEF Held
<1>2. GuardIsNew'
  BY DEF FireInv, GuardIsNew, Settled, NoGuard
<1>3. OvertakenStayOut'
  <2>1. ASSUME NEW t \in Threads
        PROVE  /\ fire'[t].pc = "loaded" =>
                    /\ fire'[t].rev <= task'.rev
                    /\ fire'[t].closed => fire'[t].rev < task'.rev \/ task'.paused
               /\ Held(t)' => ~fire'[t].closed
    BY <1>1, <2>1 DEF FireInv, OvertakenStayOut, Settled, Held
  <2> QED BY <2>1 DEF OvertakenStayOut, Held
<1>4. ASSUME ~wiped' PROVE GuardOwned' /\ DrainedLast'
  <2>1. GuardOwned /\ DrainedLast
    BY <1>4 DEF FireInv
  <2>2. \A t \in Threads : ~Held(t)'
    BY <1>4
  <2>3. task'.run.seq = task'.runs
    BY <2>1 DEF GuardOwned, Settled
  <2>4. \A t \in Threads : fire'[t].pc = "loaded" => fire'[t].runs <= task'.runs
    BY <1>1, <2>1 DEF GuardOwned, Settled
  <2>5. GuardOwned'
    BY <2>2, <2>3, <2>4 DEF GuardOwned, Held
  <2>6. DrainedLast'
    BY <2>1 DEF DrainedLast, Settled, NoGuard
  <2> QED BY <2>5, <2>6
<1> QED BY <1>2, <1>3, <1>4 DEF FireInv

\* The daemon ends and starts again.
LEMMA GuardRestart ==
  ASSUME FireInv, RunTypeOK', BrainRestart \/ HardRestart
  PROVE  FireInv'
<1>1. RunTypeOK /\ task \in Tasks
  BY TypeParts DEF FireInv, RecordTypes
<1>2. Fresh
  BY DEF BrainRestart, HardRestart
<1>3. \A t \in Threads : fire'[t] = NoFire
  BY <1>2 DEF Fresh
<1>4. \A t \in Threads : fire'[t].pc = "idle" /\ ~Held(t)'
  BY <1>3 DEF NoFire, Held
<1>5. tick'.pc # "found" /\ wiped' = wiped
  BY <1>2 DEF Fresh, NoTick, BrainRestart, HardRestart, histVars
<1>6. \A x \in Tasks : LET y == [x EXCEPT !.guard = NoGuard]
                       IN /\ y.guard = NoGuard /\ y.runs = x.runs /\ y.run = x.run
                          /\ y.rev = x.rev /\ y.paused = x.paused /\ y.drain = x.drain
                          /\ y \in Tasks
  BY FreshTypes DEF Tasks
<1>7. Closed("orphaned") \in Tasks /\ Ended(Closed("orphaned"))
  BY <1>1, ClosedTypes, ClosedFacts
<1>8. ASSUME NEW left
      PROVE  /\ Swept(left) \in Tasks
             /\ Swept(left).guard \in {task.guard, NoGuard}
             /\ Swept(left).runs = task.runs
             /\ Swept(left).run.seq = task.run.seq
             /\ Swept(left).run.token = task.run.token
             /\ Swept(left).rev = task.rev
             /\ Swept(left).paused = task.paused
             /\ Swept(left).drain = task.drain
  BY <1>1, <1>6, <1>7 DEF Swept, Ended
<1>9. PICK left : task' = Swept(left) \/ task' = [Swept(left) EXCEPT !.guard = NoGuard]
  BY DEF BrainRestart, HardRestart
<1>10. Settled
  <2>1. CASE task' = Swept(left)
    BY <1>8, <2>1 DEF Settled
  <2>2. CASE task' = [Swept(left) EXCEPT !.guard = NoGuard]
    <3>1. /\ task'.guard = NoGuard /\ task'.runs = Swept(left).runs
          /\ task'.run = Swept(left).run /\ task'.rev = Swept(left).rev
          /\ task'.paused = Swept(left).paused /\ task'.drain = Swept(left).drain
      BY <1>6, <1>8, <2>2
    <3> QED BY <1>8, <3>1 DEF Settled
  <2> QED BY <1>9, <2>1, <2>2
<1> QED BY <1>4, <1>5, <1>10, GuardSettled

\* The tick.
LEMMA GuardTick == ASSUME FireInv, RunTypeOK', Tick PROVE FireInv'
<1>1. /\ RunTypeOK /\ task \in Tasks /\ fire \in [Threads -> Fires] /\ tick \in Ticks
      /\ Sched \in Threads
  BY TypeParts DEF FireInv, RecordTypes, ThreadTypes, Threads
<1>2. \A s \in Threads : fire'[s] = fire[s] => GoesOn(s)
  BY DEF GoesOn, Held
<1>3. (task' = task \/ Ended(task')) => GuardPartSame
  BY DEF GuardPartSame, Ended
<1>4. /\ Ended(Stuck) /\ Ended(Closed("orphaned"))
      /\ Ended([Closed("failed") EXCEPT !.closes = 0])
      /\ Ended([Closed("failed") EXCEPT !.closes = @ + 1])
  BY <1>1, ClosedFacts
<1>5. CASE ReconcileFind
  <2>1. task' = task /\ fire' = fire /\ wiped' = wiped
    BY <1>5 DEF ReconcileFind, histVars
  <2>2. tick'.pc = "found" /\ tick'.mark = task.guard.token
    BY <1>5 DEF ReconcileFind, NoTick
  <2>3. \A t \in Threads : Held(t) => fire[t].token # task.guard.token
    BY <1>5 DEF ReconcileFind
  <2>4. ~wiped => \A t \in Threads : ~Held(t)
    <3>1. ASSUME ~wiped, NEW t \in Threads, Held(t) PROVE FALSE
      <4>1. task.guard = [token |-> fire[t].token, uid |-> fire[t].uid]
        BY <3>1 DEF FireInv, GuardOwned
      <4> QED BY <2>3, <3>1, <4>1
    <3> QED BY <3>1
  <2>5. ~wiped => GuardOwned' /\ DrainedLast'
    BY <2>1, <2>2, <2>4 DEF FireInv, GuardOwned, DrainedLast, Held
  <2> QED
    BY <2>1, <2>5 DEF FireInv, GuardIsNew, OvertakenStayOut, Held
<1>6. CASE OrphanWrite
  <2>1. tick.pc = "found" /\ tick'.pc # "found" /\ fire' = fire
        /\ wiped' = (wiped \/ task.guard.token \notin {0, tick.mark})
    BY <1>1, <1>6 DEF OrphanWrite, Ticks
  <2>2. \A x \in Tasks : LET y == [x EXCEPT !.guard = NoGuard, !.block = 0]
                         IN /\ y.guard = NoGuard /\ y.runs = x.runs /\ y.run = x.run
                            /\ y.rev = x.rev /\ y.paused = x.paused /\ y.drain = x.drain
    BY DEF Tasks
  <2>3. Closed("orphaned") \in Tasks
    BY <1>1, ClosedTypes
  <2>4. Settled
    BY <1>1, <1>4, <1>6, <2>2, <2>3 DEF OrphanWrite, Settled, Ended
  <2>5. ASSUME ~wiped', NEW t \in Threads PROVE ~Held(t)'
    <3>1. GuardOwned /\ task.guard.token \in {0, tick.mark}
      BY <2>1, <2>5 DEF FireInv
    <3>2. Held(t) => task.guard = [token |-> fire[t].token, uid |-> fire[t].uid]
                     /\ fire[t].token # 0
      BY <3>1 DEF GuardOwned
    <3>3. Held(t) => tick.mark # 0
      BY <3>1, <3>2
    <3>4. ~Held(t)
      BY <2>1, <3>1, <3>3 DEF GuardOwned
    <3> QED BY <2>1, <3>4 DEF Held
  <2> QED BY <2>1, <2>4, <2>5, GuardSettled
<1>7. CASE TickLoad \/ TickEnd \/ Investigate \/ InvestigateFails \/ Escalate
  <2>1. task' = task /\ fire' = fire /\ wiped' = wiped
    BY <1>7 DEF TickLoad, TickEnd, Investigate, InvestigateFails, Escalate, histVars
  <2>2. tick'.pc # "found"
    <3>1. CASE TickLoad
      <4>1. \A x : [NoTick EXCEPT !.pc = "pass", !.snap = x].pc = "pass"
        BY DEF NoTick
      <4> QED BY <3>1, <4>1 DEF TickLoad
    <3>2. CASE TickEnd
      BY <3>2 DEF TickEnd, NoTick
    <3>3. CASE Investigate
      <4>1. \A x : [tick EXCEPT !.pc = "investigate", !.mark = x].pc = "investigate"
        BY <1>1 DEF Ticks
      <4> QED BY <3>3, <4>1 DEF Investigate
    <3>4. CASE Escalate
      BY <1>1, <3>4 DEF Escalate, Ticks
    <3>5. CASE InvestigateFails
      BY <1>1, <3>5 DEF InvestigateFails, Overrun, Pass, Ticks
    <3> QED BY <1>7, <3>1, <3>2, <3>3, <3>4, <3>5
  <2> QED BY <1>2, <1>3, <2>1, <2>2, GuardFrame
<1>8. CASE Supervise \/ Due
  <2>1. task' = task /\ wiped' = wiped
    BY <1>8 DEF Supervise, Due, histVars
  <2>2. tick'.pc # "found"
    <3>1. CASE Supervise
      BY <1>1, <3>1 DEF Supervise, Pass, Ticks
    <3>2. CASE Due
      BY <3>2 DEF Due, NoTick
    <3> QED BY <1>8, <3>1, <3>2
  <2>3. fire' = fire \/ Loaded(Sched, 0)
    BY <1>8 DEF Supervise, Due
  <2>4. \A s \in Threads : GoesOn(s) \/ JustLoaded(s)
    BY <1>1, <1>2, <2>3, CallFacts
  <2> QED BY <1>3, <2>1, <2>2, <2>4, GuardFrame
<1>9. CASE Abandon \/ InvestigateRecord
  <2>1. GuardPartSame
    BY <1>1, <1>9 DEF Abandon, InvestigateRecord, GuardPartSame, Tasks
  <2>2. fire' = fire /\ wiped' = wiped
    BY <1>9 DEF Abandon, InvestigateRecord, histVars
  <2>3. tick'.pc # "found"
    BY <1>1, <1>9 DEF Abandon, InvestigateRecord, Overrun, Pass, Ticks
  <2> QED BY <1>2, <2>1, <2>2, <2>3, GuardFrame
<1>10. CASE EscalateMark \/ WedgeClose \/ RecoverClose
  <2>1. GuardPartSame
    BY <1>3, <1>4, <1>10 DEF EscalateMark, WedgeClose, RecoverClose
  <2>2. fire' = fire /\ wiped' = wiped
    BY <1>10 DEF EscalateMark, WedgeClose, RecoverClose, histVars
  <2>3. tick'.pc # "found"
    <3>1. CASE EscalateMark
      BY <1>1, <3>1 DEF EscalateMark, Ticks
    <3>2. CASE WedgeClose
      BY <1>1, <3>2 DEF WedgeClose, Probing, Pass, Ticks
    <3>3. CASE RecoverClose
      BY <3>3 DEF RecoverClose, NoTick
    <3> QED BY <1>10, <3>1, <3>2, <3>3
  <2> QED BY <1>2, <2>1, <2>2, <2>3, GuardFrame
<1>11. CASE BlockDetect
  <2>1. GuardPartSame
    BY <1>1, <1>11 DEF BlockDetect, GuardPartSame, Tasks
  <2>2. fire' = fire /\ wiped' = wiped /\ tick'.pc # "found"
    BY <1>11 DEF BlockDetect, NoTick
  <2> QED BY <1>2, <2>1, <2>2, GuardFrame
<1>12. CASE RecoverReplay \/ ReplayFails
  <2>1. task' = task /\ fire' = fire /\ wiped' = wiped
    BY <1>12 DEF RecoverReplay, ReplayFails, histVars
  <2>2. tick'.pc # "found"
    BY <1>1, <1>12 DEF RecoverReplay, ReplayFails, NoTick, Ticks
  <2> QED BY <1>2, <1>3, <2>1, <2>2, GuardFrame
<1>13. CASE Advance
  <2> DEFINE trips == /\ fire[Sched].pc = "failed" /\ tick.pass = 4
                      /\ task.fails + 1 >= FailLimit
             base == IF trips THEN Overtaken ELSE fire
  <2>1. /\ task'.guard = task.guard /\ task'.run = task.run /\ task'.runs = task.runs
        /\ task'.rev = task.rev /\ task'.drain = task.drain
        /\ task'.paused = (task.paused \/ trips)
    BY <1>1, <1>13 DEF Advance, Tasks
  <2>2. tick'.pc = "found" => tick'.pc = tick.pc /\ tick'.mark = tick.mark
    BY <1>1, <1>13 DEF Advance, NoTick, Ticks
  <2>3. wiped' = wiped
    BY <1>13 DEF Advance, histVars
  <2>4. fire' = [base EXCEPT ![Sched] = NoFire]
    BY <1>13, Zenon DEF Advance
  <2>5. Overtaken \in [Threads -> Fires]
    BY <1>1, CallTypes, TypeParts
  <2>6. base \in [Threads -> Fires]
    BY <1>1, <2>5
  <2>7. fire'[Sched] = NoFire /\ \A s \in Threads : s # Sched => fire'[s] = base[s]
    BY <1>1, <2>4, <2>6
  <2>8. \A s \in Threads :
          /\ base[s].pc = fire[s].pc /\ base[s].runs = fire[s].runs
          /\ base[s].rev = fire[s].rev /\ base[s].token = fire[s].token
          /\ base[s].uid = fire[s].uid
          /\ base[s].closed = (fire[s].closed \/ (trips /\ fire[s].pc = "loaded"))
    BY <1>1, CallFacts DEF Fires
  <2> HIDE DEF trips, base
  <2>9. NoFire.pc = "idle"
    BY DEF NoFire
  <2>10. \A s \in Threads :
           fire'[s].pc = "loaded" \/ Held(s)' =>
             /\ fire'[s].pc = fire[s].pc /\ fire'[s].runs = fire[s].runs
             /\ fire'[s].rev = fire[s].rev /\ fire'[s].token = fire[s].token
             /\ fire'[s].uid = fire[s].uid
             /\ fire'[s].closed = (fire[s].closed \/ (trips /\ fire[s].pc = "loaded"))
    BY <2>7, <2>8, <2>9 DEF Held
  <2>11. GuardIsNew'
    BY <2>1 DEF FireInv, GuardIsNew
  <2>12. OvertakenStayOut'
    BY <2>1, <2>10 DEF FireInv, OvertakenStayOut, Held
  <2>13. ASSUME ~wiped' PROVE GuardOwned' /\ DrainedLast'
    <3>1. GuardOwned /\ DrainedLast
      BY <2>3, <2>13 DEF FireInv
    <3>2. \A s \in Threads : Held(s)' => Held(s)
      BY <2>10 DEF Held
    <3>3. GuardOwned'
      BY <2>1, <2>2, <2>10, <3>1, <3>2 DEF GuardOwned, Held
    <3>4. DrainedLast'
      BY <2>1, <3>1 DEF DrainedLast
    <3> QED BY <3>3, <3>4
  <2> QED BY <2>11, <2>12, <2>13 DEF FireInv
<1> QED
  BY <1>5, <1>6, <1>7, <1>8, <1>9, <1>10, <1>11, <1>12, <1>13 DEF Tick

LEMMA GuardStep == ASSUME FireInv, [RunNext]_runVars PROVE FireInv'
<1>1. RunTypeOK'
  BY TypeStep DEF FireInv
<1>2. CASE RunNext
  BY <1>1, <1>2, GuardTrigger, GuardOutside, GuardOperator, GuardTick, GuardRestart
  DEF RunNext
<1>3. CASE UNCHANGED runVars
  BY <1>1, <1>3
  DEF runVars, FireInv, GuardIsNew, OvertakenStayOut, GuardOwned, DrainedLast, Held
<1> QED BY <1>2, <1>3

LEMMA FireInvariant == RunSpec => []FireInv
<1> QED BY GuardAtStart, GuardStep, PTL DEF RunSpec

\* From arm_continuous_fire to the record of its run, the call that armed the
\* guard is its only owner, and the number of its run is still the next one:
\* nothing but a reconcile that looks at a guard twice can take it away.
THEOREM OneFireSafe == RunSpec => []OneFire
<1>1. FireInv => OneFire
  BY DEF FireInv, GuardOwned, OneFire
<1> QED BY <1>1, FireInvariant, PTL

\* No fire is recorded or spawning that a drain in force does not name, though
\* drain::request and trigger take no lock in common.
THEOREM DrainHoldsTheLineSafe == RunSpec => []DrainHoldsTheLine
<1>1. FireInv => DrainHoldsTheLine
  <2> SUFFICES ASSUME FireInv, ~wiped, task.drain.on
               PROVE  /\ task.run.seq <= task.drain.seq
                      /\ task.guard.token \in {0, task.drain.token}
    BY DEF DrainHoldsTheLine
  <2> QED BY DEF FireInv, DrainedLast
<1> QED BY <1>1, FireInvariant, PTL

\* A pause or drain that came between a call's load and its arm keeps it out,
\* a later resume notwithstanding.
THEOREM AdmissionHoldsSafe == RunSpec => []AdmissionHolds
<1>1. FireInv => AdmissionHolds
  BY DEF FireInv, OvertakenStayOut, AdmissionHolds
<1> QED BY <1>1, FireInvariant, PTL

(***************************************************************************)
(* The queue.                                                              *)
(***************************************************************************)
Active == {"loaded", "armed", "staged", "sent"}

\* A call goes on with what it has claimed, or is over.
KeepsClaim(t) ==
  fire'[t].pc \in Active =>
    /\ fire'[t].pc = fire[t].pc
    /\ fire'[t].no = fire[t].no
    /\ fire'[t].rows = fire[t].rows
    /\ fire'[t].compact = fire[t].compact
    /\ fire'[t].runs = fire[t].runs
    /\ fire'[t].open = fire[t].open

\* A call starts with no claim and has seen the run that is Running.
LoadsNow(t) ==
  /\ fire'[t].pc = "loaded"
  /\ fire'[t].runs = task.runs
  /\ fire'[t].rows = {}
  /\ fire'[t].open = IF Running THEN task.run.seq ELSE 0

\* The last run goes on or ends; its number stays.
RunGoesOn ==
  /\ task'.runs = task.runs
  /\ task'.run.seq = task.run.seq
  /\ task'.run.no = task.run.no
  /\ Running' => Running /\ task'.block = task.block

\* The snapshot is the one before, or one just taken.
SnapGoesOn ==
  \/ Snap'.run = Snap.run
  \/ Snap'.run.status # "running"
  \/ Snap'.run = task.run

\* A step that stages, hands over and records nothing, and puts no row back on
\* the queue, keeps the invariant of the queue.
LEMMA QueueFrame ==
  ASSUME FireInv, QueueKept, ~wiped,
         RunGoesOn, SnapGoesOn,
         \A t \in Threads : KeepsClaim(t) \/ LoadsNow(t),
         \A i \in Items : item'[i].at = "pending" => item[i].at = "pending",
         kind' = kind, batch' = batch, given' = given, poisoned' = poisoned,
         spent'.fires = spent.fires
  PROVE  QueueKept'
<1>1. task \in Tasks /\ fire \in [Threads -> Fires] /\ GuardOwned
  BY TypeParts DEF FireInv, RecordTypes, ThreadTypes
<1>2. Consumer' = Consumer
  BY DEF Consumer
<1>3. \A t \in Threads : Held(t)' => Held(t) /\ KeepsClaim(t)
  BY DEF Held, KeepsClaim, LoadsNow, Active
<1>4. Numbered'
  BY <1>3 DEF QueueKept, Numbered, RunGoesOn, KeepsClaim, Active, Held
<1>5. ClaimsStaged'
  <2>1. ASSUME NEW t \in Threads
        PROVE  /\ fire'[t].pc \in {"loaded", "armed"} => fire'[t].rows = {}
               /\ fire'[t].pc = "armed" => Consumer' /\ ~fire'[t].compact
               /\ fire'[t].pc \in {"loaded", "armed", "staged", "sent"}
                    /\ (~Consumer' \/ fire'[t].compact) => fire'[t].rows = {}
               /\ fire'[t].pc \in {"staged", "sent"} /\ Consumer' /\ ~fire'[t].compact =>
                    /\ Seq(t)' \in DOMAIN batch'
                    /\ batch'[Seq(t)'] = fire'[t].rows
               /\ fire'[t].pc \in {"armed", "staged"} =>
                    \A i \in Items : fire'[t].no \notin given'[i]
               /\ fire'[t].pc = "staged" => \A i \in fire'[t].rows : given'[i] \subseteq poisoned'
               /\ fire'[t].pc = "sent" =>
                    /\ \A i \in Items : fire'[t].no \in given'[i] => i \in fire'[t].rows
                    /\ \A i \in fire'[t].rows : given'[i] \subseteq poisoned' \cup {fire'[t].no}
               /\ fire'[t].pc \in {"staged", "sent"} =>
                    \A i \in fire'[t].rows : item'[i].at # "pending"
    <3>1. CASE LoadsNow(t)
      BY <3>1 DEF LoadsNow
    <3>2. CASE fire'[t].pc \notin Active
      BY <3>2 DEF Active
    <3>3. CASE fire'[t].pc \in Active /\ KeepsClaim(t)
      <4>1. Seq(t)' = Seq(t)
        BY <3>3 DEF Seq, KeepsClaim
      <4>2. fire[t].rows \subseteq Items
        BY <1>1 DEF Fires
      <4> QED BY <1>2, <3>3, <4>1, <4>2 DEF KeepsClaim, QueueKept, ClaimsStaged
    <3> QED BY <3>1, <3>2, <3>3
  <2> QED BY <2>1 DEF ClaimsStaged, Seq
<1>6. OpenSeen'
  <2>1. ASSUME NEW t \in Threads, fire'[t].pc \in Active, fire'[t].runs = task'.runs, Running'
        PROVE  fire'[t].open = task'.run.seq
    BY <2>1 DEF RunGoesOn, KeepsClaim, LoadsNow, QueueKept, OpenSeen, Held, Active
  <2> QED BY <2>1 DEF OpenSeen, Held, Active
<1>7. BatchKept'
  <2>1. SUFFICES ASSUME Consumer', Running' PROVE
          /\ task'.run.seq \in DOMAIN batch'
          /\ \A i \in Items : task'.run.no \in given'[i] => i \in batch'[task'.run.seq]
          /\ \A i \in batch'[task'.run.seq] :
               /\ given'[i] \subseteq poisoned' \cup {task'.run.no}
               /\ task'.block # task'.run.seq => item'[i].at # "pending"
          /\ \A t \in Threads : Held(t)' => fire'[t].rows \cap batch'[task'.run.seq] = {}
    BY DEF BatchKept, Held
  <2>2. BatchKept /\ Consumer /\ Running /\ task'.block = task.block
        /\ task'.run.seq = task.run.seq /\ task'.run.no = task.run.no
    BY <1>2, <2>1 DEF QueueKept, RunGoesOn
  <2>3. task.run.seq \in DOMAIN batch /\ batch[task.run.seq] \subseteq Items
    BY <2>2, TypeParts DEF BatchKept, FireInv, QueueTypes
  <2>4. \A t \in Threads : Held(t)' => fire'[t].rows \cap batch[task.run.seq] = {}
    BY <1>3, <2>2 DEF BatchKept, KeepsClaim, Held, Active
  <2>5. \A i \in batch[task.run.seq] : task.block # task.run.seq => item'[i].at # "pending"
    BY <2>2, <2>3 DEF BatchKept
  <2> QED BY <2>2, <2>3, <2>4, <2>5 DEF BatchKept
<1>8. BlockHolds'
  BY <1>3 DEF QueueKept, BlockHolds, RunGoesOn, Held
<1>9. SnapIsOfRun'
  <2>1. task.run.seq = task.runs /\ task.runs \in Nat
    BY <1>1 DEF GuardOwned, Tasks
  <2> QED BY <2>1 DEF QueueKept, SnapIsOfRun, SnapGoesOn, RunGoesOn
<1>10. HandedOnce'
  BY DEF QueueKept, HandedOnce
<1> QED BY <1>4, <1>5, <1>6, <1>7, <1>8, <1>9, <1>10 DEF QueueKept

LEMMA QueueAtStart == ASSUME RunInit PROVE QueueInv
<1>1. \A t \in Threads : fire[t] = NoFire
  BY DEF RunInit
<1>2. \A i \in Items : given[i] = {}
  BY DEF RunInit
<1>3. task.run = NoRun /\ tick.snap.run = NoRun /\ spent.fires = 0 /\ ~Running
  BY DEF RunInit, NewTask, NoTick, NoSnap, Running, NoRun
<1>4. Numbered /\ ClaimsStaged /\ OpenSeen
  BY <1>1, <1>2, <1>3 DEF Numbered, ClaimsStaged, OpenSeen, NoFire, NoRun, Held
<1>5. BatchKept /\ BlockHolds /\ SnapIsOfRun
  BY <1>3 DEF BatchKept, BlockHolds, SnapIsOfRun, Snap, NoRun
<1>6. HandedOnce
  <2>1. 0 \in Nat
    OBVIOUS
  <2> QED BY <1>2, <2>1 DEF HandedOnce
<1> QED BY <1>4, <1>5, <1>6 DEF QueueInv, QueueKept

\* What the steps outside trigger that put no row on the queue do: agents and
\* their exits, the operator, the investigator and the restarts.
LEMMA QueueOutside ==
  ASSUME FireInv, QueueKept, ~wiped,
         \/ \E t \in Callers : RunNow(t)
         \/ \E u \in Uids : TurnEnds(u) \/ Nudge(u) \/ ReportDone(u) \/ Exit(u) \/ ExitHook(u)
         \/ Pause \/ Resume \/ Drain
         \/ \E seq \in Seqs : ForceDone(seq)
         \/ \E t \in Callers :
              MarkUnstuck(t) \/ ResolveRestart(t) \/ ResolveEscalate(t) \/ ResolveMark(t)
         \/ BrainRestart \/ HardRestart
  PROVE  QueueKept'
<1>1. RunTypeOK /\ task \in Tasks /\ fire \in [Threads -> Fires] /\ spent \in Budget
  BY TypeParts DEF FireInv, RecordTypes, ThreadTypes
<1>2. kind' = kind /\ item' = item /\ batch' = batch /\ given' = given /\ poisoned' = poisoned
  BY DEF RunNow, TurnEnds, Nudge, ReportDone, Exit, ExitHook, Pause, Resume, Drain,
     ForceDone, MarkUnstuck, ResolveRestart, ResolveEscalate, ResolveMark, BrainRestart,
     HardRestart, queueVars, histVars
<1>3. spent'.fires = spent.fires
  BY <1>1
  DEF RunNow, TurnEnds, Nudge, ReportDone, Exit, ExitHook, Pause, Resume, Drain,
      ForceDone, MarkUnstuck, ResolveRestart, ResolveEscalate, ResolveMark, BrainRestart,
      HardRestart, Request, Fresh, Budget
<1>4. Ended(Completed) /\ Ended(Closed("failed")) /\ Ended(Stuck) /\ Ended(Closed("orphaned"))
  BY <1>1, ClosedFacts
<1>5. Ended(task') \/ (task'.run = task.run /\ task'.runs = task.runs /\ task'.block = task.block)
        => RunGoesOn
  BY DEF RunGoesOn, Ended, Running
<1>6. \A t \in Threads : fire'[t] = fire[t] => KeepsClaim(t)
  BY DEF KeepsClaim
<1>7. ASSUME NEW t \in Threads, NEW w, Loaded(t, w)
      PROVE  \A s \in Threads : KeepsClaim(s) \/ LoadsNow(s)
  <2>1. LoadsNow(t)
    BY <1>1, <1>7, CallFacts DEF JustLoaded, LoadsNow
  <2> QED BY <1>1, <1>6, <1>7, <2>1, CallFacts
<1>8. ASSUME NEW t \in Threads, NEW p, Finish(t, p), p \notin Active
      PROVE  \A s \in Threads : KeepsClaim(s)
  BY <1>1, <1>6, <1>8, CallFacts DEF KeepsClaim, Active
<1>9. tick' = tick => SnapGoesOn
  BY DEF SnapGoesOn, Snap
<1>10. CASE BrainRestart \/ HardRestart
  <2>1. Fresh
    BY <1>10 DEF BrainRestart, HardRestart
  <2>2. \A t \in Threads : KeepsClaim(t)
    BY <2>1 DEF Fresh, KeepsClaim, NoFire, Active
  <2>3. SnapGoesOn
    BY <2>1 DEF Fresh, SnapGoesOn, Snap, NoTick, NoSnap, NoRun
  <2>4. \A x \in Tasks : LET y == [x EXCEPT !.guard = NoGuard]
                         IN y.runs = x.runs /\ y.run = x.run /\ y.block = x.block
    BY DEF Tasks
  <2>5. Closed("orphaned") \in Tasks
    BY <1>1, ClosedTypes
  <2>6. ASSUME NEW left
        PROVE  LET y == Swept(left)
               IN /\ y \in Tasks
                  /\ y.runs = task.runs
                  /\ y.run.seq = task.run.seq /\ y.run.no = task.run.no
                  /\ y.run.status = "running" => Running /\ y.block = task.block
    <3>1. CASE Swept(left) = task
      BY <1>1, <3>1 DEF Running
    <3>2. CASE Swept(left) = [Closed("orphaned") EXCEPT !.guard = NoGuard]
      <4>1. [Closed("orphaned") EXCEPT !.guard = NoGuard] \in Tasks
        BY <2>5, FreshTypes DEF Tasks
      <4> QED BY <1>4, <2>4, <2>5, <3>2, <4>1 DEF Ended
    <3>3. CASE Swept(left) = [task EXCEPT !.guard = NoGuard]
      <4>1. [task EXCEPT !.guard = NoGuard] \in Tasks
        BY <1>1, FreshTypes DEF Tasks
      <4> QED BY <1>1, <2>4, <3>3, <4>1 DEF Running
    <3> QED BY <3>1, <3>2, <3>3 DEF Swept
  <2>7. PICK left : task' = Swept(left) \/ task' = [Swept(left) EXCEPT !.guard = NoGuard]
    BY <1>10 DEF BrainRestart, HardRestart
  <2>8. RunGoesOn
    <3>1. /\ task'.runs = Swept(left).runs /\ task'.run = Swept(left).run
          /\ task'.block = Swept(left).block
      BY <2>4, <2>6, <2>7
    <3> QED BY <2>6, <3>1 DEF RunGoesOn, Running
  <2> QED BY <1>2, <1>3, <2>2, <2>3, <2>8, QueueFrame
<1>11. CASE \E t \in Callers : RunNow(t)
  <2>1. PICK t \in Callers : RunNow(t)
    BY <1>11
  <2>2. \A s \in Threads : KeepsClaim(s) \/ LoadsNow(s)
    BY <1>7, <2>1 DEF RunNow, Threads
  <2>3. RunGoesOn /\ SnapGoesOn
    BY <1>5, <1>9, <2>1 DEF RunNow
  <2> QED BY <1>2, <1>3, <2>2, <2>3, QueueFrame
<1>12. CASE \/ \E u \in Uids :
                 TurnEnds(u) \/ Nudge(u) \/ ReportDone(u) \/ Exit(u) \/ ExitHook(u)
            \/ \E seq \in Seqs : ForceDone(seq)
  <2>1. fire' = fire /\ tick' = tick /\ task' \in {task, Completed, Closed("failed")}
    BY <1>12 DEF TurnEnds, Nudge, ReportDone, Exit, ExitHook, ForceDone
  <2>2. RunGoesOn /\ SnapGoesOn
    BY <1>4, <1>5, <1>9, <2>1
  <2> QED BY <1>2, <1>3, <1>6, <2>1, <2>2, QueueFrame
<1>13. CASE Pause \/ Resume \/ Drain
  <2>1. task'.run = task.run /\ task'.runs = task.runs /\ task'.block = task.block /\ tick' = tick
    BY <1>1, <1>13 DEF Pause, Resume, Drain, Tasks
  <2>2. \A t \in Threads : KeepsClaim(t)
    BY <1>1, <1>6, <1>13, CallFacts DEF Pause, Resume, Drain, KeepsClaim
  <2> QED BY <1>2, <1>3, <1>5, <1>9, <2>1, <2>2, QueueFrame
<1>14. ASSUME NEW t \in Callers,
              MarkUnstuck(t) \/ ResolveRestart(t) \/ ResolveEscalate(t) \/ ResolveMark(t)
       PROVE  QueueKept'
  <2>1. t \in Threads /\ tick' = tick
    BY <1>14 DEF Threads, MarkUnstuck, ResolveRestart, ResolveEscalate, ResolveMark
  <2>2. RunGoesOn
    BY <1>1, <1>4, <1>5, <1>14
    DEF MarkUnstuck, ResolveRestart, ResolveEscalate, ResolveMark, Tasks
  <2>3. \A s \in Threads : KeepsClaim(s) \/ LoadsNow(s)
    <3>1. CASE fire' = fire
      BY <1>6, <3>1
    <3>2. CASE Loaded(t, 0)
      BY <1>7, <2>1, <3>2
    <3>3. CASE fire' = [fire EXCEPT ![t].pc = "mark"]
      BY <1>1, <3>3 DEF KeepsClaim, Active, Fires
    <3>4. CASE Finish(t, "fired")
      BY <1>8, <2>1, <3>4 DEF Active
    <3> QED
      BY <1>14, <3>1, <3>2, <3>3, <3>4
      DEF MarkUnstuck, ResolveRestart, ResolveEscalate, ResolveMark
  <2> QED BY <1>2, <1>3, <1>9, <2>1, <2>2, <2>3, QueueFrame
<1> QED BY <1>10, <1>11, <1>12, <1>13, <1>14

\* The banner at the tail of the last run's session holds the run.
LEMMA QueueBlock == ASSUME FireInv, QueueKept, ~wiped, BlockDetect PROVE QueueKept'
<1>1. RunTypeOK /\ task \in Tasks /\ fire \in [Threads -> Fires] /\ GuardOwned
  BY TypeParts DEF FireInv, RecordTypes, ThreadTypes
<1>2. /\ kind' = kind /\ item' = item /\ batch' = batch /\ given' = given /\ fire' = fire
      /\ spent' = spent /\ tick' = NoTick
  BY DEF BlockDetect, queueVars
<1>3. PICK holds \in BOOLEAN :
        /\ holds => SameRun /\ task.guard = NoGuard
        /\ task' = IF holds THEN [task EXCEPT !.block = Snap.run.seq] ELSE task
        /\ poisoned' = IF holds THEN poisoned \cup {Snap.run.no} ELSE poisoned
  <2> DEFINE holds == SameRun /\ task.run.token = Snap.run.token /\ task.guard = NoGuard
  <2>1. /\ task' = IF holds THEN [task EXCEPT !.block = Snap.run.seq] ELSE task
        /\ poisoned' = IF holds THEN poisoned \cup {Snap.run.no} ELSE poisoned
    BY DEF BlockDetect
  <2>2. holds \in BOOLEAN /\ (holds => SameRun /\ task.guard = NoGuard)
    OBVIOUS
  <2> HIDE DEF holds
  <2> QED BY <2>1, <2>2
<1>4. /\ task'.runs = task.runs /\ task'.run = task.run
      /\ task'.block = IF holds THEN Snap.run.seq ELSE task.block
  BY <1>1, <1>3 DEF Tasks
<1>5. poisoned \subseteq poisoned'
  BY <1>3
<1>6. /\ Consumer' = Consumer /\ Running' = Running
      /\ \A t \in Threads : Seq(t)' = Seq(t) /\ Held(t)' = Held(t)
  BY <1>2, <1>4 DEF Consumer, Running, Seq, Held
<1>7. ASSUME holds
      PROVE  /\ Running /\ task.run.seq = Snap.run.seq /\ Snap.run.no = task.run.no
             /\ \A t \in Threads : ~Held(t)
  <2>1. Running /\ task.run.seq = Snap.run.seq /\ Snap.run.status = "running"
    BY <1>3, <1>7 DEF SameRun, BlockDetect, Probing
  <2>2. Snap.run.no = task.run.no
    BY <2>1 DEF QueueKept, SnapIsOfRun
  <2>3. ASSUME NEW t \in Threads, Held(t) PROVE FALSE
    <3>1. task.guard = [token |-> fire[t].token, uid |-> fire[t].uid] /\ fire[t].token # 0
      BY <1>1, <2>3 DEF GuardOwned
    <3> QED BY <1>3, <1>7, <3>1 DEF NoGuard
  <2> QED BY <2>1, <2>2, <2>3
<1>8. Numbered'
  BY <1>2, <1>4, <1>6 DEF QueueKept, Numbered, Held
<1>9. ClaimsStaged'
  <2>1. ClaimsStaged
    BY DEF QueueKept
  <2> QED BY <1>2, <1>5, <1>6, <2>1 DEF ClaimsStaged, Seq
<1>10. OpenSeen'
  BY <1>2, <1>4, <1>6 DEF QueueKept, OpenSeen, Held
<1>11. BatchKept'
  <2>1. BatchKept
    BY DEF QueueKept
  <2>2. ASSUME Running, Consumer, task'.block # task.run.seq PROVE task.block # task.run.seq
    BY <1>4, <1>7, <2>2
  <2> QED BY <1>2, <1>4, <1>5, <1>6, <2>1, <2>2 DEF BatchKept, Held
<1>12. BlockHolds'
  <2>1. ASSUME Running PROVE task.run.seq # 0 /\ (task'.block = task.run.seq =>
                               task.run.no \in poisoned' /\ \A t \in Threads : ~Held(t))
    <3>1. CASE holds
      BY <1>3, <1>7, <2>1, <3>1 DEF QueueKept, BlockHolds
    <3>2. CASE ~holds
      BY <1>4, <1>5, <2>1, <3>2 DEF QueueKept, BlockHolds
    <3> QED BY <3>1, <3>2
  <2> QED BY <1>2, <1>4, <1>6, <2>1 DEF BlockHolds, Held
<1>13. SnapIsOfRun'
  BY <1>2 DEF SnapIsOfRun, Snap, NoTick, NoSnap, NoRun
<1>14. HandedOnce'
  <2>1. HandedOnce
    BY DEF QueueKept
  <2>2. \A i \in Items : given[i] \ poisoned' \subseteq given[i] \ poisoned
    BY <1>5
  <2>3. \A i \in Items : \E n \in Nat : given[i] \ poisoned' \subseteq {n}
    BY <2>1, <2>2 DEF HandedOnce
  <2>4. \A i \in Items : item[i].at = "pending" => given[i] \subseteq poisoned'
    BY <1>5, <2>1 DEF HandedOnce
  <2> QED BY <1>2, <2>3, <2>4 DEF HandedOnce
<1> QED BY <1>8, <1>9, <1>10, <1>11, <1>12, <1>13, <1>14 DEF QueueKept

\* Recovery puts the rows of a blocked run on the queue, or some of them.
LEMMA QueueReplay ==
  ASSUME FireInv, QueueKept, ~wiped, RecoverReplay \/ ReplayFails
  PROVE  QueueKept'
<1>1. RunTypeOK /\ task \in Tasks /\ GuardOwned /\ tick \in Ticks
  BY TypeParts DEF FireInv, RecordTypes, ThreadTypes
<1>2. /\ kind' = kind /\ batch' = batch /\ given' = given /\ fire' = fire
      /\ spent' = spent /\ task' = task /\ poisoned' = poisoned
  BY DEF RecoverReplay, ReplayFails, histVars
<1>3. Running /\ task.run.seq = Snap.run.seq /\ task.block = task.run.seq
  BY DEF RecoverReplay, ReplayFails, Recoverable, SameRun, SnapBlocked
<1>4. task.run.no \in poisoned /\ \A t \in Threads : ~Held(t)
  BY <1>3 DEF QueueKept, BlockHolds
<1>5. item' = item \/ (Consumer /\ \E rows \in SUBSET batch[task.run.seq] : item' = Replayed(rows))
  BY <1>3 DEF RecoverReplay, ReplayFails
<1>6. \A i \in Items : item'[i].at = "pending" =>
        item[i].at = "pending" \/ (Consumer /\ i \in batch[task.run.seq])
  BY <1>5 DEF Replayed
<1>7. \A i \in Items : item'[i].at = "pending" => given[i] \subseteq poisoned
  <2>1. ASSUME NEW i \in Items, Consumer, i \in batch[task.run.seq]
        PROVE  given[i] \subseteq poisoned
    <3>1. given[i] \subseteq poisoned \cup {task.run.no}
      BY <1>3, <2>1 DEF QueueKept, BatchKept
    <3> QED BY <1>4, <3>1
  <2> QED BY <1>6, <2>1 DEF QueueKept, HandedOnce
<1>8. /\ Consumer' = Consumer /\ Running' = Running
      /\ \A t \in Threads : Seq(t)' = Seq(t) /\ ~Held(t)'
  BY <1>2, <1>4 DEF Consumer, Running, Seq, Held
<1>9. Snap'.run = Snap.run \/ Snap'.run.status # "running"
  BY <1>1 DEF RecoverReplay, ReplayFails, Snap, NoTick, NoSnap, NoRun, Ticks
<1>10. Numbered'
  BY <1>2, <1>8 DEF QueueKept, Numbered, Held
<1>11. ClaimsStaged'
  <2>1. \A t \in Threads : fire[t].pc \notin {"armed", "staged", "sent"}
    BY <1>4 DEF Held
  <2> QED BY <1>2, <1>8, <2>1 DEF QueueKept, ClaimsStaged
<1>12. OpenSeen'
  BY <1>2, <1>4, <1>8 DEF QueueKept, OpenSeen, Held
<1>13. BatchKept'
  <2>1. BatchKept
    BY DEF QueueKept
  <2> QED BY <1>2, <1>3, <1>8, <2>1 DEF BatchKept, Held
<1>14. BlockHolds'
  BY <1>2, <1>3, <1>4, <1>8 DEF QueueKept, BlockHolds, Held
<1>15. SnapIsOfRun'
  BY <1>2, <1>9 DEF QueueKept, SnapIsOfRun
<1>16. HandedOnce'
  BY <1>2, <1>7 DEF QueueKept, HandedOnce
<1> QED BY <1>10, <1>11, <1>12, <1>13, <1>14, <1>15, <1>16 DEF QueueKept

\* The other steps of the tick.
LEMMA QueueTick == ASSUME FireInv, QueueKept, ~wiped, Tick PROVE QueueKept'
<1>1. /\ RunTypeOK /\ task \in Tasks /\ fire \in [Threads -> Fires] /\ tick \in Ticks
      /\ spent \in Budget /\ Sched \in Threads
  BY TypeParts DEF FireInv, RecordTypes, ThreadTypes, Threads
<1>2. CASE BlockDetect
  BY <1>2, QueueBlock
<1>3. CASE RecoverReplay \/ ReplayFails
  BY <1>3, QueueReplay
<1>4. CASE ~BlockDetect /\ ~(RecoverReplay \/ ReplayFails)
  <2>0. \/ ReconcileFind \/ OrphanWrite \/ TickLoad \/ Supervise \/ Abandon
        \/ Investigate \/ InvestigateFails \/ InvestigateRecord
        \/ Escalate \/ EscalateMark
        \/ WedgeClose \/ RecoverClose \/ Due \/ Advance \/ TickEnd
    BY <1>4 DEF Tick
  <2>1. /\ kind' = kind /\ item' = item /\ batch' = batch /\ given' = given
        /\ poisoned' = poisoned
    BY <2>0
    DEF ReconcileFind, OrphanWrite, TickLoad, Supervise, Abandon, Investigate,
        InvestigateFails, InvestigateRecord, Escalate, EscalateMark, WedgeClose,
        RecoverClose, Due, Advance,
        TickEnd, queueVars, histVars
  <2>2. spent'.fires = spent.fires
    BY <1>1, <2>0
    DEF ReconcileFind, OrphanWrite, TickLoad, Supervise, Abandon, Investigate,
        InvestigateFails, InvestigateRecord, Escalate, EscalateMark, WedgeClose,
        RecoverClose, Due, Advance,
        TickEnd, Budget
  <2>3. SnapGoesOn
    <3>1. tick' = NoTick => Snap'.run.status # "running"
      BY DEF Snap, NoTick, NoSnap, NoRun
    <3>2. tick'.snap = tick.snap => SnapGoesOn
      BY DEF SnapGoesOn, Snap
    <3>3. CASE ReconcileFind \/ Due
      <4>1. ReconcileFind => tick'.snap = NoSnap
        <5>1. \A m : [NoTick EXCEPT !.pc = "found", !.mark = m].snap = NoSnap
          BY DEF NoTick
        <5> QED BY <5>1 DEF ReconcileFind
      <4>3. Due => tick'.snap = NoSnap
        BY DEF Due, NoTick
      <4>2. Snap'.run = NoRun
        <5>1. tick'.snap = NoSnap
          BY <3>3, <4>1, <4>3
        <5> QED BY <5>1 DEF Snap, NoSnap
      <4> QED BY <4>2 DEF SnapGoesOn, NoRun
    <3>4. CASE TickLoad
      <4>1. \A x : [NoTick EXCEPT !.pc = "pass", !.snap = x].snap = x
        BY DEF NoTick
      <4>2. Snap'.run = IF Running THEN task.run ELSE NoRun
        BY <3>4, <4>1 DEF TickLoad, Snap
      <4> QED BY <4>2 DEF SnapGoesOn, NoRun
    <3>5. CASE TickEnd \/ RecoverClose
      BY <3>1, <3>5 DEF TickEnd, RecoverClose, SnapGoesOn
    <3>6. CASE Supervise \/ Abandon \/ InvestigateFails \/ WedgeClose
      BY <1>1, <3>2, <3>6 DEF Supervise, Abandon, InvestigateFails, WedgeClose, Ticks
    <3>7. CASE OrphanWrite \/ Escalate
      BY <1>1, <3>2, <3>7 DEF OrphanWrite, Escalate, Ticks
    <3>8. CASE Investigate \/ InvestigateRecord \/ EscalateMark
      <4>1. Investigate => tick'.snap = tick.snap
        <5>1. \A x : [tick EXCEPT !.pc = "investigate", !.mark = x].snap = tick.snap
          BY <1>1 DEF Ticks
        <5> QED BY <5>1 DEF Investigate
      <4>2. InvestigateRecord => tick'.snap = tick.snap
        BY <1>1 DEF InvestigateRecord, Ticks
      <4>3. EscalateMark => tick'.snap = tick.snap
        BY <1>1 DEF EscalateMark, Ticks
      <4> QED BY <3>2, <3>8, <4>1, <4>2, <4>3
    <3>9. CASE Advance
      BY <1>1, <3>1, <3>2, <3>9 DEF Advance, SnapGoesOn, Ticks
    <3> QED BY <2>0, <3>3, <3>4, <3>5, <3>6, <3>7, <3>8, <3>9
  <2>4. RunGoesOn
    <3>1. /\ Ended(Stuck) /\ Ended(Closed("orphaned"))
          /\ Ended([Closed("failed") EXCEPT !.closes = 0])
          /\ Ended([Closed("failed") EXCEPT !.closes = @ + 1])
      BY <1>1, ClosedFacts
    <3>2. Ended(task') \/ (task'.run = task.run /\ task'.runs = task.runs /\ task'.block = task.block)
            => RunGoesOn
      BY DEF RunGoesOn, Ended, Running
    <3>3. CASE OrphanWrite
      <4>1. \A x \in Tasks : LET y == [x EXCEPT !.guard = NoGuard, !.block = 0]
                             IN y.runs = x.runs /\ y.run = x.run
        BY DEF Tasks
      <4>2. Closed("orphaned") \in Tasks
        BY <1>1, ClosedTypes
      <4>3. /\ task'.runs = task.runs /\ task'.run.seq = task.run.seq
            /\ task'.run.no = task.run.no /\ task'.run.status # "running"
        <5>1. CASE task.run = NoRun
          BY <1>1, <3>3, <4>1, <5>1 DEF OrphanWrite, NoRun
        <5>2. CASE task.run # NoRun
          BY <3>1, <3>3, <4>1, <4>2, <5>2 DEF OrphanWrite, Ended
        <5> QED BY <5>1, <5>2
      <4> QED BY <4>3 DEF RunGoesOn, Running
    <3>4. CASE EscalateMark \/ WedgeClose \/ RecoverClose
      BY <3>1, <3>2, <3>4 DEF EscalateMark, WedgeClose, RecoverClose
    <3>5. CASE Abandon \/ InvestigateRecord \/ Advance
      BY <1>1, <3>2, <3>5 DEF Abandon, InvestigateRecord, Advance, Tasks
    <3>6. CASE \/ ReconcileFind \/ TickLoad \/ Supervise \/ Investigate
               \/ InvestigateFails \/ Escalate \/ Due \/ TickEnd
      BY <3>2, <3>6 DEF ReconcileFind, TickLoad, Supervise, Investigate,
                        InvestigateFails, Escalate, Due, TickEnd
    <3> QED BY <2>0, <3>3, <3>4, <3>5, <3>6
  <2>5. \A s \in Threads : KeepsClaim(s) \/ LoadsNow(s)
    <3>1. \A t \in Threads : fire'[t] = fire[t] => KeepsClaim(t)
      BY DEF KeepsClaim
    <3>2. CASE Supervise \/ Due
      <4>1. fire' = fire \/ Loaded(Sched, 0)
        BY <3>2 DEF Supervise, Due
      <4>2. Loaded(Sched, 0) => LoadsNow(Sched)
        BY <1>1, CallFacts DEF JustLoaded, LoadsNow
      <4> QED BY <1>1, <3>1, <4>1, <4>2, CallFacts
    <3>3. CASE Advance
      <4> DEFINE trips == /\ fire[Sched].pc = "failed" /\ tick.pass = 4
                          /\ task.fails + 1 >= FailLimit
                 base == IF trips THEN Overtaken ELSE fire
      <4>1. fire' = [base EXCEPT ![Sched] = NoFire]
        BY <3>3, Zenon DEF Advance
      <4>2. base \in [Threads -> Fires]
        BY <1>1, CallTypes, TypeParts
      <4>3. fire'[Sched] = NoFire /\ \A s \in Threads : s # Sched => fire'[s] = base[s]
        BY <1>1, <4>1, <4>2
      <4>4. \A s \in Threads :
              /\ base[s].pc = fire[s].pc /\ base[s].no = fire[s].no
              /\ base[s].rows = fire[s].rows /\ base[s].compact = fire[s].compact
              /\ base[s].runs = fire[s].runs /\ base[s].open = fire[s].open
        BY <1>1, CallFacts
      <4> HIDE DEF trips, base
      <4> QED BY <4>3, <4>4 DEF KeepsClaim, NoFire, Active
    <3>4. CASE ~(Supervise \/ Due) /\ ~Advance
      <4>1. fire' = fire
        BY <2>0, <3>4
        DEF ReconcileFind, OrphanWrite, TickLoad, Abandon, Investigate,
            InvestigateFails, InvestigateRecord, Escalate, EscalateMark, WedgeClose, RecoverClose, TickEnd
      <4> QED BY <3>1, <4>1
    <3> QED BY <3>2, <3>3, <3>4
  <2> QED BY <2>1, <2>2, <2>3, <2>4, <2>5, QueueFrame
<1> QED BY <1>2, <1>3, <1>4

\* Whoever holds the guard is alone, and armed from the record as it is.
LEMMA Alone ==
  ASSUME FireInv, ~wiped, NEW t \in Threads, Held(t)
  PROVE  /\ fire[t].runs = task.runs /\ task.run.seq = task.runs /\ task.runs \in Nat
         /\ Seq(t) = task.runs + 1 /\ Seq(t) # task.run.seq
         /\ \A s \in Threads : s # t => ~Held(s)
         /\ fire[t].rows \subseteq Items
<1>1. GuardOwned /\ task \in Tasks /\ fire[t] \in Fires
  BY TypeParts DEF FireInv, RecordTypes, ThreadTypes
<1>2. fire[t].runs = task.runs /\ task.run.seq = task.runs /\ task.runs \in Nat
      /\ fire[t].rows \subseteq Items
  BY <1>1 DEF GuardOwned, Tasks, Fires
<1>3. \A s \in Threads : s # t => ~Held(s)
  BY <1>1 DEF GuardOwned
<1> QED BY <1>2, <1>3 DEF Seq

\* Staging keeps the file it writes, and the one it is told is open.
LEMMA StagedKeeps ==
  ASSUME NEW n, NEW rows, NEW open
  PROVE  /\ n \in DOMAIN Staged(n, rows, open) /\ Staged(n, rows, open)[n] = rows
         /\ open \in DOMAIN batch /\ open # n =>
              /\ open \in DOMAIN Staged(n, rows, open)
              /\ Staged(n, rows, open)[open] = batch[open]
<1> DEFINE files == [s \in DOMAIN batch \cup {n} |-> IF s = n THEN rows ELSE batch[s]]
<1>1. /\ n \in Retained(files, n, open)
      /\ open \in DOMAIN files => open \in Retained(files, n, open)
  BY DEF Retained
<1>2. Staged(n, rows, open) = [s \in Retained(files, n, open) |-> files[s]]
  BY DEF Staged
<1>3. /\ files[n] = rows
      /\ open \in DOMAIN batch /\ open # n => files[open] = batch[open] /\ open \in DOMAIN files
  OBVIOUS
<1> HIDE DEF files
<1> QED BY <1>1, <1>2, <1>3

\* A call that arms takes the next number.
LEMMA QueueArm ==
  ASSUME FireInv, QueueKept, ~wiped, NEW t \in Threads, Arm(t)
  PROVE  QueueKept'
<1>1. RunTypeOK /\ GuardOwned /\ fire \in [Threads -> Fires] /\ task \in Tasks /\ spent \in Budget
  BY TypeParts DEF FireInv, RecordTypes, ThreadTypes
<1>2. /\ kind' = kind /\ item' = item /\ batch' = batch /\ given' = given
      /\ poisoned' = poisoned /\ tick' = tick
  BY DEF Arm, queueVars, histVars
<1>3. /\ fire[t].pc = "loaded" /\ task.block = 0 /\ task.guard = NoGuard
      /\ \A s \in Threads : s # t => fire'[s] = fire[s]
      /\ fire'[t].pc \in {"armed", "staged"}
      /\ fire'[t].pc = "armed" <=> Consumer /\ ~fire'[t].compact
      /\ fire'[t].runs = fire[t].runs /\ fire'[t].open = fire[t].open
      /\ fire'[t].rows = fire[t].rows
      /\ fire'[t].no = spent.fires + 1 /\ spent'.fires = spent.fires + 1
      /\ task'.run = task.run /\ task'.runs = task.runs /\ task'.block = task.block
  BY <1>1, ArmFacts DEF Open
<1>4. fire[t].rows = {}
  BY <1>3 DEF QueueKept, ClaimsStaged
<1>5. ASSUME NEW s \in Threads, Held(s) PROVE FALSE
  <2>1. task.guard = [token |-> fire[s].token, uid |-> fire[s].uid] /\ fire[s].token # 0
    BY <1>1, <1>5 DEF GuardOwned
  <2> QED BY <1>3, <2>1 DEF NoGuard
<1>6. /\ Consumer' = Consumer /\ Running' = Running
      /\ \A s \in Threads : Held(s)' => s = t
      /\ \A s \in Threads : s # t => fire[s].pc \notin {"armed", "staged", "sent"}
  BY <1>2, <1>3, <1>5 DEF Consumer, Running, Held
<1>7. spent.fires \in Nat /\ task.run.no \in Nat /\ \A i \in Items : given[i] \subseteq Nat
  BY <1>1, TypeParts DEF Budget, Tasks, Runs, QueueTypes
<1>8. Numbered'
  <2>1. /\ task.run.no <= spent.fires
        /\ \A i \in Items : \A n \in given[i] : n <= spent.fires
    BY DEF QueueKept, Numbered
  <2>2. task.run.no <= spent.fires + 1 /\ task.run.no # spent.fires + 1
    BY <1>7, <2>1
  <2>3. \A i \in Items : \A n \in given[i] : n <= spent.fires + 1
    BY <1>7, <2>1
  <2>4. \A s \in Threads : Held(s)' => /\ fire'[s].no <= spent'.fires
                                       /\ fire'[s].no # task'.run.no
    BY <1>3, <1>6, <1>7, <2>2
  <2> QED BY <1>2, <1>3, <2>2, <2>3, <2>4 DEF Numbered, Held
<1>9. \A i \in Items : spent.fires + 1 \notin given[i]
  BY <1>7 DEF QueueKept, Numbered
<1>10. ClaimsStaged'
  <2>1. ClaimsStaged
    BY DEF QueueKept
  <2>2. ASSUME NEW s \in Threads, s # t, fire'[s].pc \in Active
        PROVE  fire'[s].pc = "loaded" /\ fire'[s].rows = {}
    BY <1>3, <1>6, <2>1, <2>2 DEF Active, ClaimsStaged
  <2>3. fire'[t].rows = {} /\ fire'[t].pc # "sent"
    BY <1>3, <1>4
  <2> QED BY <1>2, <1>3, <1>6, <1>9, <2>2, <2>3 DEF ClaimsStaged, Active, Seq
<1>11. OpenSeen'
  BY <1>3, <1>6 DEF QueueKept, OpenSeen, Held
<1>12. BatchKept'
  <2>1. BatchKept
    BY DEF QueueKept
  <2>2. \A s \in Threads : Held(s)' => fire'[s].rows = {}
    BY <1>3, <1>4, <1>6
  <2>3. {} \cap batch[task.run.seq] = {}
    OBVIOUS
  <2> QED BY <1>2, <1>3, <1>6, <2>1, <2>2, <2>3 DEF BatchKept, Held
<1>13. BlockHolds'
  BY <1>3, <1>6 DEF QueueKept, BlockHolds, Held
<1>14. SnapIsOfRun'
  BY <1>2, <1>3 DEF QueueKept, SnapIsOfRun, Snap
<1>15. HandedOnce'
  BY <1>2 DEF QueueKept, HandedOnce
<1> QED BY <1>8, <1>10, <1>11, <1>12, <1>13, <1>14, <1>15 DEF QueueKept

\* The claim takes rows nobody has been handed, or only poisoned runs, and their
\* batch file does not push out the one of the Running run.
LEMMA QueueStage ==
  ASSUME FireInv, QueueKept, ~wiped, NEW t \in Threads, Stage(t)
  PROVE  QueueKept'
<1>1. RunTypeOK /\ fire \in [Threads -> Fires] /\ task \in Tasks /\ item \in Rows
  BY TypeParts DEF FireInv, RecordTypes, ThreadTypes, QueueTypes
<1>2. /\ kind' = kind /\ given' = given /\ poisoned' = poisoned /\ tick' = tick
      /\ task' = task /\ spent' = spent
  BY DEF Stage, histVars
<1>3. PICK rows \in Claims :
        /\ item' = Moved(rows, "pending", "claimed")
        /\ batch' = Staged(Seq(t), rows, fire[t].open)
        /\ fire' = [fire EXCEPT ![t].pc = "staged", ![t].rows = rows]
  BY DEF Stage
<1>4. fire[t].pc = "armed" /\ Held(t)
  BY DEF Stage, Held
<1>5. rows \subseteq Pending /\ rows \subseteq Items
  BY <1>3 DEF Claims, Pending
<1>6. /\ \A s \in Threads : s # t => fire'[s] = fire[s]
      /\ fire'[t].pc = "staged" /\ fire'[t].rows = rows
      /\ fire'[t].no = fire[t].no /\ fire'[t].compact = fire[t].compact
      /\ fire'[t].runs = fire[t].runs /\ fire'[t].open = fire[t].open
  BY <1>1, <1>3 DEF Fires
<1>7. /\ fire[t].runs = task.runs /\ task.run.seq = task.runs
      /\ Seq(t) = task.runs + 1 /\ Seq(t) # task.run.seq
      /\ \A s \in Threads : s # t => ~Held(s)
  BY <1>4, Alone
<1>8. /\ Consumer' = Consumer /\ Running' = Running /\ Seq(t)' = Seq(t)
      /\ \A s \in Threads : Held(s)' => s = t
      /\ \A s \in Threads : s # t => fire[s].pc \notin {"armed", "staged", "sent"}
  BY <1>2, <1>6, <1>7 DEF Consumer, Running, Seq, Held
<1>9. \A i \in Items :
        /\ item'[i].at = "pending" => item[i].at = "pending"
        /\ i \in rows => item'[i].at # "pending"
  BY <1>1, <1>3, <1>5 DEF Moved, Pending, Rows
<1>10. \A i \in rows : given[i] \subseteq poisoned
  BY <1>5 DEF QueueKept, HandedOnce, Pending
<1>11. Seq(t) \in DOMAIN batch' /\ batch'[Seq(t)] = rows
  BY <1>3, StagedKeeps
<1>12. ASSUME Consumer, Running
       PROVE  /\ task.run.seq \in DOMAIN batch /\ task.run.seq \in DOMAIN batch'
              /\ batch'[task.run.seq] = batch[task.run.seq]
              /\ rows \cap batch[task.run.seq] = {}
  <2>1. fire[t].open = task.run.seq
    BY <1>4, <1>7, <1>12 DEF QueueKept, OpenSeen
  <2>2. task.run.seq \in DOMAIN batch
    BY <1>12 DEF QueueKept, BatchKept
  <2>3. task.run.seq \in DOMAIN batch' /\ batch'[task.run.seq] = batch[task.run.seq]
    BY <1>3, <1>7, <2>1, <2>2, StagedKeeps
  <2>4. task.block # task.run.seq
    BY <1>4, <1>12 DEF QueueKept, BlockHolds
  <2>5. rows \cap batch[task.run.seq] = {}
    BY <1>5, <1>12, <2>4 DEF QueueKept, BatchKept, Pending
  <2> QED BY <2>2, <2>3, <2>5
<1>13. Numbered'
  BY <1>2, <1>4, <1>6, <1>8 DEF QueueKept, Numbered, Held
<1>14. ClaimsStaged'
  <2>1. ClaimsStaged
    BY DEF QueueKept
  <2>2. ASSUME NEW s \in Threads, s # t, fire'[s].pc \in Active
        PROVE  fire'[s].pc = "loaded" /\ fire'[s].rows = {}
    BY <1>6, <1>8, <2>1, <2>2 DEF Active, ClaimsStaged
  <2>3. Consumer /\ ~fire[t].compact
    BY <1>4 DEF QueueKept, ClaimsStaged
  <2>4. \A i \in Items : fire[t].no \notin given[i]
    BY <1>4, <2>1 DEF ClaimsStaged
  <2>5. ASSUME NEW s \in Threads, s = t
        PROVE  /\ fire'[s].pc \notin {"loaded", "armed", "sent"}
               /\ Consumer' /\ ~fire'[s].compact
               /\ Seq(s)' \in DOMAIN batch' /\ batch'[Seq(s)'] = fire'[s].rows
               /\ \A i \in Items : fire'[s].no \notin given'[i]
               /\ \A i \in fire'[s].rows : given'[i] \subseteq poisoned'
               /\ \A i \in fire'[s].rows : item'[i].at # "pending"
    BY <1>2, <1>5, <1>6, <1>8, <1>9, <1>10, <1>11, <2>3, <2>4, <2>5
  <2> QED BY <2>2, <2>5 DEF ClaimsStaged, Active, Seq
<1>15. OpenSeen'
  BY <1>2, <1>4, <1>6, <1>8 DEF QueueKept, OpenSeen, Held
<1>16. BatchKept'
  <2>1. BatchKept
    BY DEF QueueKept
  <2>2. Consumer /\ Running => batch[task.run.seq] \subseteq Items
    BY <1>12, TypeParts DEF FireInv, QueueTypes
  <2> QED BY <1>2, <1>6, <1>8, <1>9, <1>12, <2>1, <2>2 DEF BatchKept, Held
<1>17. BlockHolds'
  BY <1>2, <1>4, <1>8 DEF QueueKept, BlockHolds, Held
<1>18. SnapIsOfRun'
  BY <1>2 DEF QueueKept, SnapIsOfRun, Snap
<1>19. HandedOnce'
  BY <1>2, <1>9 DEF QueueKept, HandedOnce
<1> QED BY <1>13, <1>14, <1>15, <1>16, <1>17, <1>18, <1>19 DEF QueueKept

\* The prompt hands the claimed items to one more agent.
LEMMA QueueSend ==
  ASSUME FireInv, QueueKept, ~wiped, NEW t \in Threads, Send(t)
  PROVE  QueueKept'
<1>1. /\ RunTypeOK /\ fire \in [Threads -> Fires] /\ task \in Tasks
      /\ given \in [Items -> SUBSET Nat]
  BY TypeParts DEF FireInv, RecordTypes, ThreadTypes, QueueTypes
<1>2. /\ kind' = kind /\ poisoned' = poisoned /\ tick' = tick
      /\ task' = task /\ spent' = spent /\ item' = item /\ batch' = batch
  BY DEF Send, histVars
<1>3. fire' = [fire EXCEPT ![t].pc = "sent"] /\ fire[t].pc = "staged" /\ Held(t)
  BY DEF Send, Held
<1>4. \/ given' = given
      \/ given' = [i \in Items |-> IF i \in fire[t].rows THEN given[i] \cup {fire[t].no}
                                                         ELSE given[i]]
  BY DEF Send, Prompted
<1>5. \A i \in Items : /\ given'[i] \subseteq given[i] \cup {fire[t].no}
                       /\ i \notin fire[t].rows => given'[i] = given[i]
  BY <1>1, <1>4
<1>6. /\ \A s \in Threads : s # t => fire'[s] = fire[s]
      /\ fire'[t].pc = "sent" /\ fire'[t].rows = fire[t].rows
      /\ fire'[t].no = fire[t].no /\ fire'[t].compact = fire[t].compact
      /\ fire'[t].runs = fire[t].runs /\ fire'[t].open = fire[t].open
  BY <1>1, <1>3 DEF Fires
<1>7. \A s \in Threads : s # t => ~Held(s)
  BY <1>3, Alone
<1>8. /\ Consumer' = Consumer /\ Running' = Running /\ Seq(t)' = Seq(t)
      /\ \A s \in Threads : Held(s)' => s = t
      /\ \A s \in Threads : s # t => fire[s].pc \notin {"armed", "staged", "sent"}
  BY <1>2, <1>6, <1>7 DEF Consumer, Running, Seq, Held
<1>9. /\ fire[t].no <= spent.fires /\ fire[t].no # task.run.no /\ fire[t].no \in Nat
      /\ fire[t].rows \subseteq Items
  BY <1>1, <1>3 DEF QueueKept, Numbered, Fires
<1>10. /\ \A i \in Items : fire[t].no \notin given[i]
       /\ \A i \in fire[t].rows : given[i] \subseteq poisoned
       /\ \A i \in fire[t].rows : item[i].at # "pending"
  BY <1>3 DEF QueueKept, ClaimsStaged
<1>11. Numbered'
  BY <1>2, <1>5, <1>6, <1>8, <1>9 DEF QueueKept, Numbered, Held
<1>12. ClaimsStaged'
  <2>1. ClaimsStaged
    BY DEF QueueKept
  <2>2. ASSUME NEW s \in Threads, s # t, fire'[s].pc \in Active
        PROVE  fire'[s].pc = "loaded" /\ fire'[s].rows = {}
    BY <1>6, <1>8, <2>1, <2>2 DEF Active, ClaimsStaged
  <2>3. /\ ~Consumer \/ fire[t].compact => fire[t].rows = {}
        /\ Consumer /\ ~fire[t].compact =>
             Seq(t) \in DOMAIN batch /\ batch[Seq(t)] = fire[t].rows
    BY <1>3, <2>1 DEF ClaimsStaged
  <2>4. ASSUME NEW s \in Threads, s = t
        PROVE  /\ fire'[s].pc \notin {"loaded", "armed", "staged"}
               /\ ~Consumer' \/ fire'[s].compact => fire'[s].rows = {}
               /\ Consumer' /\ ~fire'[s].compact =>
                    Seq(s)' \in DOMAIN batch' /\ batch'[Seq(s)'] = fire'[s].rows
               /\ \A i \in Items : fire'[s].no \in given'[i] => i \in fire'[s].rows
               /\ \A i \in fire'[s].rows : given'[i] \subseteq poisoned' \cup {fire'[s].no}
               /\ \A i \in fire'[s].rows : item'[i].at # "pending"
    BY <1>2, <1>5, <1>6, <1>8, <1>9, <1>10, <2>3, <2>4
  <2> QED BY <2>2, <2>4 DEF ClaimsStaged, Active, Seq
<1>13. OpenSeen'
  BY <1>2, <1>3, <1>6, <1>8 DEF QueueKept, OpenSeen, Held
<1>14. BatchKept'
  <2>1. SUFFICES ASSUME Consumer, Running PROVE
          /\ task.run.seq \in DOMAIN batch
          /\ \A i \in Items : task.run.no \in given'[i] => i \in batch[task.run.seq]
          /\ \A i \in batch[task.run.seq] :
               /\ given'[i] \subseteq poisoned \cup {task.run.no}
               /\ task.block # task.run.seq => item[i].at # "pending"
          /\ fire[t].rows \cap batch[task.run.seq] = {}
    BY <1>2, <1>6, <1>8 DEF BatchKept, Held
  <2>2. BatchKept /\ task.run.seq \in DOMAIN batch /\ fire[t].rows \cap batch[task.run.seq] = {}
    BY <1>3, <2>1 DEF QueueKept, BatchKept
  <2>3. batch[task.run.seq] \subseteq Items
    BY <2>2, TypeParts DEF FireInv, QueueTypes
  <2>4. \A i \in batch[task.run.seq] : i \notin fire[t].rows
    BY <2>2
  <2>5. \A i \in batch[task.run.seq] : given'[i] = given[i]
    BY <1>5, <2>3, <2>4
  <2>6. \A i \in Items : task.run.no \in given'[i] => task.run.no \in given[i]
    BY <1>5, <1>9
  <2> QED BY <2>1, <2>2, <2>5, <2>6 DEF BatchKept
<1>15. BlockHolds'
  BY <1>2, <1>3, <1>8 DEF QueueKept, BlockHolds, Held
<1>16. SnapIsOfRun'
  BY <1>2 DEF QueueKept, SnapIsOfRun, Snap
<1>17. HandedOnce'
  <2>1. HandedOnce
    BY DEF QueueKept
  <2>2. ASSUME NEW i \in Items, i \in fire[t].rows
        PROVE  /\ item[i].at # "pending"
               /\ given'[i] \ poisoned \subseteq {fire[t].no}
    BY <1>5, <1>10, <2>2
  <2>3. ASSUME NEW i \in Items, i \notin fire[t].rows PROVE given'[i] = given[i]
    BY <1>5, <2>3
  <2>4. \A i \in Items : \E n \in Nat : given'[i] \ poisoned \subseteq {n}
    BY <1>9, <2>1, <2>2, <2>3 DEF HandedOnce
  <2>5. \A i \in Items : item[i].at = "pending" => given'[i] \subseteq poisoned
    BY <2>1, <2>2, <2>3 DEF HandedOnce
  <2> QED BY <1>2, <2>4, <2>5 DEF HandedOnce
<1> QED BY <1>11, <1>12, <1>13, <1>14, <1>15, <1>16, <1>17 DEF QueueKept

\* The rows of a spawn that failed go back on the queue: nobody was handed them.
LEMMA QueueSpawnFails ==
  ASSUME FireInv, QueueKept, ~wiped, NEW t \in Threads, SpawnFails(t)
  PROVE  QueueKept'
<1>1. RunTypeOK /\ item \in Rows
  BY TypeParts DEF FireInv, QueueTypes
<1>2. /\ kind' = kind /\ poisoned' = poisoned /\ tick' = tick /\ spent' = spent
      /\ batch' = batch /\ given' = given
  BY DEF SpawnFails, histVars
<1>3. fire[t].pc = "staged" /\ Held(t) /\ Fails(t)
  BY DEF SpawnFails, Held
<1>4. \A i \in Items : item'[i].at = "pending" => item[i].at = "pending" \/ i \in fire[t].rows
  BY <1>1 DEF SpawnFails, Release, Moved, Rows
<1>5. /\ task'.run = task.run /\ task'.runs = task.runs /\ task'.block = task.block
      /\ \A s \in Threads : s # t => fire'[s] = fire[s]
      /\ fire'[t].pc \notin Active
  BY <1>1, <1>3, FailFacts DEF Active
<1>6. \A s \in Threads : s # t => ~Held(s)
  BY <1>3, Alone
<1>7. /\ Consumer' = Consumer /\ Running' = Running
      /\ \A s \in Threads : ~Held(s)'
      /\ \A s \in Threads : fire'[s].pc \in Active => fire'[s].pc = "loaded" /\ fire'[s] = fire[s]
  BY <1>2, <1>5, <1>6 DEF Consumer, Running, Held, Active
<1>8. \A i \in fire[t].rows : given[i] \subseteq poisoned
  BY <1>3 DEF QueueKept, ClaimsStaged
<1>9. Numbered'
  BY <1>2, <1>5, <1>7 DEF QueueKept, Numbered, Held
<1>10. ClaimsStaged'
  BY <1>7 DEF QueueKept, ClaimsStaged, Active
<1>11. OpenSeen'
  BY <1>5, <1>7 DEF QueueKept, OpenSeen, Held, Active
<1>12. BatchKept'
  <2>1. SUFFICES ASSUME Consumer, Running PROVE
          /\ task.run.seq \in DOMAIN batch
          /\ \A i \in Items : task.run.no \in given[i] => i \in batch[task.run.seq]
          /\ \A i \in batch[task.run.seq] :
               /\ given[i] \subseteq poisoned \cup {task.run.no}
               /\ task.block # task.run.seq => item'[i].at # "pending"
    BY <1>2, <1>5, <1>7 DEF BatchKept, Held
  <2>2. BatchKept /\ task.run.seq \in DOMAIN batch /\ fire[t].rows \cap batch[task.run.seq] = {}
    BY <1>3, <2>1 DEF QueueKept, BatchKept
  <2>3. batch[task.run.seq] \subseteq Items
    BY <2>2, TypeParts DEF FireInv, QueueTypes
  <2>4. \A i \in batch[task.run.seq] : task.block # task.run.seq => item'[i].at # "pending"
    BY <1>4, <2>1, <2>2, <2>3 DEF BatchKept
  <2> QED BY <2>1, <2>2, <2>4 DEF BatchKept
<1>13. BlockHolds'
  BY <1>2, <1>5, <1>7 DEF QueueKept, BlockHolds, Held
<1>14. SnapIsOfRun'
  BY <1>2, <1>5 DEF QueueKept, SnapIsOfRun, Snap
<1>15. HandedOnce'
  BY <1>2, <1>4, <1>8 DEF QueueKept, HandedOnce
<1> QED BY <1>9, <1>10, <1>11, <1>12, <1>13, <1>14, <1>15 DEF QueueKept

\* The record turns the claim into the batch of a Running run.
LEMMA QueueRecord ==
  ASSUME FireInv, QueueKept, ~wiped, NEW t \in Threads, Record(t)
  PROVE  QueueKept'
<1>1. RunTypeOK /\ task \in Tasks /\ fire \in [Threads -> Fires] /\ GuardOwned /\ tick \in Ticks
  BY TypeParts DEF FireInv, RecordTypes, ThreadTypes
<1>2. /\ kind' = kind /\ poisoned' = poisoned /\ tick' = tick /\ spent' = spent
      /\ batch' = batch /\ given' = given /\ item' = item
  BY DEF Record, queueVars, histVars
<1>3. /\ fire[t].pc = "sent" /\ task'.block = 0
      /\ task'.run.seq = fire[t].runs + 1
      /\ task'.run.no = fire[t].no
      /\ task'.run.status = IF fire[t].compact THEN "done" ELSE "running"
      /\ task'.runs = task.runs + 1
      /\ \A s \in Threads : s # t => fire'[s] = fire[s]
      /\ fire'[t].pc \notin Active
  BY <1>1, RecordFacts DEF Active
<1>4. Held(t)
  BY <1>3 DEF Held
<1>5. /\ fire[t].runs = task.runs /\ task.runs \in Nat /\ Seq(t) = task.runs + 1
      /\ \A s \in Threads : s # t => ~Held(s)
  BY <1>4, Alone
<1>6. /\ Consumer' = Consumer
      /\ \A s \in Threads : ~Held(s)'
      /\ \A s \in Threads : fire'[s].pc \in Active => fire'[s].pc = "loaded" /\ fire'[s] = fire[s]
  BY <1>2, <1>3, <1>5 DEF Consumer, Held, Active
<1>7. Running' => ~fire[t].compact
  BY <1>3 DEF Running
<1>8. Numbered'
  BY <1>2, <1>3, <1>4, <1>6 DEF QueueKept, Numbered, Held
<1>9. ClaimsStaged'
  BY <1>6 DEF QueueKept, ClaimsStaged, Active
<1>10. OpenSeen'
  <2>1. ASSUME NEW s \in Threads, fire'[s].pc = "loaded" PROVE fire'[s].runs # task'.runs
    <3>1. fire[s].pc = "loaded" /\ fire'[s].runs = fire[s].runs /\ fire[s].runs \in Nat
      BY <1>1, <1>6, <2>1 DEF Active, Fires
    <3>2. fire[s].runs <= task.runs
      BY <1>1, <3>1 DEF GuardOwned
    <3> QED BY <1>3, <1>5, <3>1, <3>2
  <2> QED BY <1>6, <2>1 DEF OpenSeen, Held
<1>11. BatchKept'
  <2>1. ASSUME Consumer, Running'
        PROVE  /\ Seq(t) \in DOMAIN batch
               /\ \A i \in Items : fire[t].no \in given[i] => i \in batch[Seq(t)]
               /\ \A i \in batch[Seq(t)] :
                    given[i] \subseteq poisoned \cup {fire[t].no} /\ item[i].at # "pending"
    BY <1>3, <1>7, <2>1 DEF QueueKept, ClaimsStaged
  <2>2. task'.run.seq = Seq(t)
    BY <1>3, <1>5
  <2> QED BY <1>2, <1>3, <1>6, <2>1, <2>2 DEF BatchKept, Held
<1>12. BlockHolds'
  BY <1>3, <1>5 DEF BlockHolds
<1>13. SnapIsOfRun'
  <2>1. Snap.run.seq \in Nat
    BY <1>1 DEF Snap, Ticks, Snaps, Runs
  <2> QED BY <1>2, <1>3, <1>5, <2>1 DEF QueueKept, SnapIsOfRun, Snap
<1>14. HandedOnce'
  BY <1>2 DEF QueueKept, HandedOnce
<1> QED BY <1>8, <1>9, <1>10, <1>11, <1>12, <1>13, <1>14 DEF QueueKept

\* trigger.
LEMMA QueueTrigger ==
  ASSUME FireInv, QueueKept, ~wiped, NEW t \in Threads, Trigger(t)
  PROVE  QueueKept'
<1>1. RunTypeOK /\ fire \in [Threads -> Fires] /\ item \in Rows
  BY TypeParts DEF FireInv, ThreadTypes, QueueTypes
<1>2. CASE Arm(t) \/ Stage(t) \/ Send(t) \/ SpawnFails(t) \/ Record(t)
  BY <1>2, QueueArm, QueueStage, QueueSend, QueueSpawnFails, QueueRecord
<1>3. CASE ArmRefused(t) \/ StageFails(t) \/ Ack(t)
  <2>1. /\ kind' = kind /\ batch' = batch /\ given' = given /\ poisoned' = poisoned
        /\ spent' = spent /\ tick' = tick
    BY <1>3 DEF ArmRefused, StageFails, Ack, queueVars, histVars
  <2>2. task'.run = task.run /\ task'.runs = task.runs /\ task'.block = task.block
    BY <1>1, <1>3, FailFacts DEF ArmRefused, StageFails, Ack
  <2>3. \A i \in Items : item'[i].at = "pending" => item[i].at = "pending"
    BY <1>1, <1>3 DEF ArmRefused, StageFails, Ack, Moved, Rows, queueVars
  <2>4. /\ \A s \in Threads : s # t => fire'[s] = fire[s]
        /\ fire'[t].pc \notin Active
    BY <1>1, <1>3, CallFacts, FailFacts DEF ArmRefused, StageFails, Ack, Active
  <2>5. \A s \in Threads : KeepsClaim(s)
    BY <2>4 DEF KeepsClaim
  <2>6. RunGoesOn /\ SnapGoesOn
    BY <2>1, <2>2 DEF RunGoesOn, SnapGoesOn, Snap, Running
  <2> QED BY <2>1, <2>3, <2>5, <2>6, QueueFrame
<1> QED BY <1>2, <1>3 DEF Trigger

LEMMA QueueStep == ASSUME FireInv, QueueInv, [RunNext]_runVars PROVE QueueInv'
<1>1. wiped => wiped'
  <2>1. ASSUME NEW t \in Threads, Trigger(t) PROVE wiped' = wiped
    BY <2>1 DEF Trigger, Arm, ArmRefused, Stage, StageFails, Send, SpawnFails, Record, Ack,
       histVars
  <2>2. ASSUME NEW t \in Callers,
               RunNow(t) \/ MarkUnstuck(t) \/ ResolveRestart(t) \/ ResolveEscalate(t)
                 \/ ResolveMark(t)
        PROVE  wiped' = wiped
    BY <2>2 DEF RunNow, MarkUnstuck, ResolveRestart, ResolveEscalate, ResolveMark, histVars
  <2>3. ASSUME NEW u \in Uids,
               TurnEnds(u) \/ Nudge(u) \/ ReportDone(u) \/ Exit(u) \/ ExitHook(u)
        PROVE  wiped' = wiped
    BY <2>3 DEF TurnEnds, Nudge, ReportDone, Exit, ExitHook, histVars
  <2>4. ASSUME Pause \/ Resume \/ Drain \/ \E seq \in Seqs : ForceDone(seq)
        PROVE  wiped' = wiped
    BY <2>4 DEF Pause, Resume, Drain, ForceDone, histVars
  <2>5. ASSUME Tick PROVE wiped => wiped'
    BY <2>5
    DEF Tick, ReconcileFind, OrphanWrite, TickLoad, Supervise, Abandon, Investigate,
        InvestigateFails, InvestigateRecord, Escalate, EscalateMark, BlockDetect, WedgeClose, RecoverReplay,
        ReplayFails, RecoverClose, Due, Advance, TickEnd, histVars
  <2>6. ASSUME BrainRestart \/ HardRestart PROVE wiped' = wiped
    BY <2>6 DEF BrainRestart, HardRestart, histVars
  <2> QED BY <2>1, <2>2, <2>3, <2>4, <2>5, <2>6 DEF RunNext, runVars
<1>2. SUFFICES ASSUME ~wiped, QueueKept PROVE QueueKept'
  BY <1>1 DEF QueueInv
<1>3. CASE RunNext
  BY <1>2, <1>3, QueueTrigger, QueueOutside, QueueTick DEF RunNext
<1>4. CASE UNCHANGED runVars
  BY <1>2, <1>4
  DEF runVars, QueueKept, Numbered, ClaimsStaged, OpenSeen, BatchKept, BlockHolds,
      SnapIsOfRun, HandedOnce, Held, Seq, Snap, Running, Consumer
<1> QED BY <1>3, <1>4

LEMMA QueueInvariant == RunSpec => [](FireInv /\ QueueInv)
<1>1. RunInit => FireInv /\ QueueInv
  BY GuardAtStart, QueueAtStart
<1>2. FireInv /\ QueueInv /\ [RunNext]_runVars => (FireInv /\ QueueInv)'
  BY GuardStep, QueueStep
<1> QED BY <1>1, <1>2, PTL DEF RunSpec

\* While a run may yet be held by an account block, prune_staged_batches has
\* left its batch file, and all its agent was handed is in it, whichever calls
\* staged, failed and pruned in the meantime.
THEOREM ReplaySourceKeptSafe == RunSpec => []ReplaySourceKept
<1>1. FireInv /\ QueueInv => ReplaySourceKept
  BY DEF QueueInv, QueueKept, BatchKept, ReplaySourceKept
<1> QED BY <1>1, QueueInvariant, PTL

\* Claim, stage, spawn, record and ack are five steps that may each fail, and
\* recovery enqueues items again; still no item reaches the agents of two runs
\* unless an account block held the first.
THEOREM NoDoubleWorkSafe == RunSpec => []NoDoubleWork
<1>1. ASSUME FireInv, QueueInv PROVE NoDoubleWork
  <2>1. SUFFICES ASSUME ~wiped, NEW i \in Items PROVE Cardinality(given[i] \ poisoned) <= 1
    BY DEF NoDoubleWork
  <2>2. PICK n \in Nat : given[i] \ poisoned \subseteq {n}
    BY <1>1, <2>1 DEF QueueInv, QueueKept, HandedOnce
  <2>3. given[i] \ poisoned = {} \/ given[i] \ poisoned = {n}
    BY <2>2
  <2>4. Cardinality({}) = 0 /\ Cardinality({n}) = 1
    BY FS_EmptySet, FS_Singleton
  <2> QED BY <2>3, <2>4
<1> QED BY <1>1, QueueInvariant, PTL
===============================================================================
