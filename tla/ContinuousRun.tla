--------------------------- MODULE ContinuousRun ---------------------------
(***************************************************************************)
(* One continuous task of the daemon: the durable record of                *)
(* daemon/src/continuous/task.rs and everything that writes it.  trigger   *)
(* (control/methods.rs) runs in RPC threads and in the scheduler's, and    *)
(* goes from its load through the in_flight guard, the queue claim, the    *)
(* spawn or delivery and the record to the ack.  Against it run the        *)
(* scheduler's tick (continuous/scheduler.rs), the agents, the reapers'    *)
(* exit hook, the operator's pause, resume, drain and force_done, the      *)
(* investigator's resolve_stuck, and the end and restart of the daemon.    *)
(*                                                                         *)
(* Every task::modify is atomic (a flock on the state file); the lifecycle *)
(* lock spans whole operations and is a variable.  Abstracted: time, so a  *)
(* budget, a grace or a due date may have passed or not, except that the   *)
(* scheduler's spawn-window grace outlasts every live fire; wording and    *)
(* audit lines; disk errors on the state file.  The task runs Claude:      *)
(* Codex recovery, adoption and retirement are not modelled.               *)
(***************************************************************************)
EXTENDS Naturals, FiniteSets

CONSTANTS
  Kinds,              \* the run modes and schedules tried, see AllKinds
  Callers,            \* RPC threads that call trigger or resolve_stuck
  Sched,              \* the scheduler's thread
  Items,              \* rows of the named queue
  Keyed,              \* those enqueued with a dedupe_key
  MaxFires,           \* fires that arm the guard
  MaxSessions,        \* session uids minted
  MaxRequests,        \* operator requests, of a task without a queue
  MaxQueueRequests,   \* and of a Consumer
  MaxCrashes,         \* ends of the daemon
  MaxInvestigations,  \* config.scheduler.max_investigations
  WedgeLimit,         \* config.scheduler.wedge_close_limit
  FailLimit,          \* CONSECUTIVE_FAILURE_LIMIT
  CompactEvery,       \* compact_every, 0 for none
  BatchMax,           \* batch_max of a Consumer
  BatchKeep,          \* config.scheduler.consumer_batch_keep
  Faults              \* which outside calls may fail, see AllFaults

AllKinds == {"fresh", "persistent", "fresh consumer", "persistent consumer"}
AllFaults == {"claim", "stage", "release", "spawn", "ack", "replay", "kill"}

ASSUME RunAssumption ==
  /\ Kinds \subseteq AllKinds
  /\ Sched \notin Callers
  /\ "free" \notin Callers \cup {Sched}
  /\ Keyed \subseteq Items
  /\ Faults \subseteq AllFaults
  /\ {MaxFires, MaxSessions, MaxRequests, MaxQueueRequests, MaxCrashes,
      MaxInvestigations, WedgeLimit, FailLimit, CompactEvery,
      BatchKeep} \subseteq Nat
  /\ BatchMax \in Nat \ {0}

Threads == Callers \cup {Sched}
Uids == 1 .. MaxSessions
Seqs == 1 .. MaxFires

VARIABLES
  kind,      \* the task's run_mode and schedule, fixed
  task,      \* its state.json
  sess,      \* per uid: what the kernel and the registry know of the session
  turn,      \* per uid: what the tail of its transcript says
  lock,      \* the thread that holds lifecycle.lock, or "free"
  fire,      \* per thread: where its trigger call is
  tick,      \* where the scheduler's tick is, and the record it loaded
  item,      \* per item: its row on the server
  batch,     \* the staged .queue/batch-<seq>.json files
  spent,     \* fires, sessions, requests and crashes used up
  given,     \* per item: the fires whose agent was handed it (history)
  poisoned,  \* the fires ever held by an account block (history)
  wiped      \* reconcile_orphans cleared a guard it had not read (history)

runVars   == <<kind, task, sess, turn, lock, fire, tick, item, batch, spent,
               given, poisoned, wiped>>
queueVars == <<item, batch, given>>
histVars  == <<poisoned, wiped>>

Persistent == kind \in {"persistent", "persistent consumer"}
Consumer == kind \in {"fresh consumer", "persistent consumer"}

(***************************************************************************)
(* The record and the threads.                                             *)
(***************************************************************************)
\* 0 stands for None in every token, uid and seq.  A run's no says which of
\* the fires it was (history): a caller may use a fire_token again.
NoGuard == [token |-> 0, uid |-> 0]
NoRun   == [seq |-> 0, token |-> 0, uid |-> 0, status |-> "none", no |-> 0]
NoDrain == [on |-> FALSE, seq |-> 0, token |-> 0]

NewTask ==
  [guard |-> NoGuard, run |-> NoRun, runs |-> 0, cur |-> 0, paused |-> FALSE,
   rev |-> 0, drain |-> NoDrain, block |-> 0, inv |-> 0, invs |-> 0,
   closes |-> 0, fails |-> 0]

\* A trigger call: the record it loaded (runs, rev, cur, open), what it
\* decided (live, token, uid, compact) and what it claimed.
NoFire ==
  [pc |-> "idle", runs |-> 0, rev |-> 0, cur |-> 0, open |-> 0,
   live |-> FALSE, want |-> 0, token |-> 0, no |-> 0, uid |-> 0,
   compact |-> FALSE, rows |-> {}, closed |-> FALSE]

\* What the passes of a tick read of the record it loaded.
NoSnap == [run |-> NoRun, busy |-> FALSE, paused |-> FALSE, drain |-> FALSE,
           block |-> 0, closes |-> 0, cur |-> 0]

NoTick == [pc |-> "idle", pass |-> 0, snap |-> NoSnap, acted |-> FALSE,
           mark |-> 0]

\* The guard is held from Arm to Record.
Held(t) == fire[t].pc \in {"armed", "staged", "sent"}
Seq(t) == fire[t].runs + 1

\* session_is_dead: not in the registry, or the kernel exit is recorded.
\* "doomed" has been sent SIGKILL; "exited" has ended and its exit
\* hook has not run.
Alive(u) == u \in Uids /\ sess[u] \in {"live", "doomed"}
Running == task.run.status = "running"

\* kill_session: refused while input is being delivered or recovery holds
\* the session, and on a dead one; otherwise the signal is sent.
Killed(u) ==
  LET dead == IF u \in Uids /\ sess[u] = "live"
                THEN [sess EXCEPT ![u] = "doomed"] ELSE sess
  IN IF "kill" \in Faults THEN {sess, dead} ELSE {dead}

\* One of the operator's or a caller's requests.
Request ==
  /\ spent.requests < IF Consumer THEN MaxQueueRequests ELSE MaxRequests
  /\ spent' = [spent EXCEPT !.requests = @ + 1]

RunInit ==
  /\ kind \in Kinds
  /\ task = NewTask
  /\ sess = [u \in Uids |-> "none"]
  /\ turn = [u \in Uids |-> "quiet"]
  /\ lock = "free"
  /\ fire = [t \in Threads |-> NoFire]
  /\ tick = NoTick
  /\ item = [i \in Items |-> [at |-> "pending", keyed |-> i \in Keyed]]
  /\ batch = [s \in {} |-> {}]
  /\ spent = [fires |-> 0, sessions |-> 0, requests |-> 0, crashes |-> 0]
  /\ given = [i \in Items |-> {}]
  /\ poisoned = {}
  /\ wiped = FALSE

(***************************************************************************)
(* The named queue, as the planning API serves it (dispatch/db.py).        *)
(***************************************************************************)
Pending == {i \in Items : item[i].at = "pending"}

\* Rows move only from one state to the next: a claim takes pending rows, an
\* ack and a requeue touch only claimed ones.
Moved(rows, from, to) ==
  [i \in Items |-> IF i \in rows /\ item[i].at = from
                     THEN [item[i] EXCEPT !.at = to] ELSE item[i]]

\* Mutant: the claim takes claimed rows as well.
MutantClaims ==
  LET rest == {i \in Items : item[i].at # "consumed"}
  IN {rows \in SUBSET rest :
        Cardinality(rows) = IF Cardinality(rest) < BatchMax
                              THEN Cardinality(rest) ELSE BatchMax}

\* The oldest pending rows, at most BatchMax: their age is abstracted.
Claims ==
  {rows \in SUBSET Pending :
     Cardinality(rows) = IF Cardinality(Pending) < BatchMax
                           THEN Cardinality(Pending) ELSE BatchMax}

\* enqueue of a staged item: the row's own key, or one derived from its id,
\* which the new row keeps.  The unique index covers rows not yet consumed.
Replayed(rows) ==
  [i \in Items |-> IF i \in rows /\ ~(item[i].keyed /\ item[i].at = "claimed")
                     THEN [at |-> "pending", keyed |-> TRUE] ELSE item[i]]

\* Mutant: only the batch being staged is protected.
MutantRetained(files, seq, open) ==
  LET newer(s) == Cardinality({n \in DOMAIN files : n > s})
  IN {s \in DOMAIN files : BatchKeep = 0 \/ newer(s) < BatchKeep \/ s = seq}

\* prune_staged_batches after batch seq is written: the BatchKeep newest
\* survive, the one being staged, and the one of a run that was Running when
\* trigger loaded the task.  (A recorded account block never gets this far.)
Retained(files, seq, open) ==
  LET newer(s) == Cardinality({n \in DOMAIN files : n > s})
  IN {s \in DOMAIN files : \/ BatchKeep = 0 \/ newer(s) < BatchKeep
                           \/ s \in {seq, open}}

Staged(seq, rows, open) ==
  LET files == [s \in DOMAIN batch \cup {seq} |->
                  IF s = seq THEN rows ELSE batch[s]]
  IN [s \in Retained(files, seq, open) |-> files[s]]

(***************************************************************************)
(* trigger.  A call returns to its caller by Finish; the scheduler's waits *)
(* for advance_after_fire.                                                 *)
(***************************************************************************)
Finish(t, outcome) ==
  /\ fire' = [fire EXCEPT ![t] = IF t = Sched THEN [NoFire EXCEPT !.pc = outcome]
                                              ELSE NoFire]
  /\ lock' = IF t # Sched /\ lock = t THEN "free" ELSE lock

\* The record and the liveness of a pinned session are read once.
Loaded(t, want) ==
  fire' = [fire EXCEPT ![t] =
    [NoFire EXCEPT !.pc = "loaded", !.runs = task.runs, !.rev = task.rev,
                   !.cur = task.cur, !.want = want,
                   !.open = IF Running THEN task.run.seq ELSE 0,
                   !.live = Persistent /\ Alive(task.cur)]]

\* continuous.run_now, or the MCP trigger: with a fresh fire_token, or again
\* with one already used.
RunNow(t) ==
  /\ t \in Callers
  /\ fire[t].pc = "idle"
  /\ ~task.paused
  /\ Request
  /\ \E want \in 0 .. spent.fires : Loaded(t, want)
  /\ UNCHANGED <<kind, task, sess, turn, lock, tick, queueVars, histVars>>

Token(t) == IF fire[t].want = 0 THEN spent.fires + 1 ELSE fire[t].want

\* Mutant: the admission_revision is not compared.
MutantOpenAnyRevision(t) ==
  /\ ~task.paused
  /\ ~task.drain.on
  /\ task.guard = NoGuard
  /\ task.run.token # Token(t)
  /\ task.runs = fire[t].runs
  /\ task.cur = fire[t].cur

\* The inside-flock check of arm_continuous_fire: an account block refuses
\* every fire, and so does any of the other reasons.
Open(t) ==
  /\ ~task.paused
  /\ ~task.drain.on
  /\ task.rev = fire[t].rev
  /\ task.guard = NoGuard
  /\ task.run.token # Token(t)
  /\ task.runs = fire[t].runs
  /\ task.cur = fire[t].cur

Admits(t) == Open(t) /\ task.block = 0

\* The bound on fires; a call beyond it is dropped.
InBounds == spent.fires < MaxFires /\ spent.sessions < MaxSessions

Arm(t) ==
  /\ fire[t].pc = "loaded"
  /\ Admits(t)
  /\ InBounds
  /\ LET uid == IF fire[t].live THEN fire[t].cur ELSE spent.sessions + 1
         compact == /\ fire[t].live /\ t = Sched /\ CompactEvery > 0
                    /\ Seq(t) % CompactEvery = 0
     IN /\ task' = [task EXCEPT !.guard = [token |-> Token(t), uid |-> uid]]
        /\ fire' = [fire EXCEPT ![t].pc =
                      IF Consumer /\ ~compact THEN "armed" ELSE "staged",
                      ![t].token = Token(t), ![t].no = spent.fires + 1,
                      ![t].uid = uid, ![t].compact = compact,
                      ![t].want = 0, ![t].rev = 0, ![t].cur = 0]
        /\ spent' = [spent EXCEPT !.fires = @ + 1,
                                  !.sessions = IF fire[t].live THEN @ ELSE @ + 1]
  /\ UNCHANGED <<kind, sess, turn, lock, tick, queueVars, histVars>>

\* Paused, reconciliation_required, stale_admission, busy, duplicate.
ArmRefused(t) ==
  /\ fire[t].pc = "loaded"
  /\ ~Admits(t) \/ ~InBounds
  /\ Finish(t, "skipped")
  /\ UNCHANGED <<kind, task, sess, turn, tick, queueVars, spent, histVars>>

\* continuous_clear_in_flight_after_failure, and the error return.
Fails(t) ==
  /\ task' = [task EXCEPT !.guard = NoGuard]
  /\ Finish(t, "failed")

\* release_consumer_batch, best effort.
Release(rows) ==
  \/ item' = Moved(rows, "claimed", "pending")
  \/ "release" \in Faults /\ item' = item

\* stage_consumer_batch.
Stage(t) ==
  /\ fire[t].pc = "armed"
  /\ \E rows \in Claims :
       /\ item' = Moved(rows, "pending", "claimed")
       /\ batch' = Staged(Seq(t), rows, fire[t].open)
       /\ fire' = [fire EXCEPT ![t].pc = "staged", ![t].rows = rows]
  /\ UNCHANGED <<kind, task, sess, turn, lock, tick, spent, given, histVars>>

\* The claim fails, before the server took the rows or after; or the file
\* cannot be written and the rows are released.
StageFails(t) ==
  /\ fire[t].pc = "armed"
  /\ \/ /\ "claim" \in Faults
        /\ \/ item' = item
           \/ \E rows \in Claims : item' = Moved(rows, "pending", "claimed")
     \/ /\ "stage" \in Faults
        /\ \/ item' = item
           \/ /\ "release" \in Faults
              /\ \E rows \in Claims : item' = Moved(rows, "pending", "claimed")
  /\ Fails(t)
  /\ UNCHANGED <<kind, sess, turn, tick, batch, spent, given, histVars>>

\* What a prompt handed to session u starts: a turn, or nothing when the
\* paste is lost.  A compact fire hands over no prompt.
Prompted(t, u) ==
  IF fire[t].compact \/ sess'[u] \notin {"live", "doomed"}
    THEN UNCHANGED <<turn, given>>
    ELSE \/ /\ turn' = [turn EXCEPT ![u] = "busy"]
            /\ given' = [i \in Items |-> IF i \in fire[t].rows
                                           THEN given[i] \cup {fire[t].no}
                                           ELSE given[i]]
         \/ /\ turn' = [turn EXCEPT ![u] = "quiet"]
            /\ UNCHANGED given

\* A live pinned session gets the prompt; otherwise a session is spawned and
\* gets it, unless it has already exited.
Send(t) ==
  /\ fire[t].pc = "staged"
  /\ \/ /\ fire[t].live
        /\ UNCHANGED sess
     \/ /\ ~fire[t].live
        /\ \E now \in {"live", "exited"} :
             sess' = [sess EXCEPT ![fire[t].uid] = now]
  /\ Prompted(t, fire[t].uid)
  /\ fire' = [fire EXCEPT ![t].pc = "sent"]
  /\ UNCHANGED <<kind, task, lock, tick, item, batch, spent, histVars>>

SpawnFails(t) ==
  /\ fire[t].pc = "staged"
  /\ ~fire[t].live
  /\ "spawn" \in Faults
  /\ Release(fire[t].rows)
  /\ Fails(t)
  /\ UNCHANGED <<kind, sess, turn, tick, batch, spent, given, histVars>>

\* The record step; without a batch the call is over.
Record(t) ==
  /\ fire[t].pc = "sent"
  /\ task' = [task EXCEPT
       !.run = [seq |-> Seq(t), token |-> fire[t].token, uid |-> fire[t].uid,
                status |-> IF fire[t].compact THEN "done" ELSE "running",
                no |-> fire[t].no],
       !.cur = fire[t].uid, !.runs = @ + 1, !.guard = NoGuard, !.block = 0,
       !.invs = 0, !.inv = 0]
  /\ IF fire[t].rows = {} THEN Finish(t, "fired")
       ELSE fire' = [fire EXCEPT ![t].pc = "recorded"] /\ UNCHANGED lock
  /\ UNCHANGED <<kind, sess, turn, tick, queueVars, spent, histVars>>

\* ack_consumer_batch, best effort.
Ack(t) ==
  /\ fire[t].pc = "recorded"
  /\ \/ item' = Moved(fire[t].rows, "claimed", "consumed")
     \/ "ack" \in Faults /\ item' = item
  /\ Finish(t, "fired")
  /\ UNCHANGED <<kind, task, sess, turn, tick, batch, spent, given, histVars>>

Trigger(t) ==
  \/ Arm(t) \/ ArmRefused(t) \/ Stage(t) \/ StageFails(t) \/ Send(t)
  \/ SpawnFails(t) \/ Record(t) \/ Ack(t)

(***************************************************************************)
(* Sessions: turns, report_done, exits.                                    *)
(***************************************************************************)
Closed(status) == [task EXCEPT !.run.status = status, !.block = 0]

\* Mutant: the streak of wedge closes is decremented, not reset.
MutantCompleted == [Closed("done") EXCEPT !.closes = @ - 1]

Completed == [Closed("done") EXCEPT !.closes = 0]

\* The agent ends its turn without a report, or on an auth or usage banner.
TurnEnds(u) ==
  /\ Alive(u)
  /\ turn[u] = "busy"
  /\ \E tail \in {"quiet", "blocked"} : turn' = [turn EXCEPT ![u] = tail]
  /\ UNCHANGED <<kind, task, sess, lock, fire, tick, queueVars, spent, histVars>>

\* Somebody types into the session, after a /login for instance.
Nudge(u) ==
  /\ Alive(u)
  /\ turn[u] \in {"quiet", "blocked"}
  /\ turn' = [turn EXCEPT ![u] = "busy"]
  /\ UNCHANGED <<kind, task, sess, lock, fire, tick, queueVars, spent, histVars>>

ReportDone(u) ==
  /\ Alive(u)
  /\ turn[u] = "busy"
  /\ turn' = [turn EXCEPT ![u] = "quiet"]
  /\ task' = IF task.run.uid = u /\ Running THEN Completed ELSE task
  /\ UNCHANGED <<kind, sess, lock, fire, tick, queueVars, spent, histVars>>

\* The child exits, by itself or of the signal; the kernel has the status.
Exit(u) ==
  /\ Alive(u)
  /\ sess' = [sess EXCEPT ![u] = "exited"]
  /\ turn' = [turn EXCEPT ![u] = "quiet"]
  /\ UNCHANGED <<kind, task, lock, fire, tick, queueVars, spent, histVars>>

\* handle_session_exit: a clean exit or a bare signal closes the run Done, a
\* nonzero code or a memory-cap kill Failed; then the session is forgotten.
ExitHook(u) ==
  /\ sess[u] = "exited"
  /\ sess' = [sess EXCEPT ![u] = "gone"]
  /\ IF task.run.uid = u /\ Running
       THEN task' \in {Completed, Closed("failed")} ELSE task' = task
  /\ UNCHANGED <<kind, turn, lock, fire, tick, queueVars, spent, histVars>>

(***************************************************************************)
(* The operator.                                                           *)
(***************************************************************************)
\* Calls whose record was loaded before admission closed (history).
Overtaken ==
  [t \in Threads |-> IF fire[t].pc = "loaded"
                       THEN [fire[t] EXCEPT !.closed = TRUE] ELSE fire[t]]

Pause ==
  /\ lock = "free"
  /\ Request
  /\ ~task.paused
  /\ task' = [task EXCEPT !.paused = TRUE, !.rev = @ + 1]
  /\ fire' = Overtaken
  /\ UNCHANGED <<kind, sess, turn, lock, tick, queueVars, histVars>>

Resume ==
  /\ lock = "free"
  /\ Request
  /\ task.paused \/ task.drain.on
  /\ task' = [task EXCEPT !.paused = FALSE, !.rev = @ + 1, !.drain = NoDrain]
  /\ UNCHANGED <<kind, sess, turn, lock, fire, tick, queueVars, histVars>>

\* Mutant: the last run is captured though a newer one is being spawned.
MutantDrainTarget == [on |-> TRUE, token |-> task.run.token, seq |-> task.run.seq]

\* drain::request: the run in its spawn window comes before the last one.
DrainTarget ==
  IF task.guard # NoGuard
    THEN [on |-> TRUE, token |-> task.guard.token,
          seq |-> IF task.run.token = task.guard.token THEN task.run.seq
                                                       ELSE task.runs + 1]
    ELSE [on |-> TRUE, token |-> task.run.token, seq |-> task.run.seq]

Drain ==
  /\ lock = "free"
  /\ Request
  /\ ~task.drain.on
  /\ task' = [task EXCEPT !.paused = TRUE, !.rev = @ + 1,
                          !.drain = DrainTarget]
  /\ fire' = Overtaken
  /\ UNCHANGED <<kind, sess, turn, lock, tick, queueVars, histVars>>

\* force_done names the run it closes: seq is one the operator has seen.
ForceDone(seq) ==
  /\ Request
  /\ task.run.seq = seq
  /\ Running
  /\ task' = Completed
  /\ UNCHANGED <<kind, sess, turn, lock, fire, tick, queueVars, histVars>>

(***************************************************************************)
(* The scheduler's tick: reconcile_orphans, a load of the record, and the  *)
(* passes over that snapshot in their order.                               *)
(***************************************************************************)
\* Mutant: a guard is followed only once its run is recorded.
MutantStrandedRun == IF Running THEN task.run.uid ELSE 0

\* The session a stranded run or guard waits for, 0 when there is none.
Stranded == IF task.guard # NoGuard THEN task.guard.uid
            ELSE IF Running THEN task.run.uid ELSE 0

\* Mutant: no grace.
MutantReconcileFind ==
  /\ tick.pc = "idle"
  /\ Stranded # 0
  /\ ~Alive(Stranded)
  /\ tick' = [NoTick EXCEPT !.pc = "found", !.mark = task.guard.token]
  /\ UNCHANGED <<kind, task, sess, turn, lock, fire, queueVars, spent, histVars>>

\* The grace: a guard this old is of no call that is still running.
ReconcileFind ==
  /\ tick.pc = "idle"
  /\ Stranded # 0
  /\ ~Alive(Stranded)
  /\ \A t \in Threads : Held(t) => fire[t].token # task.guard.token
  /\ tick' = [NoTick EXCEPT !.pc = "found", !.mark = task.guard.token]
  /\ UNCHANGED <<kind, task, sess, turn, lock, fire, queueVars, spent, histVars>>

OrphanWrite ==
  /\ tick.pc = "found"
  /\ task' = [(IF task.run = NoRun THEN task ELSE Closed("orphaned"))
                EXCEPT !.guard = NoGuard, !.block = 0]
  /\ wiped' = (wiped \/ task.guard.token \notin {0, tick.mark})
  /\ tick' = [tick EXCEPT !.pc = "load"]
  /\ UNCHANGED <<kind, sess, turn, lock, fire, queueVars, spent, poisoned>>

TickLoad ==
  /\ tick.pc \in {"idle", "load"}
  /\ tick' = [NoTick EXCEPT !.pc = "pass", !.snap =
       [run |-> IF Running THEN task.run ELSE NoRun,
        busy |-> task.guard # NoGuard, paused |-> task.paused,
        drain |-> Running /\ task.drain.on,
        block |-> IF Running THEN task.block ELSE 0,
        closes |-> IF Running THEN task.closes ELSE 0,
        cur |-> IF Persistent THEN task.cur ELSE 0]]
  /\ UNCHANGED <<kind, task, sess, turn, lock, fire, queueVars, spent, histVars>>

Snap == tick.snap

\* active_account_block of the snapshot.
SnapBlocked == Snap.run.status = "running" /\ Snap.block = Snap.run.seq

MustSupervise ==
  /\ Persistent /\ ~Snap.paused /\ ~Snap.busy /\ ~SnapBlocked
  /\ Snap.cur # 0
  /\ ~Alive(Snap.cur)

\* Pass n is next, the passes before it having found nothing to do.
Pass(n) ==
  /\ tick.pc = "pass"
  /\ fire[Sched].pc = "idle"
  /\ tick.pass <= n
  /\ tick.pass = 0 /\ n > 0 => ~MustSupervise

Supervise ==
  /\ Pass(0)
  /\ MustSupervise
  /\ IF task.paused THEN UNCHANGED fire ELSE Loaded(Sched, 0)
  /\ tick' = [tick EXCEPT !.pass = 1]
  /\ UNCHANGED <<kind, task, sess, turn, lock, queueVars, spent, histVars>>

\* Mutant: a live investigator keeps the watchdog away.
MutantOverrun ==
  /\ Pass(1)
  /\ ~Persistent
  /\ ~Snap.paused
  /\ lock = "free"
  /\ ~task.paused
  /\ ~task.drain.on
  /\ Running
  /\ Alive(task.run.uid)
  /\ ~Alive(task.inv)

\* watchdog_pass, under the lifecycle lock and on a fresh load: a Fresh run
\* past its budget whose session is alive.
Overrun ==
  /\ Pass(1)
  /\ ~Persistent
  /\ ~Snap.paused
  /\ lock = "free"
  /\ ~task.paused
  /\ ~task.drain.on
  /\ Running
  /\ Alive(task.run.uid)

\* The investigator is past its own budget: kill it and forget it.
Abandon ==
  /\ Overrun
  /\ Alive(task.inv)
  /\ sess' \in Killed(task.inv)
  /\ task' = [task EXCEPT !.inv = 0]
  /\ tick' = [tick EXCEPT !.pass = 2]
  /\ UNCHANGED <<kind, turn, lock, fire, queueVars, spent, histVars>>

\* spawn_investigator: the spawn, then the record of it.
Investigate ==
  /\ Overrun
  /\ ~Alive(task.inv)
  /\ task.invs < MaxInvestigations
  /\ spent.sessions < MaxSessions
  /\ LET uid == spent.sessions + 1
     IN /\ sess' = [sess EXCEPT ![uid] = "live"]
        /\ tick' = [tick EXCEPT !.pc = "investigate", !.mark = uid]
  /\ spent' = [spent EXCEPT !.sessions = @ + 1]
  /\ lock' = Sched
  /\ UNCHANGED <<kind, task, turn, fire, queueVars, histVars>>

\* The spawn fails: nothing is recorded, the attempt is not counted, and the
\* next tick tries again.
InvestigateFails ==
  /\ Overrun
  /\ ~Alive(task.inv)
  /\ task.invs < MaxInvestigations
  /\ "spawn" \in Faults
  /\ tick' = [tick EXCEPT !.pass = 2]
  /\ UNCHANGED <<kind, task, sess, turn, lock, fire, queueVars, spent, histVars>>

InvestigateRecord ==
  /\ tick.pc = "investigate"
  /\ task' = [task EXCEPT !.inv = tick.mark, !.invs = @ + 1]
  /\ tick' = [tick EXCEPT !.pc = "pass", !.pass = 2, !.mark = 0]
  /\ lock' = "free"
  /\ UNCHANGED <<kind, sess, turn, fire, queueVars, spent, histVars>>

\* escalate_stuck: the kill, then Stuck, whatever the last run is by then.
Stuck == [task EXCEPT !.run.status = "stuck", !.inv = 0]

Escalate ==
  /\ Overrun
  /\ ~Alive(task.inv)
  /\ task.invs >= MaxInvestigations
  /\ sess' \in Killed(task.run.uid)
  /\ tick' = [tick EXCEPT !.pc = "escalate"]
  /\ lock' = Sched
  /\ UNCHANGED <<kind, task, turn, fire, queueVars, spent, histVars>>

EscalateMark ==
  /\ tick.pc = "escalate"
  /\ task' = Stuck
  /\ tick' = [tick EXCEPT !.pc = "pass", !.pass = 2]
  /\ lock' = "free"
  /\ UNCHANGED <<kind, sess, turn, fire, queueVars, spent, histVars>>

\* resolve_stuck, by the current investigator and under the same lock.
Resolving(t) ==
  /\ t \in Callers
  /\ fire[t].pc = "idle"
  /\ lock = "free"
  /\ task.inv # 0
  /\ Alive(task.inv)

MarkUnstuck(t) ==
  /\ Resolving(t)
  /\ task' = [task EXCEPT !.inv = 0]
  /\ UNCHANGED <<kind, sess, turn, lock, fire, tick, queueVars, spent, histVars>>

\* Kill, forget the investigator, and trigger with the lock still held.
ResolveRestart(t) ==
  /\ Resolving(t)
  /\ ~task.drain.on
  /\ sess' \in Killed(task.run.uid)
  /\ task' = [task EXCEPT !.inv = 0]
  /\ IF task.paused THEN UNCHANGED <<fire, lock>>
                    ELSE Loaded(t, 0) /\ lock' = t
  /\ UNCHANGED <<kind, turn, tick, queueVars, spent, histVars>>

ResolveEscalate(t) ==
  /\ Resolving(t)
  /\ ~task.drain.on
  /\ sess' \in Killed(task.run.uid)
  /\ fire' = [fire EXCEPT ![t].pc = "mark"]
  /\ lock' = t
  /\ UNCHANGED <<kind, task, turn, tick, queueVars, spent, histVars>>

ResolveMark(t) ==
  /\ fire[t].pc = "mark"
  /\ task' = Stuck
  /\ Finish(t, "fired")
  /\ UNCHANGED <<kind, sess, turn, tick, queueVars, spent, histVars>>

\* auth_wedge_pass over the snapshot's run, when it was Running.  A blocked run
\* is held: the task is not fired in this tick.
Probing ==
  /\ Pass(2)
  /\ Snap.paused => Snap.drain
  /\ Snap.run.status = "running"

\* The record still names the snapshot's run, by seq and session.
SameRun == Running /\ task.run.seq = Snap.run.seq /\ task.run.uid = Snap.run.uid

\* A banner at the tail of a live session: the run is held, if it is still
\* the one of the snapshot.  The tick has nothing more to do for the task.
BlockDetect ==
  /\ Probing
  /\ ~SnapBlocked
  /\ Alive(Snap.run.uid)
  /\ turn[Snap.run.uid] = "blocked"
  /\ LET holds == /\ SameRun /\ task.run.token = Snap.run.token
                  /\ task.guard = NoGuard
     IN /\ task' = IF holds THEN [task EXCEPT !.block = Snap.run.seq] ELSE task
        /\ poisoned' = IF holds THEN poisoned \cup {Snap.run.no} ELSE poisoned
  /\ tick' = NoTick
  /\ UNCHANGED <<kind, sess, turn, lock, fire, queueVars, spent, wiped>>

\* A quiet tail past the grace: the run is closed, at most WedgeLimit times
\* in a row; beyond that, and during a drain, the operator is only told.
WedgeClose ==
  /\ Probing
  /\ ~SnapBlocked
  /\ Alive(Snap.run.uid)
  /\ turn[Snap.run.uid] = "quiet"
  /\ Snap.closes < WedgeLimit
  /\ lock = "free"
  /\ ~task.paused
  /\ ~task.drain.on
  /\ task.guard = NoGuard
  /\ SameRun
  /\ task' = [Closed("failed") EXCEPT !.closes = @ + 1]
  /\ tick' = [tick EXCEPT !.pass = 3]
  /\ UNCHANGED <<kind, sess, turn, lock, fire, queueVars, spent, histVars>>

\* recover_account_block, once a probe proves the account works again: check
\* the record under the lock, enqueue the staged items, close the run, kill.
Recoverable ==
  /\ ~task.paused
  /\ ~task.drain.on
  /\ task.guard = NoGuard
  /\ task.block = Snap.block
  /\ SameRun

RecoverReplay ==
  /\ Probing
  /\ SnapBlocked
  /\ lock = "free"
  /\ Recoverable
  /\ Consumer => Snap.run.seq \in DOMAIN batch
  /\ item' = IF Consumer THEN Replayed(batch[Snap.run.seq]) ELSE item
  /\ tick' = [tick EXCEPT !.pc = "recover"]
  /\ lock' = Sched
  /\ UNCHANGED <<kind, task, sess, turn, fire, batch, spent, given, histVars>>

\* Some of the items cannot be enqueued: the next probe tries again.
ReplayFails ==
  /\ Probing
  /\ SnapBlocked
  /\ lock = "free"
  /\ Recoverable
  /\ Consumer
  /\ "replay" \in Faults
  /\ Snap.run.seq \in DOMAIN batch
  /\ \E rows \in SUBSET batch[Snap.run.seq] : item' = Replayed(rows)
  /\ tick' = NoTick
  /\ UNCHANGED <<kind, task, sess, turn, lock, fire, batch, spent, given,
                 histVars>>

RecoverClose ==
  /\ tick.pc = "recover"
  /\ IF SameRun /\ task.block = Snap.run.seq
       THEN /\ task' = [Closed("failed") EXCEPT !.closes = 0]
            /\ sess' \in Killed(Snap.run.uid)
       ELSE UNCHANGED <<task, sess>>
  /\ tick' = NoTick
  /\ lock' = "free"
  /\ UNCHANGED <<kind, turn, fire, queueVars, spent, histVars>>

\* run_active_blocks_fire.
SnapActive ==
  \/ SnapBlocked
  \/ (Consumer \/ ~Persistent) /\ Snap.run.status = "running"

\* consumer_depth_snapshot: the depth comes from a cache that outlives a failed
\* poll, so rows claimed or consumed since may still count.
DepthSeen == Consumer => Items # {}

\* collect_due on the snapshot, and fire_task.
Due ==
  /\ Pass(3)
  /\ ~tick.acted
  /\ ~Snap.paused
  /\ ~Snap.busy
  /\ DepthSeen
  /\ ~SnapActive
  /\ ~task.paused
  /\ Loaded(Sched, 0)
  /\ tick' = [NoTick EXCEPT !.pc = "pass", !.pass = 4]
  /\ UNCHANGED <<kind, task, sess, turn, lock, queueVars, spent, histVars>>

\* advance_after_fire: a supervised fire advances only when it fired.  The
\* circuit breaker pauses the task and leaves its admission_revision alone.
Advance ==
  /\ fire[Sched].pc \in {"fired", "failed", "skipped"}
  /\ LET fired == fire[Sched].pc = "fired"
         failed == fire[Sched].pc = "failed" /\ tick.pass = 4
         trips == failed /\ task.fails + 1 >= FailLimit
     IN /\ task' = [task EXCEPT
             !.fails = IF fired THEN 0
                       ELSE IF failed /\ @ < FailLimit THEN @ + 1 ELSE @,
             !.paused = @ \/ trips]
        /\ fire' = [(IF trips THEN Overtaken ELSE fire) EXCEPT ![Sched] = NoFire]
        /\ tick' = IF tick.pass = 4 THEN NoTick
                   ELSE [tick EXCEPT !.acted = @ \/ fired]
  /\ UNCHANGED <<kind, sess, turn, lock, queueVars, spent, histVars>>

TickEnd ==
  /\ Pass(4)
  /\ tick' = NoTick
  /\ UNCHANGED <<kind, task, sess, turn, lock, fire, queueVars, spent, histVars>>

Tick ==
  \/ ReconcileFind \/ OrphanWrite \/ TickLoad \/ Supervise \/ Abandon
  \/ Investigate \/ InvestigateFails \/ InvestigateRecord
  \/ Escalate \/ EscalateMark \/ BlockDetect \/ WedgeClose \/ RecoverReplay
  \/ ReplayFails \/ RecoverClose \/ Due \/ Advance \/ TickEnd

(***************************************************************************)
(* The daemon ends and starts again, before it serves anyone.              *)
(***************************************************************************)
\* startup_orphan_sweep on what is left of the sessions.
Swept(left) ==
  IF Stranded = 0 \/ (Stranded \in Uids /\ left[Stranded] \in {"live", "doomed"})
    THEN task
    ELSE [(IF Running THEN Closed("orphaned") ELSE task)
            EXCEPT !.guard = NoGuard]

Fresh ==
  /\ spent.crashes < MaxCrashes
  /\ spent' = [spent EXCEPT !.crashes = @ + 1]
  /\ fire' = [t \in Threads |-> NoFire]
  /\ tick' = NoTick
  /\ lock' = "free"

\* A brain whose sessions a holder keeps, or a re-exec: they survive, and so
\* do the exits nobody has seen.
BrainRestart ==
  /\ Fresh
  /\ task' = Swept(sess)
  /\ UNCHANGED <<kind, sess, turn, queueVars, histVars>>

\* The daemon dies with its sessions.  The pinned session of a supervised
\* task is resumed at its uid, unless it has no transcript to resume.
HardRestart ==
  /\ Fresh
  /\ LET dead == [u \in Uids |-> IF sess[u] = "none" THEN "none" ELSE "gone"]
     IN \/ /\ task' = Swept(dead)
           /\ sess' = dead
        \/ /\ Persistent
           /\ ~task.paused
           /\ task.cur # 0
           /\ sess[task.cur] \in {"live", "doomed", "exited"}
           /\ sess' = [dead EXCEPT ![task.cur] = "live"]
           /\ task' = [Swept(dead) EXCEPT !.guard = NoGuard]
  /\ turn' = [u \in Uids |-> "quiet"]
  /\ UNCHANGED <<kind, queueVars, histVars>>

RunNext ==
  \/ \E t \in Threads : Trigger(t)
  \/ \E t \in Callers :
       \/ RunNow(t) \/ MarkUnstuck(t) \/ ResolveRestart(t)
       \/ ResolveEscalate(t) \/ ResolveMark(t)
  \/ \E u \in Uids :
       TurnEnds(u) \/ Nudge(u) \/ ReportDone(u) \/ Exit(u) \/ ExitHook(u)
  \/ Pause \/ Resume \/ Drain
  \/ \E seq \in Seqs : ForceDone(seq)
  \/ Tick
  \/ BrainRestart \/ HardRestart

RunSpec == RunInit /\ [][RunNext]_runVars

\* The daemon's threads keep running, reapers run their hooks and a signal
\* ends its process.  A stranded run outlasts the grace, an overrun its budget
\* and an investigator its own, so each of those branches is taken if it keeps
\* coming up; whether the investigator's spawn then succeeds is left open.
\* Nothing is assumed of agents, operators or outside services.
FairRun ==
  /\ RunSpec
  /\ \A t \in Threads : WF_runVars(Trigger(t) \/ ResolveMark(t))
  /\ WF_runVars(\E u \in Uids : ExitHook(u) \/ (sess[u] = "doomed" /\ Exit(u)))
  /\ WF_runVars(Tick)
  /\ SF_runVars(ReconcileFind)
  /\ SF_runVars(Abandon \/ Investigate \/ InvestigateFails \/ Escalate)

(***************************************************************************)
(* Properties.                                                             *)
(***************************************************************************)
Runs == [seq : Nat, token : Nat, uid : Nat, no : Nat,
         status : {"none", "running", "done", "failed", "orphaned", "stuck"}]

\* The shape of the record, the threads and the counters.
RunTypeOK ==
  /\ kind \in Kinds
  /\ task \in [guard : [token : Nat, uid : Nat],
               run : Runs,
               runs : Nat, cur : Nat, paused : BOOLEAN, rev : Nat,
               drain : [on : BOOLEAN, seq : Nat, token : Nat], block : Nat,
               inv : Nat, invs : Nat, closes : Nat, fails : Nat]
  /\ sess \in [Uids -> {"none", "live", "doomed", "exited", "gone"}]
  /\ turn \in [Uids -> {"busy", "quiet", "blocked"}]
  /\ lock \in Threads \cup {"free"}
  /\ fire \in [Threads ->
       [pc : {"idle", "loaded", "armed", "staged", "sent", "recorded", "mark",
              "fired", "failed", "skipped"},
        runs : Nat, rev : Nat, cur : Nat, open : Nat, live : BOOLEAN,
        want : Nat, token : Nat, no : Nat, uid : Nat, compact : BOOLEAN,
        rows : SUBSET Items, closed : BOOLEAN]]
  /\ tick \in [pc : {"idle", "found", "load", "pass", "investigate", "escalate",
                     "recover"},
               pass : 0 .. 4,
               snap : [run : Runs, busy : BOOLEAN, paused : BOOLEAN,
                       drain : BOOLEAN, block : Nat, closes : Nat, cur : Nat],
               acted : BOOLEAN, mark : Nat]
  /\ item \in [Items -> [at : {"pending", "claimed", "consumed"},
                         keyed : BOOLEAN]]
  /\ DOMAIN batch \subseteq Nat
  /\ \A s \in DOMAIN batch : batch[s] \subseteq Items
  /\ spent \in [fires : Nat, sessions : Nat, requests : Nat, crashes : Nat]
  /\ given \in [Items -> SUBSET Nat]
  /\ poisoned \subseteq Nat
  /\ wiped \in BOOLEAN

\* From Arm to Record a call owns the guard, so two are never between them:
\* no other writer of the record takes the guard from a call that is still
\* running.  And the number it gave its run, from the record it loaded before
\* it armed, is still the next one, so no two runs share one.  The exception is
\* a reconcile whose write comes after a newer arm.
OneFire ==
  ~wiped =>
    /\ task.run.seq = task.runs
    /\ \A t \in Threads :
         Held(t) => /\ task.guard = [token |-> fire[t].token, uid |-> fire[t].uid]
                    /\ fire[t].runs = task.runs

\* While a drain is in force no run starts that it does not name: the last
\* run and the spawn window are the drained one or older.
DrainHoldsTheLine ==
  ~wiped /\ task.drain.on =>
    /\ task.run.seq <= task.drain.seq
    /\ task.guard.token \in {0, task.drain.token}

\* A call that loaded the record before a pause or drain does not arm after
\* it, not even when a resume has come in between.
AdmissionHolds == \A t \in Threads : Held(t) => ~fire[t].closed

\* A run that may yet be held by an account block still has its staged batch,
\* and every item its agent was handed is in it: recovery replays from there.
ReplaySourceKept ==
  Consumer /\ Running /\ ~wiped =>
    /\ task.run.seq \in DOMAIN batch
    /\ {i \in Items : task.run.no \in given[i]} \subseteq batch[task.run.seq]

\* No item is handed to the agents of two runs, unless an account block held
\* the first of them.  A reconcile that wipes a newer guard is excepted: two
\* runs then share a number and a batch file, so the recovery of the one
\* enqueues the items of the other.
NoDoubleWork ==
  ~wiped => \A i \in Items : Cardinality(given[i] \ poisoned) <= 1

\* A guard is released unless the session it names lives, and a run whose
\* session is dead is closed, by the exit hook, the sweep or the scheduler,
\* unless a guard stands in the way.
DeadSettles ==
  /\ task.guard # NoGuard ~> task.guard = NoGuard \/ Alive(task.guard.uid)
  /\ Running /\ ~Alive(task.run.uid) ~> ~Running \/ task.guard # NoGuard

\* A Fresh run does not go on for ever, whatever its agent and the agents
\* sent to investigate it do, unless the operator stops the watchdog.  The
\* exception is an investigator that can never be spawned: a failed spawn does
\* not count towards the cap, so the watchdog tries for ever.
WatchedRunEnds ==
  \/ []<><<InvestigateFails>>_runVars
  \/ (~Persistent /\ Running ~> ~Running \/ task.paused)

\* A block left on a run that is no longer Running does not by itself refuse
\* a fire.
StaleBlocksAreInert ==
  \A t \in Threads :
    fire[t].pc = "loaded" /\ Open(t) /\ ~Running => Admits(t)
=============================================================================
