--------------------------- MODULE RestartBarrier ---------------------------
(***************************************************************************)
(* The in-place re-exec of a daemon that holds its own sessions: the        *)
(* mutation counter, the restart latch and the safe points of              *)
(* daemon/src/restart_coordinator.rs, the three gates (writer_gate.rs,     *)
(* reap_gate.rs, reader_gate.rs) and the sequence of perform_reexec in     *)
(* reexec.rs, which perform_migrate_split in migrate.rs repeats, against    *)
(* everything that runs meanwhile: RPC threads, prompt deliveries, PTY     *)
(* readers, reapers and memory-cap watchers.                               *)
(*                                                                         *)
(* Abstracted: bytes, fds and the manifest's fields; the preflight, which  *)
(* comes before any side effect; time, so every deadline may be met or     *)
(* missed.  What the new image does is not modelled: the old one ends.     *)
(***************************************************************************)
EXTENDS Naturals, FiniteSets

CONSTANTS
  Restarters,  \* threads in perform_reexec or perform_migrate_split
  Callers,     \* threads in dispatch_request
  Background,  \* delivery, scheduler and poller threads, outside any dispatch
  Sessions,    \* children, one per spawn
  NoSession

ASSUME BarrierAssumption ==
  /\ Callers \cap Background = {}
  /\ NoSession \notin Sessions

Threads == Callers \cup Background

VARIABLES
  at,          \* per restarter: stage, gates held, prior_draining
  draining,    \* DaemonState.draining
  restarting,  \* DaemonState.restarting
  wish,        \* the operator's last daemon.drain outside attempts (history)
  pausing,     \* SubsystemRegistry.pause_requested
  asked,       \* handles whose pause_requested is set
  call,        \* per thread: where its dispatch is, and the child it spawns
  unit,        \* per thread: its PTY-input unit
  child,       \* per child: what the kernel and the reaper know of it
  listed,      \* the keys of DaemonState.sessions
  holding,     \* children whose reader has bytes on its stack
  watcher,     \* per child: its run_watcher
  unfenced,    \* children whose spawn the barrier does not wait for (history)
  manifest     \* the sealed manifest's sessions

coordVars == <<at, draining, restarting, wish, pausing, asked, manifest>>
drainVars == <<draining, restarting, wish>>
callVars  == <<call, listed, unfenced>>
worldVars == <<call, unit, child, listed, holding, watcher, unfenced>>
barVars   == <<at, draining, restarting, wish, pausing, asked, call,
               unit, child, listed, holding, watcher, unfenced, manifest>>

\* How many gates a restarter holds: it takes them, and drops them, in order.
Door == 1
Writing == 2
Reaping == 3
Reading == 4

Stages == {"idle", "begun", "waiting", "deciding", "asleep", "rising",
           "sealed", "gone", "falling", "resumed"}
CallPcs == {"idle", "spawn", "start", "write", "ordered", "forked",
            "leaving", "notifying"}
ChildStates == {"none", "ordered", "running", "zombie", "consumed", "reaped"}
WatcherPcs == {"none", "newborn", "top", "acking", "parked", "poll", "term",
               "exited"}

BarrierTypeOK ==
  /\ at \in [Restarters -> [stage : Stages, held : 0..Reading, prior : BOOLEAN]]
  /\ draining \in BOOLEAN /\ restarting \in BOOLEAN
  /\ wish \in BOOLEAN /\ pausing \in BOOLEAN
  /\ asked \subseteq Sessions
  /\ call \in [Threads -> [pc : CallPcs, job : Sessions \cup {NoSession}]]
  /\ unit \in [Threads -> {"idle", "passed", "body"}]
  /\ child \in [Sessions -> ChildStates]
  /\ listed \subseteq Sessions
  /\ holding \subseteq Sessions
  /\ watcher \in [Sessions -> WatcherPcs]
  /\ unfenced \subseteq Sessions
  /\ manifest \subseteq Sessions

NoAttempt == [stage |-> "idle", held |-> 0, prior |-> FALSE]
NoCall == [pc |-> "idle", job |-> NoSession]

\* Some sessions run, some of them under a memory cap.
BarrierInit ==
  /\ at = [r \in Restarters |-> NoAttempt]
  /\ draining \in BOOLEAN /\ wish = draining
  /\ restarting = FALSE /\ pausing = FALSE
  /\ asked = {} /\ holding = {} /\ unfenced = {} /\ manifest = {}
  /\ call = [c \in Threads |-> NoCall]
  /\ unit = [w \in Threads |-> "idle"]
  /\ listed \in SUBSET Sessions
  /\ child = [s \in Sessions |-> IF s \in listed THEN "running" ELSE "none"]
  /\ \E capped \in SUBSET listed :
       watcher = [s \in Sessions |-> IF s \in capped THEN "top" ELSE "none"]

-----------------------------------------------------------------------------
(* What the threads see of each other.                                     *)

\* The old image still runs.
Up == \A r \in Restarters : at[r].stage # "gone"

\* Gate n, or the door for n = 1, is closed.
Closed(n) == \E r \in Restarters : at[r].held >= n

\* A restarter holds the counts mutex from its look at the barrier to its sleep.
CountsLocked == \E r \in Restarters : at[r].stage = "deciding"

InFlight == {c \in Callers : call[c].pc \notin {"idle", "notifying"}}

Registered(s) == watcher[s] \in {"top", "acking", "parked", "poll", "term"}
Paused(s) == watcher[s] \in {"acking", "parked"}
UnpausedSubsystems == {s \in Sessions : Registered(s) /\ ~Paused(s)}

Quiescent == InFlight = {} /\ UnpausedSubsystems = {}

\* quiesce_cv.notify_all()
NotifyAll ==
  at' = [r \in Restarters |->
           IF at[r].stage = "asleep" THEN [at[r] EXCEPT !.stage = "waiting"]
                                     ELSE at[r]]

-----------------------------------------------------------------------------
(* The attempt: restart_coordinator::begin and wait_quiesced.               *)

GoTo(r, s) == at' = [at EXCEPT ![r].stage = s]

\* The latch is not looked at.
MutantBegin(r) ==
  /\ at[r].stage = "idle"
  /\ at' = [at EXCEPT ![r] = [stage |-> "begun", held |-> 0, prior |-> draining]]
  /\ restarting' = TRUE /\ draining' = TRUE
  /\ UNCHANGED <<wish, pausing, asked, manifest, worldVars>>

Begin(r) ==
  /\ at[r].stage = "idle" /\ ~restarting
  /\ at' = [at EXCEPT ![r] = [stage |-> "begun", held |-> 0, prior |-> draining]]
  /\ restarting' = TRUE /\ draining' = TRUE
  /\ UNCHANGED <<wish, pausing, asked, manifest, worldVars>>

RequestPauseAll(r) ==
  /\ at[r].stage = "begun"
  /\ GoTo(r, "waiting")
  /\ pausing' = TRUE
  /\ asked' = {s \in Sessions : Registered(s)}
  /\ UNCHANGED <<drainVars, manifest, worldVars>>

Quiesced(r) ==
  /\ at[r].stage = "waiting" /\ Quiescent
  /\ GoTo(r, "rising")
  /\ UNCHANGED <<drainVars, pausing, asked, manifest, worldVars>>

\* Not yet, and the deadline is ahead.
NotQuiesced(r) ==
  /\ at[r].stage = "waiting" /\ ~Quiescent
  /\ GoTo(r, "deciding")
  /\ UNCHANGED <<drainVars, pausing, asked, manifest, worldVars>>

\* wait_timeout gives the counts mutex back as it goes to sleep.
Sleep(r) ==
  /\ at[r].stage = "deciding"
  /\ GoTo(r, "asleep")
  /\ UNCHANGED <<drainVars, pausing, asked, manifest, worldVars>>

\* The deadline, or a spurious wakeup.
WakeUp(r) ==
  /\ at[r].stage = "asleep"
  /\ GoTo(r, "waiting")
  /\ UNCHANGED <<drainVars, pausing, asked, manifest, worldVars>>

QuiesceTimedOut(r) ==
  /\ at[r].stage = "waiting" /\ ~Quiescent
  /\ GoTo(r, "falling")
  /\ UNCHANGED <<drainVars, pausing, asked, manifest, worldVars>>

-----------------------------------------------------------------------------
(* The gates, the handoff and the way back: perform_reexec, exec_stage.     *)

Climb(r, n) ==
  /\ at[r].stage = "rising" /\ at[r].held = n - 1
  /\ at' = [at EXCEPT ![r].held = n]
  /\ UNCHANGED <<drainVars, pausing, asked, manifest, worldVars>>

\* writer_gate::request_pause
RequestWriterPause(r) == Climb(r, Door)

\* writer_gate::freeze, whose try_write needs every permit back ...
FreezeWriters(r) ==
  /\ \A w \in DOMAIN unit : unit[w] # "body"
  /\ Climb(r, Writing)

\* A blocking write() instead of the bounded try_write.
MutantWriterFreezeTimedOut(r) == FALSE /\ UNCHANGED barVars

\* ... before its own deadline.
WriterFreezeTimedOut(r) ==
  /\ at[r].stage = "rising" /\ at[r].held = Door
  /\ \E w \in DOMAIN unit : unit[w] = "body"
  /\ GoTo(r, "falling")
  /\ UNCHANGED <<drainVars, pausing, asked, manifest, worldVars>>

\* reap_gate::freeze waits for the reapers that have consumed a status.
FreezeReapers(r) ==
  /\ \A s \in Sessions : child[s] # "consumed"
  /\ Climb(r, Reaping)

\* reader_gate::freeze waits for the readers that have bytes on their stack.
FreezeReaders(r) ==
  /\ holding = {}
  /\ Climb(r, Reading)

\* persist_all_checked, post_freeze_revalidation and build_manifest pass.
Seal(r) ==
  /\ at[r].stage = "rising" /\ at[r].held = Reading
  /\ GoTo(r, "sealed")
  /\ manifest' = listed
  /\ UNCHANGED <<drainVars, pausing, asked, worldVars>>

Exec(r) ==
  /\ at[r].stage = "sealed"
  /\ GoTo(r, "gone")
  /\ UNCHANGED <<drainVars, pausing, asked, manifest, worldVars>>

\* Any step of exec_stage may return its error; execveat may, too.
StageFails(r) ==
  /\ at[r].stage \in {"rising", "sealed"} /\ at[r].held = Reading
  /\ GoTo(r, "falling")
  /\ manifest' = {}
  /\ UNCHANGED <<drainVars, pausing, asked, worldVars>>

\* A drop that does not know how many guards are left.
MutantThaw(r) ==
  /\ at[r].stage = "falling"
  /\ at' = [at EXCEPT ![r].held = @ - 1]
  /\ UNCHANGED <<drainVars, pausing, asked, manifest, worldVars>>

\* The drops of perform_reexec, in reverse order of acquisition.
Thaw(r) ==
  /\ at[r].stage = "falling" /\ at[r].held > 0
  /\ at' = [at EXCEPT ![r].held = @ - 1]
  /\ UNCHANGED <<drainVars, pausing, asked, manifest, worldVars>>

\* The registry forgets the request, the handles do not.
MutantResumeAll(r) ==
  /\ at[r].stage = "falling" /\ at[r].held = 0
  /\ GoTo(r, "resumed")
  /\ pausing' = FALSE
  /\ UNCHANGED <<drainVars, asked, manifest, worldVars>>

\* QuiesceGuard::drop: resume_all first ...
ResumeAll(r) ==
  /\ at[r].stage = "falling" /\ at[r].held = 0
  /\ GoTo(r, "resumed")
  /\ pausing' = FALSE /\ asked' = {}
  /\ UNCHANGED <<drainVars, manifest, worldVars>>

\* An abort that always un-drains.
MutantRestoreFlags(r) ==
  /\ at[r].stage = "resumed"
  /\ at' = [at EXCEPT ![r] = NoAttempt]
  /\ restarting' = FALSE /\ draining' = FALSE
  /\ UNCHANGED <<wish, pausing, asked, manifest, worldVars>>

\* ... then the flags, under the state lock.
RestoreFlags(r) ==
  /\ at[r].stage = "resumed"
  /\ at' = [at EXCEPT ![r] = NoAttempt]
  /\ restarting' = FALSE /\ draining' = at[r].prior
  /\ UNCHANGED <<wish, pausing, asked, manifest, worldVars>>

\* daemon.drain, which the barrier does not count.
DaemonDrain(enable) ==
  /\ draining' = enable
  /\ wish' = IF restarting THEN wish ELSE enable
  /\ UNCHANGED <<at, restarting, pausing, asked, manifest, worldVars>>

-----------------------------------------------------------------------------
(* dispatch_request: a counted method is spawn, one that calls              *)
(* refuse_if_draining; start, start_session, which does not; or write, a    *)
(* send_input that writes before it returns.                                *)

EnterMutation(c, method) ==
  /\ call[c].pc = "idle" /\ ~CountsLocked
  /\ call' = [call EXCEPT ![c].pc = method]
  /\ UNCHANGED <<coordVars, unit, child, listed, holding, watcher, unfenced>>

\* A background thread spawns too, uncounted: the continuous scheduler after a
\* look at draining, a workflow's respawn of a participant without one.
BackgroundSpawn(b, method) ==
  /\ call[b].pc = "idle" /\ unit[b] = "idle"
  /\ call' = [call EXCEPT ![b].pc = method]
  /\ UNCHANGED <<coordVars, unit, child, listed, holding, watcher, unfenced>>

Leave(c) ==
  [call EXCEPT ![c] = [pc |-> IF c \in Callers THEN "leaving" ELSE "idle",
                       job |-> NoSession]]

\* refuse_if_draining, or parameters that are wrong.
Refuse(c) ==
  /\ call[c].pc \in {"spawn", "start"}
  /\ call' = Leave(c)
  /\ UNCHANGED <<coordVars, unit, child, listed, holding, watcher, unfenced>>

Unfenced(c) ==
  \/ c \in Background
  \/ restarting /\ (call[c].pc = "start" \/ ~draining)

\* A spawn-shaped method without refuse_if_draining.
MutantAdmit(c, s) ==
  /\ call[c].pc \in {"spawn", "start"}
  /\ child[s] = "none"
  /\ unfenced' = IF Unfenced(c) THEN unfenced \cup {s} ELSE unfenced
  /\ call' = [call EXCEPT ![c] = [pc |-> "ordered", job |-> s]]
  /\ child' = [child EXCEPT ![s] = "ordered"]
  /\ UNCHANGED <<coordVars, unit, listed, holding, watcher>>

\* The last look at draining is past.  Three ways to get here are not fenced:
\* uncounted, or during an attempt by start_session or a cancelled drain.
Admit(c, s) ==
  /\ call[c].pc \in {"spawn", "start"}
  /\ call[c].pc = "spawn" => ~draining
  /\ child[s] = "none"
  /\ unfenced' = IF Unfenced(c) THEN unfenced \cup {s} ELSE unfenced
  /\ call' = [call EXCEPT ![c] = [pc |-> "ordered", job |-> s]]
  /\ child' = [child EXCEPT ![s] = "ordered"]
  /\ UNCHANGED <<coordVars, unit, listed, holding, watcher>>

\* PendingSession::spawn: the child and its holding, but no reaper yet.
Fork(c) ==
  LET s == call[c].job IN
  /\ call[c].pc = "ordered"
  /\ call' = [call EXCEPT ![c].pc = "forked"]
  /\ child' = [child EXCEPT ![s] = "running"]
  /\ UNCHANGED <<coordVars, unit, listed, holding, watcher, unfenced>>

\* Only a session with a memory cap has one.
SpawnWatcher(c) ==
  LET s == call[c].job IN
  /\ call[c].pc = "forked" /\ watcher[s] = "none"
  /\ watcher' = [watcher EXCEPT ![s] = "newborn"]
  /\ UNCHANGED <<coordVars, callVars, unit, child, holding>>

\* The reaper is armed and the session inserted under one state lock.
ArmAndInsert(c) ==
  /\ call[c].pc = "forked"
  /\ listed' = listed \cup {call[c].job}
  /\ call' = Leave(c)
  /\ UNCHANGED <<coordVars, unit, child, holding, watcher, unfenced>>

\* PendingSession::drop kills and reaps the child, outside the reap gate.
DropPending(c) ==
  LET s == call[c].job IN
  /\ call[c].pc \in {"ordered", "forked"}
  /\ call' = Leave(c)
  /\ child' = [child EXCEPT ![s] = "reaped"]
  /\ UNCHANGED <<coordVars, unit, listed, holding, watcher, unfenced>>

\* MutationGuard::drop: the decrement, then the notify if it hit zero.
DropGuard(c) ==
  /\ call[c].pc = "leaving" /\ ~CountsLocked
  /\ call' = [call EXCEPT ![c].pc = IF InFlight = {c} THEN "notifying" ELSE "idle"]
  /\ UNCHANGED <<coordVars, unit, child, listed, holding, watcher, unfenced>>

NotifyZero(c) ==
  /\ call[c].pc = "notifying"
  /\ call' = [call EXCEPT ![c].pc = "idle"]
  /\ NotifyAll
  /\ UNCHANGED <<drainVars, pausing, asked, manifest, unit, child, listed,
                 holding, watcher, unfenced>>

-----------------------------------------------------------------------------
(* PTY input: write_permit around one write, unit_permit around a delivery. *)

\* await_door
PassDoor(w) ==
  /\ unit[w] = "idle" /\ ~Closed(Door)
  /\ call[w].pc = IF w \in Callers THEN "write" ELSE "idle"
  /\ unit' = [unit EXCEPT ![w] = "passed"]
  /\ UNCHANGED <<coordVars, callVars, child, holding, watcher>>

\* read_gate; the first byte follows.
TakePermit(w) ==
  /\ unit[w] = "passed" /\ ~Closed(Writing)
  /\ unit' = [unit EXCEPT ![w] = "body"]
  /\ UNCHANGED <<coordVars, callVars, child, holding, watcher>>

\* The last byte, a delivery's Enter, is out.
FinishUnit(w) ==
  /\ unit[w] = "body"
  /\ unit' = [unit EXCEPT ![w] = "idle"]
  /\ call' = Leave(w)
  /\ UNCHANGED <<coordVars, child, listed, holding, watcher, unfenced>>

-----------------------------------------------------------------------------
(* PTY output: gated_reader_loop.  Exits: gated_reaper_body.                 *)

TakeBytes(s) ==
  /\ child[s] \notin {"none", "ordered"} /\ ~Closed(Reading)
  /\ s \notin holding
  /\ holding' = holding \cup {s}
  /\ UNCHANGED <<coordVars, callVars, unit, child, watcher>>

\* fanout.push, or fanout.close at EOF.
PushBytes(s) ==
  /\ s \in holding
  /\ holding' = holding \ {s}
  /\ UNCHANGED <<coordVars, callVars, unit, child, watcher>>

ChildDies(s) ==
  /\ child[s] = "running"
  /\ child' = [child EXCEPT ![s] = "zombie"]
  /\ UNCHANGED <<coordVars, callVars, unit, holding, watcher>>

\* consume_exit_status, by the reaper that ArmAndInsert started.
ConsumeStatus(s) ==
  /\ child[s] = "zombie" /\ s \in listed /\ ~Closed(Reaping)
  /\ child' = [child EXCEPT ![s] = "consumed"]
  /\ UNCHANGED <<coordVars, callVars, unit, holding, watcher>>

\* on_exit, which records the exit and removes the session.
PersistExit(s) ==
  /\ child[s] = "consumed"
  /\ child' = [child EXCEPT ![s] = "reaped"]
  /\ listed' = listed \ {s}
  /\ UNCHANGED <<coordVars, call, unit, holding, watcher, unfenced>>

-----------------------------------------------------------------------------
(* The memory-cap watcher, the one registered subsystem: run_watcher.        *)

MoveWatcher(s, from, to) ==
  /\ watcher[s] = from
  /\ watcher' = [watcher EXCEPT ![s] = to]

\* A handle born while a pause is on does not know of it.
MutantRegisterSubsystem(s) ==
  /\ MoveWatcher(s, "newborn", "top")
  /\ UNCHANGED <<coordVars, callVars, unit, child, holding>>

\* A handle born while a pause is on inherits it.
RegisterSubsystem(s) ==
  /\ MoveWatcher(s, "newborn", "top")
  /\ asked' = IF pausing THEN asked \cup {s} ELSE asked
  /\ UNCHANGED <<at, drainVars, pausing, manifest, callVars, unit, child, holding>>

\* park_if_requested finds no request: the loop goes on to sleep and poll ...
NoPark(s) ==
  /\ s \notin asked
  /\ MoveWatcher(s, "top", "poll")
  /\ UNCHANGED <<coordVars, callVars, unit, child, holding>>

\* ... or acknowledges it, ...
Park(s) ==
  /\ s \in asked
  /\ MoveWatcher(s, "top", "acking")
  /\ UNCHANGED <<coordVars, callVars, unit, child, holding>>

\* The notify without the counts mutex.
MutantNotifyProgress(s) ==
  /\ MoveWatcher(s, "acking", "parked")
  /\ NotifyAll
  /\ UNCHANGED <<drainVars, pausing, asked, manifest, callVars, unit, child,
                 holding>>

\* ... notifies with the counts mutex taken in between, ...
NotifyProgress(s) ==
  /\ ~CountsLocked
  /\ MoveWatcher(s, "acking", "parked")
  /\ NotifyAll
  /\ UNCHANGED <<drainVars, pausing, asked, manifest, callVars, unit, child,
                 holding>>

\* ... and is blocked until its request is cleared.
Unpark(s) ==
  /\ s \notin asked
  /\ MoveWatcher(s, "parked", "poll")
  /\ UNCHANGED <<coordVars, callVars, unit, child, holding>>

NoBreach(s) ==
  /\ MoveWatcher(s, "poll", "top")
  /\ UNCHANGED <<coordVars, callVars, unit, child, holding>>

\* handle_breach: SIGTERM to a worker of the session, the grace, SIGKILL.
BreachTerm(s) ==
  /\ MoveWatcher(s, "poll", "term")
  /\ UNCHANGED <<coordVars, callVars, unit, child, holding>>

BreachKill(s) ==
  /\ MoveWatcher(s, "term", "top")
  /\ UNCHANGED <<coordVars, callVars, unit, child, holding>>

\* The cgroup is gone with the child: the handle is dropped, nobody is told.
WatcherExits(s) ==
  /\ child[s] # "running"
  /\ MoveWatcher(s, "poll", "exited")
  /\ asked' = asked \ {s}
  /\ UNCHANGED <<at, drainVars, pausing, manifest, callVars, unit, child, holding>>

-----------------------------------------------------------------------------

\* What perform_reexec does once begun.
Proceed(r) ==
  \/ RequestPauseAll(r) \/ Quiesced(r) \/ NotQuiesced(r) \/ Sleep(r)
  \/ WakeUp(r) \/ QuiesceTimedOut(r)
  \/ RequestWriterPause(r) \/ FreezeWriters(r) \/ WriterFreezeTimedOut(r)
  \/ FreezeReapers(r) \/ FreezeReaders(r)
  \/ Seal(r) \/ Exec(r) \/ StageFails(r)
  \/ Thaw(r) \/ ResumeAll(r) \/ RestoreFlags(r)

Spawn(c) ==
  \/ Refuse(c) \/ (\E s \in Sessions : Admit(c, s)) \/ Fork(c)
  \/ SpawnWatcher(c) \/ ArmAndInsert(c) \/ DropPending(c)

Dispatch(c) ==
  \/ \E method \in {"spawn", "start", "write"} : EnterMutation(c, method)
  \/ DropGuard(c) \/ NotifyZero(c)

WriteInput(w) == PassDoor(w) \/ TakePermit(w) \/ FinishUnit(w)

RunSession(s) ==
  TakeBytes(s) \/ PushBytes(s) \/ ChildDies(s) \/ ConsumeStatus(s) \/ PersistExit(s)

Watch(s) ==
  \/ RegisterSubsystem(s) \/ NoPark(s) \/ Park(s) \/ NotifyProgress(s)
  \/ Unpark(s) \/ NoBreach(s) \/ BreachTerm(s) \/ BreachKill(s) \/ WatcherExits(s)

BarrierNext ==
  /\ Up
  /\ \/ \E r \in Restarters : Begin(r) \/ Proceed(r)
     \/ \E enable \in BOOLEAN : DaemonDrain(enable)
     \/ \E c \in Callers : Dispatch(c)
     \/ \E b \in Background, method \in {"spawn", "start"} : BackgroundSpawn(b, method)
     \/ \E t \in Threads : Spawn(t) \/ WriteInput(t)
     \/ \E s \in Sessions : RunSession(s) \/ Watch(s)

BarrierSpec == BarrierInit /\ [][BarrierNext]_barVars

\* The restarter's thread runs.  Its deadlines are absolute, so a loop of
\* wakeups ends at one, and a freeze that blocks on an RwLock gets it though
\* new permits are asked for.  Reapers, readers, watchers and threads at the
\* door run.  Nothing is assumed of dispatch bodies and of writes, which a child
\* that does not read its input blocks for ever.
FairBarrier ==
  /\ BarrierSpec
  /\ \A r \in Restarters :
       /\ WF_barVars(Up /\ Proceed(r))
       /\ SF_barVars(Up /\ (Quiesced(r) \/ QuiesceTimedOut(r)))
       /\ SF_barVars(Up /\ FreezeReapers(r))
       /\ SF_barVars(Up /\ FreezeReaders(r))
  /\ \A s \in Sessions :
       /\ WF_barVars(Up /\ PersistExit(s))
       /\ WF_barVars(Up /\ PushBytes(s))
       /\ WF_barVars(Up /\ (NotifyProgress(s) \/ Unpark(s)))
  /\ \A w \in Threads : WF_barVars(Up /\ (PassDoor(w) \/ TakePermit(w)))

-----------------------------------------------------------------------------
(* Properties.                                                             *)

\* From the sealing of the manifest to the exec nothing is half done: no unit
\* between its first and last byte, no bytes between read and push, no status
\* between waitid and the registry, no worker between SIGTERM and SIGKILL
\* (writer_gate.rs "never tear a unit", reap_gate.rs R4, reader_gate.rs R3,
\* session_watch.rs R12).
NothingTorn ==
  (\E r \in Restarters : at[r].stage \in {"sealed", "gone"}) =>
    /\ \A w \in DOMAIN unit : unit[w] # "body"
    /\ holding = {}
    /\ \A s \in Sessions : child[s] # "consumed" /\ watcher[s] # "term"

\* At most one restart attempt is in flight, and it holds every closed gate
\* (the latch of restart_coordinator::begin).
OneAttempt ==
  \A r, q \in Restarters :
    at[r].stage # "idle" /\ (at[q].stage # "idle" \/ at[q].held > 0) => r = q

\* After an abort the daemon is as before begin: nobody is asked to pause, the
\* door is open, the drain is what the operator had set (QuiesceGuard::drop).
AbortRestores ==
  ~restarting =>
    /\ ~pausing /\ asked = {}
    /\ ~Closed(Door)
    /\ draining = wish

Alive == {s \in Sessions : child[s] \in {"running", "zombie"}}

\* The image that execs hands over every child it has, none that is reaped, and
\* loses only children whose spawn is not fenced (restart_coordinator.rs R2, "no
\* half-spawned children").
HandedOff ==
  ~Up => /\ manifest \subseteq Alive
         /\ Alive \ manifest \subseteq unfenced

\* A restarter sleeps on a barrier that has been reached only while a notify is
\* on its way (notify_progress: "guaranteed to be inside wait_timeout"), or if a
\* watcher has exited, whose handle goes without a word.
NoLostWakeup ==
  (\E r \in Restarters : at[r].stage = "asleep") /\ Quiescent =>
    \/ \E c \in Callers : call[c].pc = "notifying"
    \/ \E s \in Sessions : watcher[s] \in {"acking", "exited"}

\* An attempt execs or is undone, whatever RPC or PTY write is stuck ("must
\* abort the restart, not hang the daemon").
AttemptEnds == restarting ~> ~restarting \/ ~Up

\* Once attempts cease, what one of them had parked runs again: input at the
\* door reaches its PTY, watchers go back to their poll.
WorkResumes ==
  <>[]~restarting =>
    /\ \A c \in Callers : call[c].pc = "write" ~> unit[c] = "body"
    /\ \A s \in Sessions : watcher[s] = "parked" ~> watcher[s] # "parked"
=============================================================================
