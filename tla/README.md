# A TLA+ model of claude-manager's daemon

claude-manager runs coding agents in PTY sessions and keeps them running while
every program around them is upgraded, crashes or is killed. This directory
models the part that has to be right for that: the process that holds the
sessions, the process that manages them, the messages and files between the
two, and the barrier behind which a daemon that holds its own sessions replaces
itself. It also models two things the daemon does with sessions: running a
continuous task, and waking a session for its chat messages. The rest of the
repository is listed below with the reason it is left out or the place it has in
the plan.

All paths below are relative to the repository root.

## 1. The system and its parts

| Part | Source | State it keeps | Operations | Status |
|---|---|---|---|---|
| Holder session table | `holder/src/holder.rs`, `reap.rs`, `spawn.rs` | one entry per uid: incarnation, reap armed, delivery ready, exit latched, exit record with its pending event; next incarnation; epoch | `spawn`, `arm_reap`, `abort_spawn`, `ack_exit`, `forget`, `adopt`, `signal`, `update_checkpoint`, `store_listener`, `split_rollback`, `cancel_pending`; the poll loop | `HolderTable` |
| Holder supervisor | `holder/src/main.rs`, `supervisor.rs` | current and previous pin, consecutive failures, backoff, armed deploy, pending holder upgrade | spawn, serve, respawn, roll back, hold down, deploy, upgrade, stop | `HolderSupervisor` |
| Brain side of the channel | `daemon/src/holder_mode.rs` | pending requests, exit subscriptions, parked exits | requests with a timeout, routing, adoption at boot, deploys | `HolderBrain`, deploy flows in the plan |
| Session start, exit, restore | `daemon/src/control/methods.rs`, `session.rs` | the live registry, one exit observer per session | `start_session`, `handle_session_exit`, `restore_sessions` | `HolderBrain` |
| Durable state | `daemon/src/state.rs`, `lib.rs` | `daemon-sessions.json`, `daemon-tombstones.json` | best-effort and checked writes, seeding at boot | `HolderBrain` |
| Framing | `holder-proto/src/channel.rs` | partial frame, unclaimed fds | feed, next frame | plan |
| Seamless restart | `daemon/src/restart_coordinator.rs`, `reexec.rs`, `writer_gate.rs`, `reader_gate.rs`, `reap_gate.rs` | in-flight mutations, parked subsystems, gates, escrow | quiesce, freeze, seal, exec, abort; drain | `RestartBarrier`; the new image's side in the plan |
| Memory-cap watcher | `daemon/src/session_watch.rs`, `reaper.rs` | soft and hard breach, checkpoint | poll, SIGTERM, delayed SIGKILL | its loop in `RestartBarrier`; policy in the plan |
| Continuous tasks | `daemon/src/continuous/`, `control/methods.rs`, `dispatch/db.py` | the task record (guard, run, pause, drain, account block), staged batches, the named queue | trigger, report_done, force_done, pause, drain, resolve_stuck, exit hook, scheduler passes, startup sweep | `ContinuousRun` |
| Messaging | `daemon/src/messaging/`, `notifications.rs`, `mcp_server/notifications.py` | messages, read cursors, the wake queue, native events, replication | send, deliver, read, consume, sync | waking one session: `WakeDelivery`; the store and replication not modelled |
| Rotation, handoff | `daemon/src/rotation.rs`, `handoff.rs` | pending rotations | stop and respawn of a uid | plan |
| Workflows | `daemon/src/workflow/` | runs and phases | poll, advance, finalize | plan, last |
| Owner alerts, recovery, organization, items | `daemon/src/` | records and timers | various | not planned |
| TUI, MCP server, dispatcher, API, CLI, web | `tui/`, `mcp_server/`, `dispatch/`, `api/`, `cli/`, `web/` | views, tables | clients of the daemon | not modelled |

How they interact. The holder is the parent of one brain at a time and of every
session's child. Brain and holder share a socket pair: the brain sends requests
and reads replies and unsolicited exit events; the holder reads requests one at
a time, in order. A brain can die between any two steps and the holder starts
the next one, which learns what is held from `adopt`, what was believed live
from the registry file and what had exited from the tombstone file. Inside the
brain, request threads, exit observers, the boot thread, the channel reader and
the signal watcher share the state lock. A daemon without a holder (the
monolith) restarts in place: one thread drains the others to points where
nothing is half done, seals a manifest of its children and replaces the image.

What is hard, and what must be true:

* **Custody.** The holder never dies, so a child it forgets or a zombie it does
  not reap stays for ever, and a status consumed by `waitid` exists nowhere
  else. No child leaks; no status is dropped; nothing is consumed before the
  brain has inserted the session.
* **Two tables.** The brain's registry and the holder's table change by
  messages that may be late, lost with the brain, or answered after the asker
  gave up. They must agree whenever a brain is up.
* **Two files.** The registry and the tombstones are written at different
  times; whether a session is running, has exited or is lost is inferred from
  both after a crash. A recorded truth must not be lost.
* **Which binary.** Crashes, deploys, operator rollbacks, retries and holder
  upgrades in any order decide what runs next. A bad binary must be given up,
  a good one must not be, and the two must not alternate.
* **The instant of the exec.** Whatever a thread has on its stack is gone: bytes
  read and not pushed, a status consumed and not recorded, a prompt half typed,
  a worker that got its SIGTERM and waits for the SIGKILL, a child forked and
  not listed. None may exist at that instant; every stage may fail, and then the
  daemon must be as if nothing had been tried; nothing may hang it.
* **One run of a task.** Callers, the scheduler, the exit hook, the operator and
  the restart all write one record, each after a look that may be stale, and
  each with calls to other machines in between. Fires exclude one another, a
  pause or drain holds, no queue item is worked twice or lost to recovery, and a
  dead run is closed in the end.
* **One wake for a message.** The daemon publishes, rewrites and retracts while
  another process claims and submits; either may die between two steps, and the
  queue on disk may be older than the events. No message is announced twice,
  none is forgotten, and a session that is busy is not disturbed again.

## 2. The modules

| Module | What it is |
|---|---|
| `HolderTable` | the session table under the most general client |
| `SessionCustody` | the abstract promise: a promised session ends by its own exit, recorded before it is let go |
| `HolderBrain` | `HolderTable` with the real brain as its client; implements `SessionCustody` |
| `HolderSupervisor` | pins, strikes, armed deploys and upgrades |
| `RestartBarrier` | the in-place re-exec against everything that runs meanwhile |
| `ContinuousRun` | one continuous task, from its triggers to the end of its runs |
| `WakeDelivery` | how one session is woken for its unread messages |
| `HolderTableProofs`, `HolderSupervisorProofs`, `RestartBarrierProofs`, `ContinuousRunProofs`, `WakeDeliveryProofs` | theorems about the module of that name, with their proofs |
| `HolderBrainProofs` | what holds of holder and brain under every fault: types, exit events, late requests |
| `HolderCustodyProofs` | what holds of them as long as replies come in time: the two tables, the tombstones, the refinement of `SessionCustody` |
| `MCHolderTable`, `MCHolderBrain`, `MCHolderSupervisor`, `MCRestartBarrier`, `MCContinuousRun`, `MCWakeDelivery` | the modules TLC runs; the `.cfg` files give the constants |

### HolderTable

The holder is single threaded, so one action is one handler from its first
check to its reply. `sess[u]` is the `SessionEntry` of a uid: `inc` its
incarnation (0: no entry), `armed` is `reap_armed`, `ready` is
`delivery_ready`, `latched` is `exit_latched`, and `exit` tells `None`, an exit
record whose event is pending, and one whose event was acked. `child[i]` is what
the kernel knows of the child of incarnation `i`. `split` says that the armed
deploy is a reverse migration, the only one whose disarm touches the table:
`AutoDisarm` may end any deploy, and `WatchdogKill` keeps what is armed when the
brain was killed for a handshake that timed out. `chan` is where
the serve loop is: `open`; `closed`, the brain being dead and the EOF not yet
read, during which requests it sent are still carried out; `down`, between two
generations; `migrated`; `stopped`.

Actions are named after the code: `HandleSpawnOk/Err/Torn` are the three ends of
`handle_spawn`, `HandleArmReap`, `HandleAbortSpawn`, `HandleAckExit`,
`HandleForget`, `HandleSplitRollback`, `HandleCancelPending` the other verbs,
`SeeExit`, `AutoDisarm`, `BrainEof`, `WatchdogKill`, `Serve`, `Shutdown` the
loop and the supervisor around it. `Sweep` is `sweep_latched_exits_into`: the
events of a sweep are sent in any order: the code goes by the order of the uids,
which the model does not know. The
client sends any request at any time (`AnySend`) and may die at any time, so
what is proved of the table is true of every brain, including a faulty one.

### HolderBrain

One brain process is: `op[c]`, a `start_session` in request thread `c` (the
verb sent, the reply in, inserted and arming, arm failed); `obs[i]`, the exit
observer subscribed for incarnation `i`; `phase`, `todo` and `backlog`, the boot
thread; and `RouteExit`/`DropReply`, the channel reader. `reg` is
`DaemonState.sessions`, `memTomb` the tombstones in memory, `tombFile` and
`regFile` the two files. Everything but the files and the holder is reset by
`BrainCrash`, which leaves the files alone or, when it is the holder that kills,
as `PersistBeforeExit` rewrites them: the holder closes the channel before the
SIGKILL, and a brain past its boot fetch may see the end of the stream first.

Each step between two blocking points of a thread is one action: what happens
under one hold of the state lock is atomic, what is sent after the lock is
dropped is seen by others only when the holder reads it. A reply whose content
changes nothing is not awaited. Timeouts, failed steps, failed writes and the
stop signal are switched on by the constant `Faults`, so that a run says which
failures its properties survive.

### SessionCustody

Children are `none`, `running`, `exited` or `gone`; a uid owns at most one;
`Promise` is the moment a session is handed to its client. A promised session is
released only when it has exited and its exit is in the tombstone file; only an
unpromised one may be abandoned. `HolderBrain` maps `life` to the holder's table
and the kernel, `promised` to `armed` and `tomb` to the tombstone file; the run
`brain` checks the mapping as the property `KeepsCustody`.

### HolderSupervisor

A pin is an open file. Opening a file, even the same path, gives a pin that is
none of those in use (`Minted`). Time is a choice: a handshake may time out, a
run may outlive the stability horizon, an arm may expire. `log` and `discarded`
are history variables, written and never read by the actions, which let
`StrikesAreExact` say what the counter should be. `Stop` is
allowed at every point where the loop polls the signal fd.

### RestartBarrier

`at[r]` is a thread in `perform_reexec` (or `perform_migrate_split`, which takes
the same steps): the stage it is in, how many of the four things it holds (the
writer door, the writer, reap and reader gates, always taken in this order and
dropped in the reverse one) and the `prior_draining` of its `QuiesceGuard`.
`pausing` and `asked` are the registry's and the handles' `pause_requested`;
a handle's `paused` is the watcher being at `acking` or `parked`. `call[t]` is a
dispatch or a background spawn, `unit[t]` the PTY input a thread is writing,
`child` and `listed` the children and `DaemonState.sessions`, `holding` the
readers with bytes on their stack, `watcher` the memory-cap watchers.
`manifest` is what `build_manifest` saw.

The counts mutex is what one property is about, so `wait_quiesced` is split
where it matters: the look at the barrier (`Quiesced`, `NotQuiesced`), the time
it decides with the mutex held (`deciding`, `CountsLocked`), and the sleep.
`MutationGuard::drop` notifies after it has released the mutex (`DropGuard`,
`NotifyZero`), a watcher's acknowledgement is visible before its notify
(`Park`, `NotifyProgress`). The test in `park_if_requested` and the assignment
in `park_until_resumed` are one action: between them the watcher does nothing
that others see, and an acknowledgement given after the abort is the one given
just before it. A deadline may be met or missed whenever the code compares with
it. `wish` (the drain the operator last asked for outside attempts) and
`unfenced` (children whose spawn the barrier does not wait for) are history
variables, written and never read by the actions.

Two things are in the model because they are in the code, and are the reason for
`unfenced`: `start_session` does not look at `draining`, and background threads
(the continuous scheduler after one look, workflow respawns without one) spawn
without being counted.

### ContinuousRun

One task of a fixed `kind`: Fresh or Persistent, with or without a queue to
consume. `task` is its record on disk with the fields the control
flow looks at; every `task_store.modify` is one action, since it holds the
record's lock, and everything decided before it, on an earlier load, is in the
local state of the caller: `fire[t]` for `trigger` in a request thread or the
scheduler, `tick` for the scheduler's snapshot and pass. `lock` is the lifecycle
lock of `resolve_stuck` and adoption. Sessions are numbered; `sess` says whether
one is alive, dead with its exit hook outstanding, or gone, and `turn` whether
its agent works, idles, or has been stopped by its account. `item` and `batch`
are the rows of the planning API's queue and the staged `batch-<seq>.json`.

A trigger is `Loaded`, `Arm` (the guard), `Stage` (claim and write the batch),
`Send` (spawn or prompt), `Record`, `Ack`; each outside call may fail, with the
clean-up of that branch as one step (`Fails`, `Release`, `SpawnFails`), and a
crash may come between any two. `Tick` goes through the passes in the code's
order: `ReconcileFind` and `OrphanWrite`, `TickLoad`, `Supervise` with its
watchdog (`Overrun`, `Investigate`, `InvestigateFails`, `Escalate`, `Abandon`), the account-block
passes (`BlockDetect`, `WedgeClose`, `RecoverReplay`, `RecoverClose`) and the
due loop. `BrainRestart` and `HardRestart` are the two ways a daemon comes back,
with and without its sessions, followed by the startup sweep. `given`, `poisoned`
and `wiped` are history: which run's agent was handed an item, the runs an
account block held, and whether a late reconcile write has taken a newer guard.
The prompt delivery thread is part of `Send`. Times are choices: a due time may
have come, a run may have overrun.

### WakeDelivery

`msg` is what the session has done with a message, `file` the queue of
`_delivery/<uid>.json` with one batch per wake, `native` the event of each wake
in the notification queue, `gate` the tick or RPC that holds the delivery gate,
with its copy of the queue. `Reconcile`, the head of every tick and RPC, is one
action up to its events, then `Save` or `Deliver`; `ReconcileStops` and
`GateLost` are an error or crash after the first and the later checkpoints, and
`Visit`, the loop of `Deliver`, has a disjunct for a publication that fails. The
pure parts of `delivery.rs` (`Settle`, `Collect`, `ExpireLatches`, `CompactHistory`,
`SplitUnpublished`, `ReadBoundary`) are operators on a queue, applied in the
code's order. A wake's number is its batch's place in the order in which batches
enter the queue: the batches a split makes go behind the one `read_boundary`
may just have collected (`Made`). The consumer is `ConsumerStart`, `Claim`,
`Submit`, `NotSubmitted`, `Observe`, `ConsumerDies`. Times are ages: a batch's
`at` is unset, now, a latch horizon ago or a day ago (`Minutes`, `Day`).

`TaskKeys` are hits of a task subscription: in any tick or RPC their authority
may be unknown (the set `D`), which freezes their batches. `Troubles` says which
misfortunes a run may have, `MaxTrouble` how many. `sent`, `handed`, `gaps` and
`hidden` are history. `sent[w]` counts the submissions of a wake that reached the
agent's client: a claim that ends in a failure of the adapter or in the death of
the consumer may have counted or not, and the consumer cannot tell.

Three exceptions in the properties are about behaviours of the code. After such
an ambiguous claim the event is `uncertain` and nothing sends it again
(`doc/messaging/NATIVE_NOTIFICATIONS.md:281`), and of its batch only what was
absorbed later goes to a successor (`messaging/delivery.rs:224-236`). If nothing
had been sent, the messages in its text are announced to nobody unless the
session reads of its own accord: `EveryMessageIsTold` excepts exactly these
(`Lost`), and `SentOnce` is what they are given up for.
`compact_history` starts the age of an expired batch afresh, so the age alone
does not tell that a latch is over: `Awaiting` leaves out what was `handed` on.
And a batch that absorbs a task's key after its wake was submitted is frozen
whenever that task's authority is unknown, so that the next batch is published
beside it: `QuietWhileLatched` excepts pairs of which either batch has such a
key now, whatever its text said.

## 3. The runs

`tlc -config <cfg> <module>`; all are exhaustive.

| Run | Bounds | Question |
|---|---|---|
| `holder_table` | 2 uids, 2 incarnations, 2 generations, 1 frame each way | does the holder keep every child and every status, whatever its client does? |
| `brain` | 2 uids, 2 threads, 2 incarnations, 3 generations | do holder and brain implement `SessionCustody`, with failing set-up steps and tombstone writes? |
| `brain_faults` | 1 uid, 1 thread, 2 incarnations, 2 generations, all faults | what survives every failure at once? |
| `brain_live` | 2 uids, 1 thread, 2 incarnations, 3 generations | does every exit settle and every boot finish? |
| `supervisor` | 4 pins, three strikes | which binary runs next, and is an armed deploy always resolved? |
| `restart` | 2 restarters, 2 RPC threads, 1 background thread, 1 child | is anything torn, lost or left behind by an attempt, however it ends? |
| `restart_live` | 1 restarter, 1 RPC thread, 1 child | does every attempt end, and parked work go on? |
| `continuous` | 1 caller and the scheduler, 1 keyed item, 2 fires, 2 sessions, 2 requests (1 with a queue), 1 crash; Fresh, and Persistent with a queue; every outside call may fail | are fires exclusive, numbered once and stopped by a pause or drain; is no item worked twice or lost? |
| `continuous_live` | 1 caller and the scheduler, 1 fire, 3 sessions, 1 request, 1 crash, 1 investigation; Fresh and Persistent; spawns may fail | is a dead run closed, a dead guard released, a hung run ended? |
| `wake` | 2 messages, one a task's; 4 wakes; one misfortune of any kind; history of 1 | is nothing submitted or announced twice, and does one wake at a time wait? |
| `wake_live` | 2 messages, 3 wakes, one crash of the daemon or consumer, or one failed send | is every message announced or read, but for what an ambiguous send lost? |

Why the bounds suffice. Two uids are what two entries need to disturb each
other in a sweep and in the files; two threads are what a race for one uid
needs; two incarnations let a late message about the first meet the second;
three generations let a brain find what a brain that was itself still adopting
left behind. The queues hold every frame the threads can have outstanding; in
`holder_table` one frame each way is enough because the client is arbitrary and
the handlers never look past the head. Four pins are one more than the current, the
previous and the armed one that can be in use at a time. Two restarters are
what the latch is for; one child in flight is enough for every property of
`RestartBarrier`, which speak of one child, thread or watcher at a time, and two
RPC threads let one leave while another enters. One
item and two fires are what a second delivery needs, two requests a pause and a
resume; the other two kinds of task pass with the same bounds (2.6 and 0.55
million states). Two messages let one join, outlive or be split from the wake of
the other; `wake` without task messages and with two misfortunes, and with three
messages and one, pass as well (3.5 and 13 million states). What the bounds leave
out (more sessions at once than two, more calls, items and messages, longer
histories) the theorems of section 5 cover: every safety property a run checks
is the subject of one.

Deadlock is not checked: a stopped holder, a bound reached, or a quiet system
with nothing to do is a legitimate end.

### What a run shows to be violated

| Run | Said | Done |
|---|---|---|
| `stale_block` | `daemon/src/continuous/scheduler.rs:2581`, stale markers from an older terminal run are inert | `arm_continuous_fire` refuses any task with `account_blocked` set, and a run the watchdog escalates while it is blocked leaves the marker for good |

### Other disagreements the models show

Each was found as a behaviour of a module and has no run of its own.

* `holder/src/holder.rs:180`, an unrelated later crash must not trigger a stale
  deploy: the HelloTimeout arm of the loop (`holder/src/main.rs:419`) keeps what
  is armed, so a deploy armed by a resumed brain whose rehello times out is
  carried out by the next generation's exit.
* `daemon/src/holder_mode.rs:2057`, a fresh holder's entries belong to restore:
  the test is on the epoch, so the second brain of a fresh holder declares lost
  whatever the first had not restored (line 2060).
* `daemon/src/holder_mode.rs:2050`, the verdict is for a session the holder does
  not hold: a record that failed to build is held and declared lost (line 2064).
* `daemon/src/holder_mode.rs:2118`, a rewrite would erase entries before restore
  reads them: the persist before exit (line 82) does that rewrite during boot.
* `daemon/src/restart_coordinator.rs:95`, spawn-shaped work has completed or will
  be refused; `daemon/src/reexec.rs:1336`, no RPC can add a session:
  `start_session` (`control/dispatch.rs:1121`) is not among the methods that
  call `refuse_if_draining`. `HandedOff` excepts such children (`unfenced`).
* `control/methods.rs:13976`, only one caller wins the guard:
  `reconcile_orphans` (`continuous/scheduler.rs:2269`) clears the guard in a
  `modify` that does not look again. `OneFire` excepts it (`wiped`), and so does
  `NoDoubleWork`: two fires that both loaded the record before it record runs of
  one number and share a `batch-<seq>.json`, and the recovery of the one enqueues
  the items of the other.
* `control/methods.rs:12769`, a guard is released when its fire is gone: the
  re-adopt branch of `continuous/startup_sweep.rs` leaves the guard armed, and
  nothing fires until that session exits. `DeadSettles` excepts it.
* `messaging/delivery.rs:226`, arrivals absorbed after delivery are handed to a
  successor: `read_boundary` (line 858) collects by the status on disk, before
  reconciliation has looked at the event. If the daemon died between publishing
  and its last checkpoint, a wake that has been submitted still says `pending`
  there, what arrives is added to it without the mark `coalesced`, and no later
  wake announces it. `EveryMessageIsTold` excepts it (`hidden`).
* The same comment says they never had a wake of their own: a message absorbed
  while the event was still pending is in the rewritten text and, being
  `coalesced`, is announced again by the successor. `ToldOnce` excepts it
  (`handed`).
* `DESIGN_CONTINUOUS_TASKS.md:216`, the attempts at an investigation are capped
  so that a pathological task cannot loop: `spawn_investigator` returns before the
  count when it cannot compose or spawn (`control/methods.rs:15302-15318`), and
  `watchdog_pass` logs and goes on (`continuous/scheduler.rs:845`). A spawn that
  fails at every tick keeps a hung run for ever, and `WatchedRunEnds` excepts it.
* A receipt retired by rotation before any tick has seen its latch expire leaves
  its batch cancelled and unreleased, and what it absorbed is not announced;
  `Day` assumes a tick in the meantime.

Two smaller disagreements are in the models without a run of their own.
`holder/src/holder.rs:384` says the sweep is called on every disarm path;
`WatchdogKill` (`holder/src/main.rs:416`) drops the armed deploy without it
after a wedge or a protocol error, and a parked exit waits for the next brain's
`arm_reap` instead.
`daemon/src/holder_mode.rs:2012` logs a failed adoption as never signaled;
`AdoptAbort` shows what the drop of the `HolderPending` does there: it sends
`abort_spawn`, and the holder kills a session that was running.

Three further ones show when a fault is added to the constants of a run.
`HeldAreKnown` and `TruthNotLost` hold in the run `brain`, with the faults
`setup` and `tomb_write`. With `timeout`, a spawn whose reply is later than
`REPLY_TIMEOUT` (`daemon/src/holder_mode.rs:487`) leaves a child nobody in the
brain knows of, where `DESIGN_HOLDER_BRAIN_SPLIT.md:144` says that a failure
before the insert aborts the spawn. With `registry_write`, a failed registry
write lets the next boot replace a recorded exit by `status_lost`
(`daemon/src/holder_mode.rs:2073`), which line 2053 reserves for sessions with no
reconstructible status. And with `timeout`, an `arm_reap` that timed out may
have been carried out, so that the exit event is under way when the abort is
sent, and `handle_session_exit`, which goes by uid, applies it to a newer
session; the comment at `daemon/src/control/methods.rs:1447` says that no event
comes.

`RestartBarrier` shows one more: `QuiesceGuard::drop` restores the drain as it
was at `begin`, so a `daemon.drain` the operator sends during an attempt is
cancelled by its abort. `AbortRestores` therefore speaks of the drain asked for
outside attempts.

`ContinuousRun` shows four that no text rules out: the due loop judges a task by
the tick's snapshot, so a scheduled fire may start beside a `run_now` recorded
since (`scheduler.rs:553`); recovery may replay a run that has reported done
meanwhile; a batch is acked though its session vanished during the send; and a
keyed row that is still claimed is dropped as a duplicate by the replay
(`scheduler.rs:1940`). A late `report_done` of a persistent session closes that
session's next run, for the RPC carries no run number (`methods.rs:14530`).

### Fairness

`brain_live` assumes weak fairness of each thread of the brain, of the holder's
loop and of the supervisor's respawn: these are OS threads that are scheduled,
loops without a blocking call other than `poll`, and a lock that is held for
bounded work. The holder reads requests in order, so no request needs strong
fairness. It assumes nothing about children exiting, clients calling, brains
crashing (their number is bounded by `MaxEpoch`, after which the last brain
lives) and replies being late.

`supervisor` assumes that a brain is spawned if spawning is attempted again
and again, that a held-down retry finds a file in the end, and that the arm's
deadline is met: it is absolute (`armed_at + ARM_AUTO_DISARM`) and tested by
every serve loop, so generations that come and go cannot outrun it. The model
has no clock, so this last one is a strong fairness of `AutoDisarm`.

`restart_live` assumes that the restarter's thread runs; that a loop of wakeups
ends, since `wait_quiesced` compares with an absolute deadline; and that a
blocking `RwLock::write` of the reap or reader gate is granted though readers
come and go: the units those gates guard are short and Rust's lock queues a
waiting writer. Reapers that have consumed, readers that hold bytes, watchers
that have acknowledged and threads at the door run. It assumes nothing about
dispatch bodies and PTY writes: a child that does not read its input blocks a
write for ever, and `AttemptEnds` must hold all the same.

`continuous_live` assumes that each trigger's thread runs, that exit hooks run
and an agent told to end does, and that the scheduler ticks: weak fairness. That
`ReconcileFind` finds the task and the watchdog's branch is reached is strong
fairness, because another writer may hold the lifecycle lock at one tick but the
ticks come every few seconds and those holders finish. Reaching the branch is
all that is assumed: there `InvestigateFails` is as fair as `Investigate`, so the
spawn need never succeed, and `WatchedRunEnds` names the behaviours in which it
fails for ever as its exception. Nothing is assumed about agents: one may hang
for ever, the investigators too.

`wake_live` assumes that who holds the delivery gate finishes, that the worker's
ticks come again and again and in the end find every authority known (strong,
since RPCs may hold the gate at any one of them), that a consumer is restarted
and takes its next step, and that time passes. It does not assume that the
session ever reads.

## 4. What the properties say

* `Custody`, `ReapOnlyArmed`, `LatchedWillBeConsumed`, `EventsAreTrue`,
  `PendingUntilAcked` (`HolderTable`): no leak and no double hold; no status
  consumed before authorization; a masked pidfd always has somebody bound to
  look again; events in flight are true and were armed for by the generation
  that gets them; a pending status goes only by its own name.
* `KeepsCustody` (`HolderBrain`): the refinement of `SessionCustody`.
* `RegistryMatchesHolder`, `HeldAreKnown`: the two tables agree, in both
  directions.
* `TruthNotLost`, `LateIsHarmless`: what the tombstones say is true and stays,
  and an abort never names a listed session, however late a reply.
* `NeverParked`: an exit event always finds its subscription, so the park branch
  of `route_exit` is a safeguard only.
* `EveryExitSettles`, `BootFinishes`, `ArmResolves`: liveness.
* `NoPingPong`, `StrikesAreExact` (`HolderSupervisor`): a binary given up stays
  so; a strike is counted against the pin that earned it, and none is forgiven.
* `NothingTorn`, `HandedOff` (`RestartBarrier`): from the sealing of the manifest
  to the exec no unit of work is half done, and the manifest holds every child
  the barrier waited for and no corpse.
* `OneAttempt`, `AbortRestores`: one attempt at a time, and nothing of it is left
  after an abort.
* `NoLostWakeup`: the reached barrier has somebody bound to wake its sleeper. The
  exception is a watcher that exits: its handle is dropped without a notify, and
  the restarter learns of it at its deadline, where it looks once more.
* `AttemptEnds`, `WorkResumes`: the barrier cannot hang the daemon, nor leave
  work parked.
* `OneFire`, `AdmissionHolds`, `DrainHoldsTheLine` (`ContinuousRun`): between arm
  and record a call owns the guard and its number is the next; a call that loaded
  before a pause or drain does not arm after it, a resume in between or not; a
  drain names the last run there will be.
* `ReplaySourceKept`, `NoDoubleWork`: the batch of a run that may be replayed is
  kept whole, and no item reaches two agents but through recovery (neither after
  a late reconcile has wiped a newer guard).
* `DeadSettles`, `WatchedRunEnds`: liveness of the guard, the run and the
  watchdog, the latter unless investigators fail to spawn for ever.
* `SentOnce`, `ToldOnce` (`WakeDelivery`): no wake is submitted twice, no message
  is counted by two.
* `QuietWhileLatched`, `EveryMessageIsTold`: one wake at a time waits for the
  session, but for batches with a task's key, and no message is forgotten, but
  for those in the text of a wake whose one ambiguous send sent nothing.

## 5. What is proved

Every safety property that a passing run checks, type invariants and the
refinement included, is the subject of a theorem that TLAPS checks for every
value of the constants satisfying the assumptions below. The runs show them on
small instances, and that they can fail.

| Assumption | Says |
|---|---|
| `TableAssumption` | finitely many uids, natural bounds, `Nobody` is not a sender |
| `BrainAssumption` | the senders are the request threads and one observer; what may be restored is a uid |
| `SupervisorAssumption` | at least one strike, `NoPin` is not a pin |
| `BarrierAssumption` | RPC and background threads are different, `NoSession` is not a child |
| `RunAssumption` | kinds and faults are those of the model, the scheduler and `"free"` are no callers, natural bounds |
| `WakeAssumption` | task keys are keys, natural bounds |

One hypothesis goes beyond them. The theorems of `HolderCustodyProofs` read
`Reliable => (BrainSpec => ...)`, where `Reliable` is
`Faults \subseteq {"setup", "tomb_write"}`: crashes of brains, failing steps
between spawn and insert, and failing tombstone writes, in any number and order.
It is not for convenience: with a late reply, an observer that cannot be
started, a failed registry write or a stop the properties are false, and section
3 says in which behaviours. What survives every fault is in `HolderBrainProofs`.

The holder's table:

* `TypeCorrect`: `Spec => []TypeOK`. The sweep needs the order of a finite set
  to have the length of the set (`SweepOrders`, from `FiniteSetTheorems`).
* `CustodySafe`, `ReapSafe`, `LatchSafe`: from one inductive invariant,
  `CustodyInv`. `Custody` alone is not inductive: that a fresh incarnation is
  nobody's needs `Fresh` (incarnations not yet minted are unborn and unowned),
  that a spawned entry starts unarmed needs `Blank` (a uid without an entry has
  no flags), and `LatchedWillBeConsumed` speaks of an open channel only, so that
  it survives `Serve` needs `LatchedSound`, which holds in every state: a
  latched exit is unconsumed, its child a zombie.
* `EventsSafe`: from `EventInv`, which adds that a queue of frames exists only
  while a brain is there to read it (`OnlyOpenTalks`). The argument is by what a
  step does to one frame: it stays true, or the step pushes only true ones.
* `PendingSafe`: the action property, from `CustodyInv`, one case per action.

Holder and brain, under every fault:

* `BrainTypeCorrect`, `NeverParkedSafe`, `LateSafe`: from `BrainInv`, which
  contains `EventInv` of the table (each step of the pair is one of the table's,
  or moves only the brain). A brain that is gone has left nothing but the files
  (`Gone`), and a new one is silent until it has fetched what is held
  (`BootQuiet`). From there: a handler has at most one frame in flight, the one
  it waits for (`CallersHeard`); an incarnation about to be listed is claimed by
  one party, unwatched, and not aborted (`ClaimsSound`, `ClaimsApart`); what is
  listed is watched and what is aborted is not listed (`WatchSound`); and an
  `arm_reap` or exit event on its way finds one waiting subscription
  (`ArmsWait`, `EventsWait`, `ReadyWatched`), which is `NeverParked`.

Holder and brain, as long as replies come (`Reliable`):

* `RegistryMatchesHolderSafe`, `HeldAreKnownSafe`, `TruthNotLostSafe`: from
  `CustodyKept`. Its half `InTouch` speaks of a brain that is up: what is listed
  or claimed is held (`Listed`, `ClaimsHeld`), every live child is known to
  somebody (`Known`), and the tombstones in memory are those on disk or newer
  ones of what the holder still holds (`MemAhead`). Its half `OnDisk` speaks of
  what outlives a brain: the files and the requests a dead brain has sent, which
  the holder still carries out. An ack is sent only once the tombstone is on disk
  (`AcksSafe`), an abort names a session that nobody was promised
  (`AbortsSafe`), and a session still on the file's list is held and not settled
  (`Recorded`); these are what the next boot's `InTouch` is rebuilt from.
* `CustodyImplemented`: `KeepsCustody`, the refinement of `SessionCustody` under
  the mapping of section 2. Initial states map to initial states;
  each step of the pair is shown to be `Start`, `StillBorn`, `Exit`, `Promise`,
  `Record`, `Release` or `Abandon` of the abstract module, or to leave its
  variables alone (`StepMaps`, with a lemma per kind of step). `AcksSafe` makes
  an ack a `Release` of a recorded exit, `AbortsSafe` an abort an `Abandon` of an
  unpromised one.

The supervisor:

* `PingPongSafe`; `HeldDownSafe`, the supervisor is held down only without a
  rollback target; `UpgradeSafe`, no deploy is armed while an upgrade is
  pending; and, with `StrikeInv`, `SupTypeCorrect`: from `SupInv`. The pins in
  use being different files (`PinsApart`) and the pin of an armed deploy being in
  no other use (`ArmedIsFresh`) are what makes `NoPingPong` inductive.
* `StrikesSafe`: from `StrikeInv`. `StrikesAreExact` says of the counter what the
  history says; inductive is that the counted ends are the newest, all of the
  running pin, crash upon crash (`CountedAreOwn`), and that the count stops where
  it does for a reason the history shows (`CountIsMaximal`), so that no failure
  is forgiven.

The barrier:

* `NothingTornSafe`, `HandedOffSafe`, `OneAttemptSafe`, `AbortRestoresSafe`,
  `NoLostWakeupSafe` and `BarrierTypeCorrect`: from `BarrierInv`, one
  lemma per conjunct. The properties speak of the instant of the exec, or of the
  time between attempts; `BarrierInv` says what leads there. `LatchInv`: who is
  in an attempt is alone in it and holds gates only while it rises or falls.
  `PauseInv`: while the request is on every registered watcher has it, and past
  the zero crossing none is at its poll. `GateInv`: behind a closed gate nobody
  is inside. `SpawnInv`: every unlisted live child has one thread at work on it,
  and past the zero crossing that spawn is an unfenced one. `WakeInv`: a barrier
  reached while a restarter decides or sleeps was reached by somebody who has
  still to notify.

Continuous tasks:

* `RunTypeCorrect`: the type invariant is inductive alone.
* `OneFireSafe`, `DrainHoldsTheLineSafe`, `AdmissionHoldsSafe`: from `FireInv`. A
  guard's token is one no run has yet (`GuardIsNew`). One call at most is between
  arm and record, it is the one the guard names, and a reconcile about to write
  has found a guard that no call owns (`GuardOwned`): all of it unless `wiped`. A
  drain names a number not behind the run it found being spawned
  (`DrainedLast`). A call that a pause or drain overtook has an older revision
  than the record, or the record is still paused (`OvertakenStayOut`): this
  conjunct needs no exception.
* `ReplaySourceKeptSafe`, `NoDoubleWorkSafe`: from `QueueInv`, which rests on
  `FireInv`. What a call claimed is what it staged under the next run's number
  (`ClaimsStaged`); the running run's batch is whole, its items are off the queue
  unless an account block holds the run, and no call that holds the guard has
  claimed one of them (`BatchKept`); a blocked run lets nothing arm
  (`BlockHolds`); a pending row was handed to nobody but runs held by a block
  (`HandedOnce`); and a call that may still arm has seen which batch it must not
  prune (`OpenSeen`).

Waking a session:

* `SentSafe`: from `SendInv`, which assumes nothing of the queue on disk or of the
  gate's copy. An event that is absent, pending or claimed by the running consumer
  has not been submitted (`UnsentBefore`); every daemon step is `Daemonic`: it
  keeps an event's status, retracts a pending one or publishes where there is
  none, so a stale queue file cannot bring a submitted event back; and a
  consumer that starts leaves no claim open.
* `WakeTypeCorrect`, `ToldOnceSafe`, `QuietSafe`: from `WakeInv`. Its core, `Good`,
  is asked of the queue on disk and of the gate's copy alike, since after a lost
  gate the next tick goes on from the former. A key is in one batch (`Apart`) and
  a submitted text counts only keys of its batch, or keys handed on, unread in a
  gap, or read (`Counted`), so no two texts share another one (`TextsApart`). A
  batch with an unread key is released only past its horizon (`Held`) and called
  off only when its event was retracted (`Called`); a batch without an event that
  has one behind it is over, or may be frozen (`Waits`); hence a first batch that
  is published is the only one engaged (`Single`). Each pure part of
  `delivery.rs` has a lemma on what it does to any queue (`SettleFacts`,
  `CollectFacts`, `ExpireFacts`, `CompactFacts`, `SplitFacts`) and one that it
  keeps `Good`; a tick or RPC is a chain of them.

Only model-checked: liveness (`EveryExitSettles`, `BootFinishes`, `ArmResolves`,
`AttemptEnds`, `WorkResumes`, `DeadSettles`, `WatchedRunEnds`,
`EveryMessageIsTold`), which is beyond the prover, as is the fairness it rests
on.

## 6. What is not modelled

In the modelled parts: bytes, fds, pids, cgroups, exit codes, listeners,
checkpoints; `rollback_record` (whether every live session has one is a choice
in `HandleSplitRollback`); the framing of the channel; backoff delays; the
migration boot, where a holder starts from a monolith's manifest; the holder's
own crash, after which nothing it held exists any more; `adopt` as a message
(the answer is read in one step: while a brain waits for it there is no other
request, and an exit seen meanwhile is delivered after its `arm_reap`). A
brain's metadata of a session is not distinguished from its uid, so what an
orphan loses is not seen. The registry file's filters (workflow sessions, the
staleness window, transcript-less continuous sessions) are the choice
`RestoreSkip`.

Of the re-exec: the preflight, which runs before any side effect; fd flags and
the signal mask, which `exec_stage` restores itself; and everything after the
exec. A unit of PTY input is one piece: that a delivery which sees the pause
skips its settling waits and the check of its Enter only shortens it.

Of continuous tasks: the Codex engine's targets, adoption and staffing of a
task's session, its triage channel, schedules as times, the failure breaker's
backoff, and the API's tables but for `queue_items`. The scheduler's transcript
probes are a choice.

Of messaging: the store, its search, follows and monitors, which are the choice
of a message and of `D`; replication between hosts; batches of older formats and
the transcript marker scan that settles them; engines without a native consumer;
holds during a rotation; the eviction at 512 events; stall alarms. A message
that a session wants no more for another reason than reading or do-not-disturb
is not modelled.

Left out as parts: see section 1.

## 7. Plan

1. `Handoff`: what the new image does with the manifest (adoption, the escrow
   of children, the attempt counter and the fallback ladder of `reexec.rs`),
   composed with `RestartBarrier`. Abstract specification: a restart is atomic
   for every session that was listed.
2. `BrainDeploy`: the deploy, rollback, split_rollback and upgrade flows of
   `holder_mode.rs:1273-1830` over `HolderSupervisor` and the barrier, with
   the arm-late rule; composes with `HolderTable` to show that no status is
   consumed while a reverse migration is armed.
3. `Replication`: the message log between two hosts, with an abstract mailbox as
   the specification; then the message store's cursors, which `WakeDelivery`
   takes as given.
4. `MemoryCap`: the watcher's policy against its checkpoint across a restart.
5. `Rotation`: the stop and respawn of a uid, its holds on the native queue and
   the retirement of receipts.
6. `Framing`, and the pure functions (the breaker's backoff, the version gate)
   against reference definitions.
7. Proofs: the step lemmas behind the liveness properties (what a fair action
   does from the states it is needed in), which TLC alone covers now; then the
   invariants of the modules above.
