---------------------------- MODULE HolderTable ----------------------------
(***************************************************************************)
(* The holder's session table: the process that owns every PTY child and   *)
(* survives brain restarts (holder/src/holder.rs).  Single-threaded, so    *)
(* one action is one handler run to its end.  The brain is ANY client: it  *)
(* sends any verb about any uid and incarnation at any time, and may die   *)
(* at any time; what holds here holds whatever the brain's code does.      *)
(* Module HolderBrain composes the same actions with the real brain.       *)
(*                                                                         *)
(* Abstracted: fds, pids, PTY bytes, cgroup paths, checkpoints, listeners, *)
(* exit codes; the verbs signal, update_checkpoint, store_listener,        *)
(* rollback_record, status and the pings touch none of the state below.    *)
(* The armed brain deploys (restart_brain, rollback_brain) and the holder  *)
(* upgrade are in module HolderSupervisor.                                 *)
(***************************************************************************)
EXTENDS Naturals, Sequences, FiniteSets

CONSTANTS
  Uid,       \* session uids
  From,      \* who a request is from: the brain thread awaiting the reply
  Nobody,    \* the sender of a request nobody awaits (timed out), of an event
  MaxInc,    \* bound: incarnations minted
  MaxEpoch,  \* bound: brain generations
  MaxQueue   \* bound: frames in flight in one direction of the channel

ASSUME TableAssumption ==
  /\ IsFiniteSet(Uid)
  /\ Nobody \notin From
  /\ MaxInc \in Nat
  /\ MaxEpoch \in Nat
  /\ MaxQueue \in Nat

VARIABLES
  sess,      \* Holder.sessions: uid -> entry; inc = 0 means no entry
  nextInc,   \* Holder.next_incarnation
  split,     \* Holder.armed_deploy is a SplitRollback
  epoch,     \* Holder.epoch
  chan,      \* the serve loop: open, closed (brain dead, EOF unread),
             \* down (between generations), migrated, stopped
  child,     \* the kernel's view of the child of each incarnation
  toHolder,  \* requests in flight
  toBrain    \* replies and exit events in flight

holderVars == <<sess, nextInc, split, epoch, chan, child>>
tableVars  == <<sess, nextInc, split, epoch, chan, child, toHolder, toBrain>>

Inc   == 1..MaxInc
Verbs == {"spawn", "arm_reap", "abort_spawn", "ack_exit", "forget",
          "split_rollback", "cancel_pending"}

Entry == [inc: 0..MaxInc, armed: BOOLEAN, ready: BOOLEAN, latched: BOOLEAN,
          exit: {"none", "pending", "acked"}]
NoEntry == [inc |-> 0, armed |-> FALSE, ready |-> FALSE, latched |-> FALSE,
            exit |-> "none"]
MutantSpawned(i) == [NoEntry EXCEPT !.inc = i + 1]
Spawned(i) == [NoEntry EXCEPT !.inc = i]

Request == [verb: Verbs, uid: Uid, inc: 0..MaxInc, from: From \cup {Nobody}]
Frame   == [verb: Verbs \cup {"exit_event"}, uid: Uid, inc: 0..MaxInc,
            from: From \cup {Nobody}, ok: BOOLEAN]

TypeOK ==
  /\ sess \in [Uid -> Entry]
  /\ nextInc \in 1..(MaxInc + 1)
  /\ split \in BOOLEAN
  /\ epoch \in 0..MaxEpoch
  /\ chan \in {"open", "closed", "down", "migrated", "stopped"}
  /\ child \in [Inc -> {"unborn", "running", "zombie", "reaped"}]
  /\ toHolder \in Seq(Request)
  /\ toBrain \in Seq(Frame)

Init ==
  /\ sess = [u \in Uid |-> NoEntry]
  /\ nextInc = 1
  /\ split = FALSE
  /\ epoch = 0
  /\ chan = "down"
  /\ child = [i \in Inc |-> "unborn"]
  /\ toHolder = <<>>
  /\ toBrain = <<>>

-----------------------------------------------------------------------------
(* The pieces the handlers are built from.                                 *)

Held(u)    == sess[u].inc # 0
Serving    == chan \in {"open", "closed"}   \* the poll loop is running
Matches(m) == Held(m.uid) /\ sess[m.uid].inc = m.inc

Reply(m, i, good) ==
  [verb |-> m.verb, uid |-> m.uid, inc |-> i, from |-> m.from, ok |-> good]
ExitEvent(u) ==
  [verb |-> "exit_event", uid |-> u, inc |-> sess[u].inc, from |-> Nobody,
   ok |-> TRUE]

\* Frames pushed at a dead brain go nowhere.
Push(frames) == toBrain' = IF chan = "open" THEN toBrain \o frames ELSE toBrain

\* consume_exit: waitid, the event is pending until acked.
Consumed(e) == [e EXCEPT !.exit = "pending", !.latched = FALSE]

\* May a seen exit be consumed, and its event be sent to this generation?
MutantMayConsume(e) == ~split
MayConsume(e) == e.armed /\ ~split
MutantMayAnnounce(e) == e.armed
MayAnnounce(e) == e.ready

\* A latched exit is consumed by the arm that was missing.
MutantConsumedByArm(e) == FALSE
ConsumedByArm(e) == e.latched /\ e.exit = "none"

\* ack_exit and forget look at the incarnation and at the exit's state.
MutantAckable(m) == Held(m.uid) /\ sess[m.uid].exit = "pending"
Ackable(m) == Matches(m) /\ sess[m.uid].exit = "pending"
MutantForgettable(m) == Matches(m) /\ sess[m.uid].exit # "pending"
Forgettable(m) == Matches(m) /\ sess[m.uid].exit = "acked"

\* A new generation must arm again before anything is delivered to it.
MutantUnready(e) == e
Unready(e) == [e EXCEPT !.ready = FALSE]

\* The uids whose parked zombie a sweep consumes.
MutantSweepable == {}
Sweepable == {u \in Uid : /\ Held(u)
                          /\ sess[u].latched /\ sess[u].armed
                          /\ sess[u].exit = "none"}

\* The orders a finite set can be listed in.
Orders(S) == {f \in [1..Cardinality(S) -> S] : \A j, k \in DOMAIN f : f[j] = f[k] => j = k}

\* sweep_latched_exits[_into]: every such exit is consumed, and the entries
\* that are delivery-ready push their event.
Sweep ==
  /\ sess' = [u \in Uid |-> IF u \in Sweepable THEN Consumed(sess[u]) ELSE sess[u]]
  /\ child' = [i \in Inc |-> IF \E u \in Sweepable : sess[u].inc = i
                             THEN "reaped" ELSE child[i]]
Announced == {u \in Sweepable : MayAnnounce(sess[u])}
Events(o) == [k \in DOMAIN o |-> ExitEvent(o[k])]

-----------------------------------------------------------------------------
(* dispatch: one inbound frame, its state change and its reply.            *)

\* The loop reads a frame the brain sent, even if the brain has since died.
Dispatch(verb) ==
  /\ Serving
  /\ toHolder # <<>>
  /\ Head(toHolder).verb = verb
  /\ toHolder' = Tail(toHolder)
Refuse(m) == Push(<<Reply(m, 0, FALSE)>>)

\* A fresh child, held un-armed: its exit may be seen but not consumed.
HandleSpawnOk ==
  LET m == Head(toHolder) IN
  /\ Dispatch("spawn")
  /\ ~Held(m.uid)
  /\ nextInc <= MaxInc
  /\ sess' = [sess EXCEPT ![m.uid] = Spawned(nextInc)]
  /\ child' = [child EXCEPT ![nextInc] = "running"]
  /\ nextInc' = nextInc + 1
  /\ Push(<<Reply(m, nextInc, TRUE)>>)
  /\ UNCHANGED <<split, epoch, chan>>

\* uid_exists, or openpty/fork/exec failed: nothing was created.
HandleSpawnErr ==
  LET m == Head(toHolder) IN
  /\ Dispatch("spawn")
  /\ Refuse(m)
  /\ UNCHANGED holderVars

\* The child exists but its fds do not dup: killed, reaped, never held; the
\* incarnation is spent.
HandleSpawnTorn ==
  LET m == Head(toHolder) IN
  /\ Dispatch("spawn")
  /\ ~Held(m.uid)
  /\ nextInc <= MaxInc
  /\ child' = [child EXCEPT ![nextInc] = "reaped"]
  /\ nextInc' = nextInc + 1
  /\ Refuse(m)
  /\ UNCHANGED <<sess, split, epoch, chan>>

\* Authorizes the reap and this generation's delivery; a latched exit is
\* consumed at once, a pending event is sent again.
HandleArmReap ==
  LET m == Head(toHolder)
      e == [sess[m.uid] EXCEPT !.armed = TRUE, !.ready = TRUE]
      ok == Reply(m, m.inc, TRUE)
  IN
  /\ Dispatch("arm_reap")
  /\ \/ /\ ~Matches(m)
        /\ Refuse(m)
        /\ UNCHANGED <<sess, child>>
     \/ /\ Matches(m) /\ ConsumedByArm(e)
        /\ sess' = [sess EXCEPT ![m.uid] = Consumed(e)]
        /\ child' = [child EXCEPT ![m.inc] = "reaped"]
        /\ Push(<<ok, ExitEvent(m.uid)>>)
     \/ /\ Matches(m) /\ ~ConsumedByArm(e)
        /\ sess' = [sess EXCEPT ![m.uid] = e]
        /\ Push(IF e.exit = "pending" THEN <<ok, ExitEvent(m.uid)>> ELSE <<ok>>)
        /\ UNCHANGED child
  /\ UNCHANGED <<nextInc, split, epoch, chan>>

\* SIGKILL and an unconditional waitid, armed or not; no event.
HandleAbortSpawn ==
  LET m == Head(toHolder) IN
  /\ Dispatch("abort_spawn")
  /\ \/ /\ ~Matches(m)
        /\ Refuse(m)
        /\ UNCHANGED <<sess, child>>
     \/ /\ Matches(m)
        /\ sess' = [sess EXCEPT ![m.uid] = NoEntry]
        /\ child' = [child EXCEPT ![m.inc] = "reaped"]
        /\ Push(<<Reply(m, m.inc, TRUE)>>)
  /\ UNCHANGED <<nextInc, split, epoch, chan>>

\* Always ok; takes the pending event of exactly this incarnation.
HandleAckExit ==
  LET m == Head(toHolder) IN
  /\ Dispatch("ack_exit")
  /\ sess' = IF Ackable(m)
             THEN [sess EXCEPT ![m.uid].exit = "acked"]
             ELSE sess
  /\ Push(<<Reply(m, m.inc, TRUE)>>)
  /\ UNCHANGED <<nextInc, split, epoch, chan, child>>

\* Post-exit GC only: refused for a live child and for an unacked event.
HandleForget ==
  LET m == Head(toHolder) IN
  /\ Dispatch("forget")
  /\ \/ /\ ~Forgettable(m)
        /\ Refuse(m)
        /\ UNCHANGED sess
     \/ /\ Forgettable(m)
        /\ sess' = [sess EXCEPT ![m.uid] = NoEntry]
        /\ Push(<<Reply(m, m.inc, TRUE)>>)
  /\ UNCHANGED <<nextInc, split, epoch, chan, child>>

\* Refused while a deploy is armed or any exit is unforgotten (and, a choice
\* here, for a live session without its rollback blob).
HandleSplitRollback ==
  LET m == Head(toHolder) IN
  /\ Dispatch("split_rollback")
  /\ \/ /\ Refuse(m)
        /\ UNCHANGED split
     \/ /\ ~split
        /\ \A u \in Uid : sess[u].exit = "none"
        /\ split' = TRUE
        /\ Push(<<Reply(m, 0, TRUE)>>)
  /\ UNCHANGED <<sess, nextInc, epoch, chan, child>>

\* Disarms; the exits latched meanwhile re-enter the exit pipeline.
HandleCancelPending ==
  LET m == Head(toHolder) IN
  /\ Dispatch("cancel_pending")
  /\ split' = FALSE
  /\ Sweep
  /\ \E o \in Orders(Announced) : Push(Events(o) \o <<Reply(m, 0, TRUE)>>)
  /\ UNCHANGED <<nextInc, epoch, chan>>

HolderDispatch ==
  \/ HandleSpawnOk \/ HandleSpawnErr \/ HandleSpawnTorn
  \/ HandleArmReap \/ HandleAbortSpawn \/ HandleAckExit \/ HandleForget
  \/ HandleSplitRollback \/ HandleCancelPending

-----------------------------------------------------------------------------
(* The rest of the serve loop, and the supervisor around it.               *)

\* A poll cycle finds a child's pidfd readable: the exit is consumed if the
\* entry is armed and no reverse migration is, else latched and masked.
SeeExit(u) ==
  /\ Serving
  /\ Held(u)
  /\ sess[u].exit = "none" /\ ~sess[u].latched
  /\ child[sess[u].inc] = "zombie"
  /\ IF MayConsume(sess[u])
     THEN /\ sess' = [sess EXCEPT ![u] = Consumed(sess[u])]
          /\ child' = [child EXCEPT ![sess[u].inc] = "reaped"]
          /\ IF MayAnnounce(sess[u]) THEN Push(<<ExitEvent(u)>>) ELSE UNCHANGED toBrain
     ELSE /\ sess' = [sess EXCEPT ![u].latched = TRUE]
          /\ UNCHANGED <<child, toBrain>>
  /\ UNCHANGED <<nextInc, split, epoch, chan, toHolder>>

\* ARM_AUTO_DISARM passed with the brain still there: a reverse migration, or
\* another armed deploy, which the table does not see, is dropped.
AutoDisarm ==
  /\ Serving
  /\ split' = FALSE
  /\ Sweep
  /\ \E o \in Orders(Announced) : Push(Events(o))
  /\ UNCHANGED <<nextInc, epoch, chan, toHolder>>

\* A new brain generation: nothing is delivered to it before it arms.
Serve ==
  /\ chan = "down"
  /\ epoch < MaxEpoch
  /\ chan' = "open"
  /\ epoch' = epoch + 1
  /\ sess' = [u \in Uid |-> Unready(sess[u])]
  /\ UNCHANGED <<nextInc, split, child, toHolder, toBrain>>

\* The serve loop reads EOF (or gets EPIPE first: the requests not yet read
\* are lost).  An armed reverse migration now execs the monolith, or fails
\* and sweeps.
BrainEof ==
  /\ chan = "closed"
  /\ toHolder' = <<>>
  /\ \/ /\ ~split
        /\ chan' = "down"
        /\ UNCHANGED <<sess, child, split>>
     \/ /\ split
        /\ chan' = "migrated"
        /\ UNCHANGED <<sess, child, split>>
     \/ /\ split
        /\ chan' = "down"
        /\ split' = FALSE
        /\ Sweep
  /\ UNCHANGED <<nextInc, epoch, toBrain>>

\* The brain is SIGKILLed.  One that wedged (missed pongs, outbound overflow) or
\* violated the protocol loses the armed deploy as stale; one that does not
\* negotiate, or is refused, leaves it armed.
WatchdogKill ==
  /\ Serving
  /\ chan' = "down"
  /\ split' \in {split, FALSE}
  /\ toHolder' = <<>>
  /\ toBrain' = <<>>
  /\ UNCHANGED <<sess, nextInc, epoch, child>>

\* SIGTERM: every child whose exit is not consumed is killed and reaped.
Shutdown ==
  /\ chan \in {"open", "closed", "down"}
  /\ chan' = "stopped"
  /\ sess' = [u \in Uid |-> NoEntry]
  /\ child' = [i \in Inc |-> IF \E u \in Uid : sess[u].inc = i THEN "reaped" ELSE child[i]]
  /\ toHolder' = <<>>
  /\ toBrain' = <<>>
  /\ UNCHANGED <<nextInc, split, epoch>>

HolderLoop == (\E u \in Uid : SeeExit(u)) \/ AutoDisarm \/ Serve \/ BrainEof

\* The kernel: a child exits, by itself or signalled.
ChildExits(i) ==
  /\ child[i] = "running"
  /\ child' = [child EXCEPT ![i] = "zombie"]
  /\ UNCHANGED <<sess, nextInc, split, epoch, chan, toHolder, toBrain>>

\* The brain process dies, whoever killed it; what it sent may still be read.
BrainDies ==
  /\ chan = "open"
  /\ chan' = "closed"
  /\ toBrain' = <<>>
  /\ UNCHANGED <<sess, nextInc, split, epoch, child, toHolder>>

-----------------------------------------------------------------------------
(* The most general brain.                                                 *)

AnySend(m) ==
  /\ chan = "open"
  /\ Len(toHolder) < MaxQueue
  /\ Len(toBrain) < MaxQueue
  /\ toHolder' = Append(toHolder, m)
  /\ UNCHANGED <<holderVars, toBrain>>

AnyReceive ==
  /\ chan = "open"
  /\ toBrain # <<>>
  /\ toBrain' = Tail(toBrain)
  /\ UNCHANGED <<holderVars, toHolder>>

Next ==
  \/ HolderDispatch
  \/ HolderLoop
  \/ WatchdogKill
  \/ Shutdown
  \/ \E i \in Inc : ChildExits(i)
  \/ BrainDies
  \/ \E m \in Request : AnySend(m)
  \/ AnyReceive

Spec == Init /\ [][Next]_tableVars

-----------------------------------------------------------------------------
(* Properties.                                                             *)

\* No child leaks and none is held twice: a child that runs or waits to be
\* reaped is the child of exactly one entry, one whose exit is unconsumed, and
\* an entry's exit is consumed exactly when its child is reaped (spawn,
\* abort_spawn, forget, consume_exit and shutdown_kill_all all agree on it).
Custody ==
  /\ \A i \in Inc : child[i] \in {"running", "zombie"} =>
       \E u \in Uid : sess[u].inc = i /\ sess[u].exit = "none"
  /\ \A u \in Uid : Held(u) =>
       /\ sess[u].inc < nextInc
       /\ child[sess[u].inc] = "reaped" <=> sess[u].exit # "none"
       /\ child[sess[u].inc] # "unborn"
       /\ \A v \in Uid : sess[v].inc = sess[u].inc => v = u

\* waitid is consumed only under arm_reap's authorization (S4): an exit before
\* the brain inserted its session stays a zombie, whatever else happened.
ReapOnlyArmed == \A u \in Uid : sess[u].exit # "none" => sess[u].armed

\* A latched pidfd is masked out of the poll set, so somebody must be bound to
\* look at it again: the arm_reap still to come, or the sweep that ends the
\* armed reverse migration.  (After a watchdog kill it is the arm_reap of the
\* next generation: delivery readiness is gone.)
LatchedWillBeConsumed ==
  chan = "open" =>
    \A u \in Uid : sess[u].latched =>
      /\ sess[u].exit = "none"
      /\ child[sess[u].inc] = "zombie"
      /\ ~sess[u].armed \/ ~sess[u].ready \/ split

\* An exit event on the wire is about a child that is reaped, and about an
\* entry this very generation armed, unless the entry is gone since.
EventsAreTrue ==
  \A k \in 1..Len(toBrain) :
    LET f == toBrain[k] IN
    f.verb = "exit_event" =>
      /\ f.inc \in Inc /\ child[f.inc] = "reaped"
      /\ sess[f.uid].inc = f.inc => sess[f.uid].ready /\ sess[f.uid].exit # "none"

\* A pending exit goes by an ack or an abort of its very incarnation, or with
\* the whole table.
GivenUpByName ==
  \A u \in Uid :
    sess[u].exit = "pending" /\ sess'[u].exit # "pending" =>
      \/ chan' = "stopped"
      \/ /\ toHolder # <<>>
         /\ Head(toHolder).verb \in {"ack_exit", "abort_spawn"}
         /\ Head(toHolder).uid = u /\ Head(toHolder).inc = sess[u].inc

\* A consumed status is never dropped: the step that takes a pending event away
\* is always one of those (handle_ack_exit and handle_forget's guards).
PendingUntilAcked == [][GivenUpByName]_tableVars
=============================================================================
