----------------------------- MODULE HolderBrain ----------------------------
(***************************************************************************)
(* The holder of module HolderTable with the brain the repository really   *)
(* runs against it: daemon/src/holder_mode.rs, the split half of           *)
(* start_session and handle_session_exit in daemon/src/control/methods.rs, *)
(* the exit observer of daemon/src/session.rs, and the registry and        *)
(* tombstone files of daemon/src/state.rs.                                 *)
(*                                                                         *)
(* Threads of a brain: request handlers (Caller), one exit observer per    *)
(* armed session, the boot thread and the channel reader.  A brain may     *)
(* crash between any two steps; the files and the holder survive it.       *)
(*                                                                         *)
(* A request whose reply changes nothing (abort_spawn, forget and the boot *)
(* thread's arm_reap: the code ignores the result, or logs it) is sent     *)
(* from Nobody and its thread goes on at once, as it would after a         *)
(* timeout.  The reverse migration (split_rollback) has no sender here.    *)
(***************************************************************************)
EXTENDS HolderTable

CONSTANTS
  Caller,      \* request-handler threads
  Observer,    \* the sender of an exit observer's requests
  Restorable,  \* the uids in the registry file when the holder first boots
  Faults       \* which failures happen besides crashes:
               \*   timeout         a reply later than REPLY_TIMEOUT
               \*   setup           a step between spawn and insert fails
               \*   build           build_adopted fails
               \*   arm             an adopted record's observer cannot start
               \*   tomb_write      the tombstone file cannot be written
               \*   registry_write  the registry file cannot be written
               \*   stop            SIGTERM to the holder

ASSUME BrainAssumption ==
  /\ From = Caller \cup {Observer}
  /\ Observer \notin Caller
  /\ Restorable \subseteq Uid

VARIABLES
  phase,     \* of the brain: down, booting, adopting, restoring, serving
  op,        \* start_session in each Caller
  reg,       \* DaemonState.sessions: the incarnation of each uid, 0 for none
  obs,       \* the exit observer of each incarnation
  parked,    \* HolderClient.parked_exits is not empty
  todo,      \* the adopt records the boot thread has yet to reconcile
  backlog,   \* registry entries read at boot, not adopted or restored yet
  memTomb,   \* DaemonState.recently_exited
  tombFile,  \* daemon-tombstones.json
  regFile    \* daemon-sessions.json: uids

brainVars == <<phase, op, reg, obs, parked, todo, backlog, memTomb, tombFile, regFile>>
vars == <<sess, nextInc, split, epoch, chan, child, toHolder, toBrain, phase, op,
          reg, obs, parked, todo, backlog, memTomb, tombFile, regFile>>

Idle     == [pc |-> "idle", uid |-> "none", inc |-> 0]
Unwatched == [pc |-> "none", uid |-> "none"]
NoRecord == [inc |-> 0, settled |-> FALSE]
NoTomb   == [kind |-> "none", inc |-> 0]

BrainTypeOK ==
  /\ phase \in {"down", "booting", "adopting", "restoring", "serving"}
  /\ op \in [Caller -> [pc : {"idle", "spawning", "spawned", "arming", "armfailed"},
                        uid : Uid \cup {"none"}, inc : 0..MaxInc]]
  /\ reg \in [Uid -> 0..MaxInc]
  /\ obs \in [Inc -> [pc : {"none", "waiting", "got", "exited", "acking", "done"},
                      uid : Uid \cup {"none"}]]
  /\ parked \in BOOLEAN
  /\ todo \in [Uid -> [inc : 0..MaxInc, settled : BOOLEAN]]
  /\ backlog \subseteq Uid
  /\ memTomb \in [Uid -> [kind : {"none", "exit", "lost"}, inc : 0..MaxInc]]
  /\ tombFile \in [Uid -> [kind : {"none", "exit", "lost"}, inc : 0..MaxInc]]
  /\ regFile \subseteq Uid

BrainInit ==
  /\ Init
  /\ phase = "down"
  /\ op = [c \in Caller |-> Idle]
  /\ reg = [u \in Uid |-> 0]
  /\ obs = [i \in Inc |-> Unwatched]
  /\ parked = FALSE
  /\ todo = [u \in Uid |-> NoRecord]
  /\ backlog = {}
  /\ memTomb = [u \in Uid |-> NoTomb]
  /\ tombFile = [u \in Uid |-> NoTomb]
  /\ regFile = Restorable

-----------------------------------------------------------------------------
(* The channel and the files.                                              *)

Req(verb, u, i, f) == [verb |-> verb, uid |-> u, inc |-> i, from |-> f]
Send(m) == toHolder' = Append(toHolder, m)

\* The channel reader takes the next frame; it is a reply to f.
ReplyTo(f) ==
  /\ chan = "open"
  /\ toBrain # <<>>
  /\ Head(toBrain).from = f
  /\ toBrain' = Tail(toBrain)

\* Nobody waits for f's outstanding reply any more.
Deaf(q, S) == [k \in DOMAIN q |-> IF q[k].from \in S THEN [q[k] EXCEPT !.from = Nobody]
                                  ELSE q[k]]

Live(r) == {u \in Uid : r[u] # 0}
MutantAbortReq(u, i) == Req("abort_spawn", u, 0, Nobody)
AbortReq(u, i) == Req("abort_spawn", u, i, Nobody)

MutantDelisted(u) == reg
Delisted(u) == [reg EXCEPT ![u] = 0]

\* persist_sessions_best_effort: the file lists the live sessions; a failed
\* write is logged.
MutantPersistRegistry == UNCHANGED regFile
PersistRegistry ==
  \/ regFile' = Live(reg')
  \/ "registry_write" \in Faults /\ UNCHANGED regFile

Alive(p) == chan = "open" /\ phase = p

-----------------------------------------------------------------------------
(* start_session, the holder-backed half.                                  *)

AllIdle == \A c \in Caller : op[c] = Idle

\* The first collision check, then the spawn verb.  Restore goes through the
\* same funnel, one entry at a time, before anything is served.
StartOp(c, u) ==
  /\ op[c] = Idle
  /\ reg[u] = 0
  /\ Len(toHolder) + Len(toBrain) < MaxQueue   \* bound: frames given up and still in flight
  /\ \/ Alive("serving") /\ UNCHANGED backlog
     \/ Alive("restoring") /\ AllIdle /\ u \in backlog /\ backlog' = backlog \ {u}
  /\ op' = [op EXCEPT ![c] = [pc |-> "spawning", uid |-> u, inc |-> 0]]
  /\ Send(Req("spawn", u, 0, c))
  /\ UNCHANGED <<holderVars, toBrain, phase, reg, obs, parked, todo, memTomb, tombFile, regFile>>

MutantSpawnOutcome(o, m) == [o EXCEPT !.pc = "spawned", !.inc = m.inc + 1]
MutantErrIgnored(o, m) == IF m.ok THEN [o EXCEPT !.pc = "spawned", !.inc = m.inc] ELSE o
SpawnOutcome(o, m) == IF m.ok THEN [o EXCEPT !.pc = "spawned", !.inc = m.inc] ELSE Idle

SpawnReply(c) ==
  /\ op[c].pc = "spawning"
  /\ ReplyTo(c)
  /\ op' = [op EXCEPT ![c] = SpawnOutcome(@, Head(toBrain))]
  /\ UNCHANGED <<holderVars, toHolder, phase, reg, obs, parked, todo, backlog, memTomb, tombFile, regFile>>

\* The uid was taken meanwhile, or a step on the way failed: the pending
\* session is dropped, and its Drop aborts the spawn.
DropPending(c) ==
  /\ chan = "open"
  /\ op[c].pc = "spawned"
  /\ reg[op[c].uid] # 0 \/ "setup" \in Faults
  /\ op' = [op EXCEPT ![c] = Idle]
  /\ Send(AbortReq(op[c].uid, op[c].inc))
  /\ UNCHANGED <<holderVars, toBrain, phase, reg, obs, parked, todo, backlog, memTomb, tombFile, regFile>>

\* Under the state lock: the second collision check, the observer is
\* subscribed, the session inserted, the registry persisted; then arm_reap.
InsertAndArm(c) ==
  LET u == op[c].uid
      i == op[c].inc
  IN
  /\ chan = "open"
  /\ op[c].pc = "spawned"
  /\ reg[u] = 0
  /\ obs' = [obs EXCEPT ![i] = [pc |-> "waiting", uid |-> u]]
  /\ reg' = [reg EXCEPT ![u] = i]
  /\ PersistRegistry
  /\ op' = [op EXCEPT ![c].pc = "arming"]
  /\ Send(Req("arm_reap", u, i, c))
  /\ UNCHANGED <<holderVars, toBrain, phase, parked, todo, backlog, memTomb, tombFile>>

ArmReply(c) ==
  LET m == Head(toBrain) IN
  /\ op[c].pc = "arming"
  /\ ReplyTo(c)
  /\ op' = [op EXCEPT ![c] = IF m.ok THEN Idle ELSE [@ EXCEPT !.pc = "armfailed"]]
  /\ UNCHANGED <<holderVars, toHolder, phase, reg, obs, parked, todo, backlog, memTomb, tombFile, regFile>>

\* Inserted but unarmed: the uid is removed, whoever holds it now, and the
\* child torn down.
RemoveUnarmed(c) ==
  /\ chan = "open"
  /\ op[c].pc = "armfailed"
  /\ reg' = Delisted(op[c].uid)
  /\ PersistRegistry
  /\ op' = [op EXCEPT ![c] = Idle]
  /\ Send(AbortReq(op[c].uid, op[c].inc))
  /\ UNCHANGED <<holderVars, toBrain, phase, obs, parked, todo, backlog, memTomb, tombFile>>

\* REPLY_TIMEOUT: the thread gives up; the request may still be carried out
\* and its reply, when it comes, is dropped.
OpTimeout(c) ==
  /\ "timeout" \in Faults
  /\ chan = "open"
  /\ op[c].pc \in {"spawning", "arming"}
  /\ op' = [op EXCEPT ![c] = IF @.pc = "spawning" THEN Idle ELSE [@ EXCEPT !.pc = "armfailed"]]
  /\ toHolder' = Deaf(toHolder, {c})
  /\ toBrain' = Deaf(toBrain, {c})
  /\ UNCHANGED <<holderVars, phase, reg, obs, parked, todo, backlog, memTomb, tombFile, regFile>>

CallerStep(c) ==
  SpawnReply(c) \/ DropPending(c) \/ InsertAndArm(c) \/ ArmReply(c) \/ RemoveUnarmed(c)

-----------------------------------------------------------------------------
(* Exits: the reader routes the event, the observer records and settles it. *)

\* No live subscription parks the event; an observer takes only the first.
RouteExit ==
  LET m == Head(toBrain) IN
  /\ chan = "open"
  /\ toBrain # <<>>
  /\ m.verb = "exit_event"
  /\ toBrain' = Tail(toBrain)
  /\ IF obs[m.inc].pc \in {"none", "done"}
     THEN parked' = TRUE /\ UNCHANGED obs
     ELSE /\ obs' = IF obs[m.inc].pc = "waiting" THEN [obs EXCEPT ![m.inc].pc = "got"] ELSE obs
          /\ UNCHANGED parked
  /\ UNCHANGED <<holderVars, toHolder, phase, op, reg, todo, backlog, memTomb, tombFile, regFile>>

\* A reply nobody waits for.
DropReply ==
  /\ toBrain # <<>>
  /\ Head(toBrain).verb # "exit_event"
  /\ ReplyTo(Nobody)
  /\ UNCHANGED <<holderVars, toHolder, brainVars>>

\* handle_session_exit goes by uid: whatever session the uid names now gets
\* the tombstone and is removed (its exit cell is empty, hence no incarnation,
\* unless this is its own exit).
MutantExitRecord(i, u) == [kind |-> "exit", inc |-> reg[u]]
ExitRecord(i, u) == [kind |-> "exit", inc |-> IF reg[u] = i THEN i ELSE 0]

OnExit(i) ==
  LET u == obs[i].uid IN
  /\ chan = "open"
  /\ obs[i].pc = "got"
  /\ obs' = [obs EXCEPT ![i].pc = "exited"]
  /\ memTomb' = IF reg[u] = 0 THEN memTomb
                ELSE [memTomb EXCEPT ![u] = ExitRecord(i, u)]
  /\ reg' = Delisted(u)
  /\ PersistRegistry
  /\ UNCHANGED <<holderVars, toHolder, toBrain, phase, op, parked, todo, backlog, tombFile>>

\* settle: the ack goes out only if the tombstones reached disk; otherwise the
\* exit stays pending in the holder, for the next brain.
MutantSaveTombs == UNCHANGED tombFile
SaveTombs == tombFile' = memTomb

Settle(i) ==
  /\ chan = "open"
  /\ obs[i].pc = "exited"
  /\ \/ /\ SaveTombs
        /\ obs' = [obs EXCEPT ![i].pc = "acking"]
        /\ Send(Req("ack_exit", obs[i].uid, i, Observer))
     \/ /\ "tomb_write" \in Faults
        /\ obs' = [obs EXCEPT ![i].pc = "done"]
        /\ UNCHANGED <<tombFile, toHolder>>
  /\ UNCHANGED <<holderVars, toBrain, phase, op, reg, parked, todo, backlog, memTomb, regFile>>

\* The ack's reply: forget follows.
Acked(i) ==
  /\ obs[i].pc = "acking"
  /\ ReplyTo(Observer)
  /\ Head(toBrain).inc = i
  /\ obs' = [obs EXCEPT ![i].pc = "done"]
  /\ Send(Req("forget", obs[i].uid, i, Nobody))
  /\ UNCHANGED <<holderVars, phase, op, reg, parked, todo, backlog, memTomb, tombFile, regFile>>

AckTimeout(i) ==
  /\ "timeout" \in Faults
  /\ chan = "open"
  /\ obs[i].pc = "acking"
  /\ \A j \in Inc : obs[j].pc = "acking" => j = i   \* keeps replies attributable
  /\ obs' = [obs EXCEPT ![i].pc = "done"]
  /\ toHolder' = Deaf(toHolder, {Observer})
  /\ toBrain' = Deaf(toBrain, {Observer})
  /\ UNCHANGED <<holderVars, phase, op, reg, parked, todo, backlog, memTomb, tombFile, regFile>>

ObserverStep(i) == OnExit(i) \/ Settle(i) \/ Acked(i)

-----------------------------------------------------------------------------
(* Boot: adopt what the holder holds, then restore what it does not.       *)

\* The next generation; it seeds its tombstones from disk.
BrainUp ==
  /\ Serve
  /\ phase = "down"
  /\ phase' = "booting"
  /\ memTomb' = tombFile
  /\ UNCHANGED <<op, reg, obs, parked, todo, backlog, tombFile, regFile>>

\* The adopt verb's answer and the registry file, read once.
FetchBoot ==
  /\ Alive("booting")
  /\ phase' = "adopting"
  /\ todo' = [u \in Uid |-> [inc |-> sess[u].inc, settled |-> sess[u].exit = "acked"]]
  /\ backlog' = regFile
  /\ UNCHANGED <<tableVars, op, reg, obs, parked, memTomb, tombFile, regFile>>

Reconcile(u) ==
  /\ Alive("adopting")
  /\ todo[u].inc # 0
  /\ todo' = [todo EXCEPT ![u] = NoRecord]

\* Reaped with nothing pending: recorded by an earlier brain; forgotten.
AdoptForget(u) ==
  /\ Reconcile(u)
  /\ todo[u].settled
  /\ Send(Req("forget", u, todo[u].inc, Nobody))
  /\ UNCHANGED <<holderVars, toBrain, phase, op, reg, obs, parked, backlog, memTomb, tombFile, regFile>>

\* build_adopted failed: skipped.
AdoptSkip(u) ==
  /\ "build" \in Faults
  /\ Reconcile(u)
  /\ ~todo[u].settled
  /\ UNCHANGED <<tableVars, phase, op, reg, obs, parked, backlog, memTomb, tombFile, regFile>>

\* The observer could not be started: HolderPending's Drop aborts.
AdoptAbort(u) ==
  /\ "arm" \in Faults
  /\ Reconcile(u)
  /\ ~todo[u].settled
  /\ Send(AbortReq(u, todo[u].inc))
  /\ UNCHANGED <<holderVars, toBrain, phase, op, reg, obs, parked, backlog, memTomb, tombFile, regFile>>

\* Subscribe and insert under the state lock, then arm_reap.
AdoptOne(u) ==
  /\ Reconcile(u)
  /\ ~todo[u].settled
  /\ obs' = [obs EXCEPT ![todo[u].inc] = [pc |-> "waiting", uid |-> u]]
  /\ reg' = [reg EXCEPT ![u] = todo[u].inc]
  /\ backlog' = backlog \ {u}
  /\ Send(Req("arm_reap", u, todo[u].inc, Nobody))
  /\ UNCHANGED <<holderVars, toBrain, phase, op, parked, memTomb, tombFile, regFile>>

\* What the registry lists and a surviving holder does not hold is status_lost;
\* a first generation leaves it to restore, which reads the file again.
Unadopted == {u \in backlog : reg[u] = 0}

AdoptDone ==
  /\ Alive("adopting")
  /\ todo = [u \in Uid |-> NoRecord]
  /\ phase' = "restoring"
  /\ IF epoch > 1 /\ Unadopted # {}
     THEN /\ memTomb' = [u \in Uid |-> IF u \in Unadopted THEN [kind |-> "lost", inc |-> 0]
                                       ELSE memTomb[u]]
          /\ tombFile' = memTomb' \/ ("tomb_write" \in Faults /\ UNCHANGED tombFile)
          /\ UNCHANGED reg
          /\ PersistRegistry
     ELSE UNCHANGED <<memTomb, tombFile, reg, regFile>>
  /\ backlog' = regFile' \ Live(reg)
  /\ UNCHANGED <<tableVars, op, obs, parked, todo>>

\* Restore may find an entry unusable.
RestoreSkip(u) ==
  /\ Alive("restoring")
  /\ AllIdle
  /\ u \in backlog
  /\ backlog' = backlog \ {u}
  /\ UNCHANGED <<tableVars, phase, op, reg, obs, parked, todo, memTomb, tombFile, regFile>>

RestoreDone ==
  /\ Alive("restoring")
  /\ AllIdle
  /\ backlog = {}
  /\ phase' = "serving"
  /\ UNCHANGED reg
  /\ PersistRegistry
  /\ UNCHANGED <<tableVars, op, obs, parked, todo, backlog, memTomb, tombFile>>

BootStep ==
  \/ FetchBoot \/ AdoptDone \/ RestoreDone
  \/ \E u \in Uid : AdoptForget(u) \/ AdoptSkip(u) \/ AdoptAbort(u) \/ AdoptOne(u) \/ RestoreSkip(u)

-----------------------------------------------------------------------------
(* The end of a brain.                                                     *)

\* persist_before_exit: the registry, then the tombstones, as far as the brain
\* gets before it is killed.
PersistBeforeExit ==
  /\ regFile' = Live(reg) \/ ("registry_write" \in Faults /\ UNCHANGED regFile)
  /\ tombFile' \in {tombFile, memTomb}

\* Crash, or SIGKILL by the watchdog: only the files are left.  The holder
\* closes the channel before the SIGKILL, so a brain that has set its exit hook
\* (set_state_for_exit, before it adopts) may see the EOF and persist.
BrainCrash ==
  /\ epoch < MaxEpoch
  /\ \/ (BrainDies \/ WatchdogKill) /\ UNCHANGED <<regFile, tombFile>>
     \/ WatchdogKill /\ chan = "open" /\ phase # "booting" /\ PersistBeforeExit
  /\ phase # "down"
  /\ phase' = "down"
  /\ op' = [c \in Caller |-> Idle]
  /\ reg' = [u \in Uid |-> 0]
  /\ obs' = [i \in Inc |-> Unwatched]
  /\ parked' = FALSE
  /\ todo' = [u \in Uid |-> NoRecord]
  /\ backlog' = {}
  /\ memTomb' = [u \in Uid |-> NoTomb]

\* The holder's stop sequence: SIGTERM makes the brain persist and exit (it may
\* not get there), then the holder kills every child.
StopAll ==
  /\ "stop" \in Faults
  /\ Shutdown
  /\ \/ UNCHANGED <<regFile, tombFile>>
     \/ chan = "open" /\ phase # "down" /\ PersistBeforeExit
  /\ UNCHANGED <<phase, op, reg, obs, parked, todo, backlog, memTomb>>

HolderStep ==
  /\ \/ HandleSpawnOk \/ HandleSpawnErr \/ HandleSpawnTorn \/ HandleArmReap
     \/ HandleAbortSpawn \/ HandleAckExit \/ HandleForget
  /\ UNCHANGED brainVars

SeeExitStep(u) == SeeExit(u) /\ UNCHANGED brainVars
EofStep        == BrainEof /\ UNCHANGED brainVars
ExitStep(i)    == ChildExits(i) /\ UNCHANGED brainVars

BrainNext ==
  \/ HolderStep
  \/ EofStep
  \/ BrainUp
  \/ BrainCrash
  \/ StopAll
  \/ BootStep
  \/ RouteExit
  \/ DropReply
  \/ \E u \in Uid : SeeExitStep(u)
  \/ \E i \in Inc : ExitStep(i) \/ ObserverStep(i) \/ AckTimeout(i)
  \/ \E c \in Caller : CallerStep(c) \/ OpTimeout(c) \/ \E u \in Uid : StartOp(c, u)

BrainSpec == BrainInit /\ [][BrainNext]_vars

\* Every thread and both processes keep running; nothing makes a child exit,
\* a client start a session, a brain crash or a reply time out.
Fairness ==
  /\ WF_vars(HolderStep)
  /\ WF_vars(EofStep)
  /\ WF_vars(BrainUp)
  /\ WF_vars(BootStep)
  /\ WF_vars(RouteExit)
  /\ WF_vars(DropReply)
  /\ \A u \in Uid : WF_vars(SeeExitStep(u))
  /\ \A i \in Inc : WF_vars(ObserverStep(i))
  /\ \A c \in Caller : WF_vars(CallerStep(c))

FairSpec == BrainSpec /\ Fairness

-----------------------------------------------------------------------------
(* Properties.                                                             *)

LifeOf(i) ==
  CASE child[i] = "unborn"  -> "none"
    [] child[i] = "running" -> "running"
    [] child[i] = "zombie"  -> "exited"
    [] child[i] = "reaped"  -> IF \E u \in Uid : sess[u].inc = i THEN "exited" ELSE "gone"

Abstract == INSTANCE SessionCustody WITH
  life     <- [i \in Inc |-> LifeOf(i)],
  owner    <- [u \in Uid |-> sess[u].inc],
  promised <- {u \in Uid : sess[u].armed},
  tomb     <- [u \in Uid |-> tombFile[u].inc]

\* The two processes keep the promise of SessionCustody: across any brain
\* crash, an armed session is aborted by nobody, and forget reaches the holder
\* only after the exit's tombstone is in the file (adopt, arm, on_exit, the
\* checked save, ack_exit and forget, in whatever interleaving).
KeepsCustody == Abstract!Spec

\* An exit event always finds its subscription: insert-and-subscribe comes
\* before arm_reap, at spawn and at adoption, and delivery readiness does not
\* survive a generation (route_exit's park branch is never taken).
NeverParked == ~parked

\* Whatever fails or comes late, an abort in flight never names a session the
\* brain lists (Drop of HolderPending, the failed arm_reap, a failed adoption),
\* and a tombstone names an incarnation only if that very child was reaped: a
\* live session that a late exit takes off the list is never recorded as having
\* exited (handle_session_exit).
LateIsHarmless ==
  /\ \A k \in 1..Len(toHolder) :
       toHolder[k].verb = "abort_spawn" => reg[toHolder[k].uid] # toHolder[k].inc
  /\ \A u \in Uid : \A t \in {memTomb[u], tombFile[u]} :
       t.inc # 0 => child[t.inc] = "reaped"

\* The two session tables agree: a session the brain lists is the incarnation
\* the holder holds, under exactly one waiting observer, until its own exit has
\* been taken off the list (start_session, adopt_at_boot, handle_session_exit).
RegistryMatchesHolder ==
  chan = "open" =>
    /\ \A u \in Uid : reg[u] # 0 =>
         /\ sess[u].inc = reg[u]
         /\ obs[reg[u]].pc \in {"waiting", "got"} /\ obs[reg[u]].uid = u
    /\ \A i \in Inc : obs[i].pc \in {"waiting", "got"} => reg[obs[i].uid] = i

\* Once adoption is over no live child is a stranger to the brain: its session
\* is listed, its start_session is still at work, or its abort is on the way
\* (DESIGN_HOLDER_BRAIN_SPLIT.md:144, "failure anywhere pre-insert ->
\* abort_spawn").
HeldAreKnown ==
  chan = "open" /\ phase \in {"restoring", "serving"} =>
    \A u \in Uid : Held(u) /\ sess[u].exit = "none" =>
      \/ reg[u] = sess[u].inc
      \/ \E c \in Caller : op[c].pc # "idle" /\ op[c].uid = u
      \/ \E k \in 1..Len(toHolder) : /\ toHolder[k].verb = "abort_spawn"
                                     /\ toHolder[k].inc = sess[u].inc

\* A durable record of a seen exit is replaced only by that of a later
\* incarnation, never by status_lost (adopt_at_boot: "gone with no
\* reconstructible status").
TruthNotLost ==
  [][\A u \in Uid : tombFile[u].inc # 0 => /\ tombFile'[u].kind = "exit"
                                           /\ tombFile'[u].inc >= tombFile[u].inc]_vars

\* Every exit of a held child is eventually consumed, recorded, acked and
\* forgotten, whatever brains crash on the way.
EveryExitSettles ==
  \A u \in Uid, i \in Inc :
    (sess[u].inc = i /\ child[i] = "zombie") ~> (sess[u].inc # i)

\* Every brain that lives long enough finishes its boot.
BootFinishes == phase = "booting" ~> phase \in {"serving", "down"}
=============================================================================
