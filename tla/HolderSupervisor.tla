-------------------------- MODULE HolderSupervisor --------------------------
(***************************************************************************)
(* The holder as the brain's supervisor: which binary the next generation  *)
(* runs (holder/src/supervisor.rs, PinSet), when a failing one is given up *)
(* (Breaker), the deploys a brain arms before it exits (ArmedDeploy in     *)
(* holder/src/holder.rs) and the loop of holder/src/main.rs that ties them *)
(* together.  A pin is an open fd: opening a file, even the same one, mints *)
(* a pin that is none of those in use.                                     *)
(*                                                                         *)
(* Abstracted: backoff delays, pids, the manifests of the two execs.  Time *)
(* is a choice: a handshake may time out, a run may outlive the stability  *)
(* horizon, an arm may outlive ARM_AUTO_DISARM.  The brain is any client.  *)
(***************************************************************************)
EXTENDS Naturals, Sequences, FiniteSets

CONSTANTS
  Pin,        \* pinned brain binaries
  NoPin,      \* None
  TripAfter   \* supervisor.rs TRIP_AFTER

ASSUME SupervisorAssumption ==
  /\ NoPin \notin Pin
  /\ TripAfter \in Nat \ {0}

VARIABLES
  st,        \* top (of the loop), serving, migrated, stopped
  cur,       \* PinSet.current; none at the top of the loop is HELD_DOWN
  prev,      \* PinSet.previous
  strikes,   \* Breaker.consecutive_failures
  helloed,   \* Holder.helloed_this_generation
  rehello,   \* Holder.rehello_pending: this generation survived a holder exec
  stable,    \* the run has outlived Breaker.stable_horizon
  armed,     \* Holder.armed_deploy
  upgrade,   \* Holder.pending_upgrade
  log,       \* the last TripAfter generation ends (history)
  discarded  \* the pins given up so far (history)

supVars == <<st, cur, prev, strikes, helloed, rehello, stable, armed, upgrade,
             log, discarded>>
pinVars  == <<cur, prev, strikes, log, discarded>>
runVars  == <<helloed, rehello, stable, upgrade>>

Unarmed == [kind |-> "none", pin |-> NoPin]
Armed(k, p) == [kind |-> k, pin |-> p]

SupTypeOK ==
  /\ st \in {"top", "serving", "migrated", "stopped"}
  /\ cur \in Pin \cup {NoPin}
  /\ prev \in Pin \cup {NoPin}
  /\ strikes \in 0..(TripAfter - 1)
  /\ helloed \in BOOLEAN /\ rehello \in BOOLEAN /\ stable \in BOOLEAN
  /\ armed \in [kind : {"none", "new", "previous", "split"},
                pin : Pin \cup {NoPin}]
  /\ upgrade \in BOOLEAN
  /\ log \in Seq([pin : Pin, out : {"crash", "late", "deploy"}])
  /\ Len(log) <= TripAfter
  /\ discarded \subseteq Pin

\* A fresh boot opens --brain, or starts held down.
SupInit ==
  /\ st = "top"
  /\ cur \in Pin \cup {NoPin}
  /\ prev = NoPin
  /\ strikes = 0
  /\ helloed = FALSE /\ rehello = FALSE /\ stable = FALSE
  /\ armed = Unarmed
  /\ upgrade = FALSE
  /\ log = <<>>
  /\ discarded = {}

-----------------------------------------------------------------------------
(* Pins and strikes.                                                       *)

Minted(p) ==
  /\ p \notin {cur, prev, armed.pin}
  /\ \A k \in 1..Len(log) : log[k].pin # p

Logged(out) ==
  LET l == Append(log, [pin |-> cur, out |-> out])
  IN  IF Len(l) > TripAfter THEN Tail(l) ELSE l

\* PinSet::install_new: the old current is the rollback target.
InstallNew(p) ==
  /\ prev' = cur
  /\ cur' = p
  /\ UNCHANGED discarded

\* PinSet::rollback: the current pin is discarded, never demoted.
MutantRollbackPin == prev' = cur /\ cur' = prev /\ discarded' = discarded \cup {cur}
RollbackPin == prev' = NoPin /\ cur' = prev /\ discarded' = discarded \cup {cur}

\* Breaker::note_failure: a stable run resets before this failure is counted.
Failures(late) == (IF late THEN 0 ELSE strikes) + 1

\* A failing brain: counted, and given up at the third strike, for the previous
\* pin or, without one, to be held down.
MutantTrips(late) == Failures(late) > TripAfter
Trips(late) == Failures(late) >= TripAfter
Fail(late) ==
  /\ log' = Logged(IF late THEN "late" ELSE "crash")
  /\ IF Trips(late)
     THEN strikes' = 0 /\ RollbackPin
     ELSE strikes' = Failures(late) /\ UNCHANGED <<cur, prev, discarded>>

\* Breaker::note_deploy
NoteDeploy == log' = Logged("deploy") /\ strikes' = 0

EndRun(next) == st' = next /\ UNCHANGED runVars

-----------------------------------------------------------------------------
(* The supervisor loop.                                                    *)

HeldDown == st = "top" /\ cur = NoPin

\* A timed retry, or SIGUSR2, opens --brain afresh.
HeldDownRetry(p) ==
  /\ HeldDown
  /\ Minted(p)
  /\ cur' = p
  /\ strikes' = 0
  /\ discarded' = discarded \ {p}
  /\ UNCHANGED <<st, prev, armed, log, runVars>>

SpawnBrain ==
  /\ st = "top" /\ cur # NoPin
  /\ st' = "serving"
  /\ helloed' = FALSE /\ rehello' = FALSE /\ stable' = FALSE /\ upgrade' = FALSE
  /\ UNCHANGED <<pinVars, armed>>

SpawnFails ==
  /\ st = "top" /\ cur # NoPin
  /\ Fail(FALSE)
  /\ UNCHANGED <<st, armed, runVars>>

\* Not in the code: the run outlives the stability horizon.
GrowStable ==
  /\ st = "serving" /\ ~stable
  /\ stable' = TRUE
  /\ UNCHANGED <<st, pinVars, armed, helloed, rehello, upgrade>>

\* The brain's hello, or its answer to a rehello.
Hello ==
  /\ st = "serving" /\ ~helloed
  /\ helloed' = TRUE /\ rehello' = FALSE
  /\ UNCHANGED <<st, pinVars, armed, stable, upgrade>>

\* HelloTimeout, HelloRefused: killed; what is armed stays armed.
HelloFails ==
  /\ st = "serving" /\ ~helloed
  /\ Fail(FALSE)
  /\ EndRun("top")
  /\ UNCHANGED armed

\* Wedged, or a protocol violation: killed; an armed deploy is stale.
Wedged ==
  /\ st = "serving"
  /\ Fail(helloed /\ stable)
  /\ armed' = Unarmed
  /\ EndRun("top")

\* BrainEof: what was armed is carried out; otherwise it was a crash.
BrainExits ==
  /\ st = "serving"
  /\ armed' = Unarmed
  /\ \/ /\ armed.kind = "none"
        /\ Fail(helloed /\ stable)
        /\ EndRun("top")
     \/ /\ armed.kind = "new"
        /\ NoteDeploy
        /\ InstallNew(armed.pin)
        /\ EndRun("top")
     \/ /\ armed.kind = "previous"
        /\ NoteDeploy
        /\ RollbackPin
        /\ EndRun("top")
     \/ /\ armed.kind = "split"    \* the monolith is exec'ed, or it fails
        /\ EndRun("migrated") \/ EndRun("top")
        /\ UNCHANGED pinVars

\* A pending upgrade execs the new holder, which restores pins, strikes and the
\* live brain, or fails: either way this generation is resumed by a rehello.
MutantCarried == 0
Carried == strikes
HolderUpgrade ==
  /\ st = "serving" /\ upgrade
  /\ upgrade' = FALSE /\ helloed' = FALSE /\ rehello' = TRUE /\ stable' = FALSE
  /\ strikes' = Carried
  /\ UNCHANGED <<st, cur, prev, log, discarded, armed>>

\* SIGTERM, wherever the loop is.
Stop ==
  /\ st \in {"top", "serving"}
  /\ EndRun("stopped")
  /\ UNCHANGED <<pinVars, armed>>

-----------------------------------------------------------------------------
(* The verbs that arm.  Refusals change nothing.                           *)

Negotiated == st = "serving" /\ (helloed \/ rehello)
DeployConflict == armed.kind # "none" \/ upgrade

RestartBrain(p) ==
  /\ Negotiated /\ ~DeployConflict
  /\ Minted(p)
  /\ armed' = Armed("new", p)
  /\ discarded' = discarded \ {p}
  /\ UNCHANGED <<st, cur, prev, strikes, log, runVars>>

RollbackBrain ==
  /\ Negotiated /\ ~DeployConflict
  /\ prev # NoPin     \* previous_pin_available, as the loop set it
  /\ armed' = Armed("previous", NoPin)
  /\ UNCHANGED <<st, pinVars, runVars>>

SplitRollback ==
  /\ Negotiated /\ ~DeployConflict
  /\ armed' = Armed("split", NoPin)
  /\ UNCHANGED <<st, pinVars, runVars>>

ReexecHolder ==
  /\ Negotiated /\ ~DeployConflict
  /\ upgrade' = TRUE
  /\ UNCHANGED <<st, pinVars, armed, helloed, rehello, stable>>

CancelPending ==
  /\ Negotiated
  /\ armed' = Unarmed
  /\ UNCHANGED <<st, pinVars, runVars>>

\* The serve loop's timer; it needs no hello.
MutantExpirable == armed.kind \in {"new", "previous"}
Expirable == armed.kind # "none"
AutoDisarm ==
  /\ st = "serving" /\ Expirable
  /\ armed' = Unarmed
  /\ UNCHANGED <<st, pinVars, runVars>>

SupNext ==
  \/ \E p \in Pin : HeldDownRetry(p) \/ RestartBrain(p)
  \/ SpawnBrain \/ SpawnFails
  \/ GrowStable \/ Hello \/ HelloFails \/ Wedged \/ BrainExits
  \/ HolderUpgrade \/ Stop
  \/ RollbackBrain \/ SplitRollback \/ ReexecHolder \/ CancelPending \/ AutoDisarm

SupSpec == SupInit /\ [][SupNext]_supVars

\* The loop keeps going, spawning does not fail for ever, a held-down retry
\* finds the file in the end, and an arm's deadline is absolute: however short
\* the generations, one of them meets it expired.
FairSup ==
  /\ SupSpec
  /\ WF_supVars(\E p \in Pin : HeldDownRetry(p))
  /\ SF_supVars(SpawnBrain)
  /\ SF_supVars(AutoDisarm)

-----------------------------------------------------------------------------
(* Properties.                                                             *)

\* A pin given up, by the breaker or by the operator, never runs again and is
\* never a rollback target (PinSet::rollback: "the pair cannot ping-pong").
NoPingPong == cur \notin discarded /\ prev \notin discarded

\* The strikes against the running pin are the failures of its own last
\* generations, nobody else's, with no stable run and no deploy in between; and
\* none is forgiven: a pin whose last TRIP_AFTER generations failed with no
\* stable run between is given up, holder upgrades or not (restore_failures:
\* "an upgrade can never launder a crash-looping pin's strikes").
StrikesAreExact ==
  /\ \A k \in 1..strikes :
       /\ k <= Len(log)
       /\ LET e == log[Len(log) + 1 - k] IN
          /\ e.pin = cur
          /\ IF k < strikes THEN e.out = "crash" ELSE e.out \in {"crash", "late"}
  /\ Len(log) = TripAfter =>
       \E k \in 1..TripAfter :
         \/ log[k].pin # cur
         \/ log[k].out = "deploy"
         \/ k > 1 /\ log[k].out = "late"

\* HELD_DOWN is the last resort: no rollback target is left behind.
HeldDownIsLast == cur = NoPin => prev = NoPin

\* The holder never execs itself with a deploy armed, which the new image would
\* not know of (deploy_conflict).
UpgradeLosesNoArm == st = "serving" /\ upgrade => armed.kind = "none"

\* Whatever is armed is carried out, cancelled, dropped or expires.
ArmResolves ==
  armed.kind # "none" ~> armed.kind = "none" \/ st \in {"stopped", "migrated"}
=============================================================================
