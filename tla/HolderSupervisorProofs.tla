----------------------- MODULE HolderSupervisorProofs -----------------------
(***************************************************************************)
(* For every set of pins and every strike limit: the supervisor never runs *)
(* a pin it has given up, never holds down while a rollback target is      *)
(* left, and never execs itself with a deploy armed; and the strikes it    *)
(* counts are exactly the failures of the pin that runs.                   *)
(***************************************************************************)
EXTENDS HolderSupervisor, TLAPS

\* What can be armed.
Arms == [kind : {"none", "new", "previous", "split"}, pin : Pin \cup {NoPin}]

\* The part of the type invariant the pins need.
PinTypes ==
  /\ st \in {"top", "serving", "migrated", "stopped"}
  /\ cur \in Pin \cup {NoPin}
  /\ prev \in Pin \cup {NoPin}
  /\ armed \in Arms
  /\ upgrade \in BOOLEAN
  /\ discarded \subseteq Pin

\* A brain runs from a pin, and the two pins are different files.
PinsApart == (st = "serving" => cur # NoPin) /\ (prev # NoPin => prev # cur)

\* The pin of an armed deploy is in no other use.
ArmedIsFresh ==
  armed.kind = "new" => /\ armed.pin \in Pin
                        /\ armed.pin \notin {cur, prev} \cup discarded

SupInv ==
  /\ PinTypes
  /\ PinsApart
  /\ ArmedIsFresh
  /\ NoPingPong
  /\ HeldDownIsLast
  /\ UpgradeLosesNoArm

\* The arms the verbs build are arms.
LEMMA ArmTypes ==
  ASSUME NEW p \in Pin \cup {NoPin}
  PROVE  /\ Unarmed \in Arms /\ Unarmed.kind = "none"
         /\ \A k \in {"none", "new", "previous", "split"} :
              Armed(k, p) \in Arms /\ Armed(k, p).kind = k /\ Armed(k, p).pin = p
  BY DEF Arms, Unarmed, Armed

\* Giving the current pin up, or keeping both pins, keeps them apart from what
\* was given up.
LEMMA FailKeepsPins ==
  ASSUME SupInv, cur # NoPin, NEW late, Fail(late)
  PROVE  \/ UNCHANGED <<cur, prev, discarded>>
         \/ cur' = prev /\ prev' = NoPin /\ discarded' = discarded \cup {cur}
  BY DEF Fail, RollbackPin

\* Every iteration of the supervisor loop keeps the pins apart from what it has
\* given up, and every verb keeps the arms exclusive.
LEMMA SupStep ==
  ASSUME SupInv, [SupNext]_supVars
  PROVE  SupInv'
<1> USE SupervisorAssumption, ArmTypes
    DEF PinTypes, PinsApart, ArmedIsFresh, NoPingPong, HeldDownIsLast, UpgradeLosesNoArm,
        runVars, pinVars, EndRun
<1>1. CASE \E p \in Pin : HeldDownRetry(p)
  BY <1>1 DEF HeldDownRetry, HeldDown, Minted, SupInv
<1>2. CASE \E p \in Pin : RestartBrain(p)
  BY <1>2 DEF RestartBrain, Minted, DeployConflict, SupInv
<1>3. CASE SpawnBrain
  BY <1>3 DEF SpawnBrain, SupInv
<1>4. CASE SpawnFails
  <2>1. \/ UNCHANGED <<cur, prev, discarded>>
        \/ cur' = prev /\ prev' = NoPin /\ discarded' = discarded \cup {cur}
    BY <1>4, FailKeepsPins DEF SpawnFails
  <2> QED BY <1>4, <2>1 DEF SpawnFails, SupInv
<1>5. CASE GrowStable \/ Hello
  BY <1>5 DEF GrowStable, Hello, SupInv
<1>6. CASE HelloFails
  <2>1. \/ UNCHANGED <<cur, prev, discarded>>
        \/ cur' = prev /\ prev' = NoPin /\ discarded' = discarded \cup {cur}
    BY <1>6, FailKeepsPins DEF HelloFails, SupInv
  <2>2. /\ armed' \in Arms /\ armed'.kind = armed.kind /\ armed'.pin = armed.pin
        /\ st' = "top" /\ UNCHANGED upgrade /\ st = "serving"
    BY <1>6 DEF HelloFails, SupInv
  <2> QED BY <2>1, <2>2 DEF SupInv
<1>7. CASE Wedged
  BY <1>7, FailKeepsPins DEF Wedged, SupInv
<1>8. CASE BrainExits
  <2>1. CASE Fail(helloed /\ stable) /\ EndRun("top")
    BY <1>8, <2>1, FailKeepsPins DEF BrainExits, SupInv
  <2>2. CASE armed.kind = "new" /\ InstallNew(armed.pin) /\ EndRun("top")
    BY <1>8, <2>2 DEF BrainExits, InstallNew, SupInv
  <2>3. CASE RollbackPin /\ EndRun("top")
    BY <1>8, <2>3 DEF BrainExits, RollbackPin, SupInv
  <2>4. CASE UNCHANGED pinVars /\ (EndRun("migrated") \/ EndRun("top"))
    BY <1>8, <2>4 DEF BrainExits, SupInv
  <2> QED BY <1>8, <2>1, <2>2, <2>3, <2>4 DEF BrainExits
<1>9. CASE HolderUpgrade
  BY <1>9 DEF HolderUpgrade, SupInv
<1>10. CASE Stop
  BY <1>10 DEF Stop, SupInv
<1>11. CASE RollbackBrain \/ SplitRollback
  BY <1>11 DEF RollbackBrain, SplitRollback, DeployConflict, SupInv
<1>12. CASE ReexecHolder
  BY <1>12 DEF ReexecHolder, DeployConflict, SupInv
<1>13. CASE CancelPending \/ AutoDisarm
  BY <1>13 DEF CancelPending, AutoDisarm, SupInv
<1>14. CASE UNCHANGED supVars
  BY <1>14 DEF supVars, SupInv
<1> QED
  BY <1>1, <1>2, <1>3, <1>4, <1>5, <1>6, <1>7, <1>8, <1>9, <1>10, <1>11, <1>12,
     <1>13, <1>14
  DEF SupNext

\* SupInv holds throughout: the invariant the three theorems rest on.
LEMMA SupInvariant == SupSpec => []SupInv
<1>1. SupInit => SupInv
  BY SupervisorAssumption, ArmTypes
  DEF SupInit, SupInv, PinTypes, PinsApart, ArmedIsFresh, NoPingPong, HeldDownIsLast,
      UpgradeLosesNoArm
<1>2. SupInv /\ [SupNext]_supVars => SupInv'
  BY SupStep
<1> QED BY <1>1, <1>2, PTL DEF SupSpec

\* The pin pair cannot ping-pong: what the breaker or the operator gave up never
\* runs again and is never a rollback target, unless it is opened afresh.
THEOREM PingPongSafe == SupSpec => []NoPingPong
<1>1. SupInv => NoPingPong
  BY DEF SupInv
<1> QED BY <1>1, SupInvariant, PTL

\* HELD_DOWN is entered with no rollback target left.
THEOREM HeldDownSafe == SupSpec => []HeldDownIsLast
<1>1. SupInv => HeldDownIsLast
  BY DEF SupInv
<1> QED BY <1>1, SupInvariant, PTL

\* No deploy is armed while a holder upgrade is in flight, so none is lost
\* across the exec.
THEOREM UpgradeSafe == SupSpec => []UpgradeLosesNoArm
<1>1. SupInv => UpgradeLosesNoArm
  BY DEF SupInv
<1> QED BY <1>1, SupInvariant, PTL

-----------------------------------------------------------------------------
(* The strikes.                                                            *)

\* A generation's end, as the history keeps it.
Ends == [pin : Pin, out : {"crash", "late", "deploy"}]

\* The age-th newest end.
Aged(l, age) == l[Len(l) + 1 - age]

\* The rest of SupTypeOK.
StrikeTypes ==
  /\ strikes \in 0..(TripAfter - 1)
  /\ helloed \in BOOLEAN /\ rehello \in BOOLEAN /\ stable \in BOOLEAN
  /\ log \in Seq(Ends)
  /\ Len(log) <= TripAfter

\* What is counted is the running pin's, crash upon crash back to the oldest.
CountedAreOwn ==
  /\ strikes <= Len(log)
  /\ \A k \in 1..strikes :
       /\ Aged(log, k).pin = cur
       /\ IF k < strikes THEN Aged(log, k).out = "crash"
                         ELSE Aged(log, k).out \in {"crash", "late"}

\* And the count stops there for a reason: there is nothing older, or the next
\* end is another pin's or a deploy, or the oldest counted one ended a stable run.
CountIsMaximal ==
  strikes < Len(log) =>
    \/ Aged(log, strikes + 1).pin # cur
    \/ Aged(log, strikes + 1).out = "deploy"
    \/ strikes > 0 /\ Aged(log, strikes).out = "late"

StrikeInv == StrikeTypes /\ CountedAreOwn /\ CountIsMaximal

\* The history after one more end: it is the newest, the others are one older,
\* and it never grows past TripAfter.
LEMMA LoggedEffect ==
  ASSUME StrikeTypes, cur \in Pin, NEW out \in {"crash", "late", "deploy"}
  PROVE  /\ Logged(out) \in Seq(Ends)
         /\ Len(Logged(out)) = IF Len(log) < TripAfter THEN Len(log) + 1 ELSE TripAfter
         /\ Aged(Logged(out), 1) = [pin |-> cur, out |-> out]
         /\ \A k \in 2..Len(Logged(out)) : Aged(Logged(out), k) = Aged(log, k - 1)
<1> DEFINE e == [pin |-> cur, out |-> out]
           l == Append(log, e)
<1>1. e \in Ends
  BY DEF Ends
<1>2. /\ log \in Seq(Ends) /\ Len(log) \in Nat /\ Len(log) <= TripAfter
      /\ TripAfter \in Nat
  BY SupervisorAssumption DEF StrikeTypes
<1> HIDE DEF e
<1>3. /\ l \in Seq(Ends) /\ Len(l) = Len(log) + 1 /\ l[Len(log) + 1] = e
      /\ \A j \in 1..Len(log) : l[j] = log[j]
  BY <1>1, <1>2
<1> HIDE DEF l
<1>4. Logged(out) = IF Len(l) > TripAfter THEN Tail(l) ELSE l
  BY DEF Logged, l, e
<1>5. CASE Len(log) < TripAfter
  BY <1>2, <1>3, <1>4, <1>5 DEF Aged, e
<1>6. CASE Len(log) = TripAfter
  <2>1. Logged(out) = Tail(l) /\ l # <<>>
    BY <1>2, <1>3, <1>4, <1>6
  <2>2. /\ Tail(l) \in Seq(Ends) /\ Len(Tail(l)) = Len(log)
        /\ \A j \in 1..Len(log) : Tail(l)[j] = l[j + 1]
    BY <1>2, <1>3, <2>1
  <2> QED BY <1>2, <1>3, <1>6, <2>1, <2>2, SupervisorAssumption DEF Aged, e
<1> QED BY <1>2, <1>5, <1>6

\* A failure is counted, or gives the pin up and starts from nothing.
LEMMA FailCounts ==
  ASSUME SupInv, StrikeInv, cur # NoPin, NEW late \in BOOLEAN, Fail(late),
         UNCHANGED <<helloed, rehello, stable>>
  PROVE  StrikeInv'
<1> DEFINE out == IF late THEN "late" ELSE "crash"
           n == IF late THEN 1 ELSE strikes + 1
<1> USE SupervisorAssumption
<1>1. cur \in Pin /\ StrikeTypes /\ CountedAreOwn /\ CountIsMaximal
  BY DEF SupInv, PinTypes, StrikeInv
<1>2. out \in {"crash", "late", "deploy"} /\ log' = Logged(out)
  BY DEF Fail
<1> HIDE DEF out
<1>3. /\ log' \in Seq(Ends) /\ Len(log') \in Nat
      /\ Len(log') = IF Len(log) < TripAfter THEN Len(log) + 1 ELSE TripAfter
      /\ Aged(log', 1).pin = cur /\ Aged(log', 1).out = out
      /\ \A k \in 2..Len(log') : Aged(log', k) = Aged(log, k - 1)
  BY <1>1, <1>2, LoggedEffect
<1>4. /\ strikes \in Nat /\ strikes < TripAfter /\ Len(log) \in Nat
      /\ Len(log) <= TripAfter /\ n = Failures(late) /\ strikes <= Len(log)
  BY <1>1 DEF StrikeTypes, CountedAreOwn, Failures
<1>5. CASE Trips(late)
  <2>1. strikes' = 0 /\ cur' = prev
    BY <1>5 DEF Fail, RollbackPin
  <2>2. cur # cur'
    BY <1>1, <2>1 DEF SupInv, PinsApart
  <2>3. StrikeTypes'
    BY <1>1, <1>3, <1>4, <2>1 DEF StrikeTypes
  <2> QED BY <1>3, <1>4, <2>1, <2>2, <2>3 DEF StrikeInv, CountedAreOwn, CountIsMaximal
<1>6. CASE ~Trips(late)
  <2>1. strikes' = n /\ cur' = cur /\ n < TripAfter
    BY <1>4, <1>6 DEF Fail, Trips
  <2>2. StrikeTypes'
    BY <1>1, <1>3, <1>4, <2>1 DEF StrikeTypes
  <2>3. CASE late
    <3>1. out = "late" /\ strikes' = 1
      BY <2>1, <2>3 DEF out
    <3> QED BY <1>3, <1>4, <2>1, <2>2, <3>1 DEF StrikeInv, CountedAreOwn, CountIsMaximal
  <2>4. CASE ~late
    <3>1. out = "crash" /\ strikes' = strikes + 1
      BY <2>1, <2>4 DEF out
    <3>2. CountedAreOwn'
      <4>1. strikes' <= Len(log')
        BY <1>3, <1>4, <2>1, <3>1
      <4>2. ASSUME NEW k \in 1..strikes'
            PROVE  /\ Aged(log', k).pin = cur
                   /\ IF k < strikes' THEN Aged(log', k).out = "crash"
                                      ELSE Aged(log', k).out \in {"crash", "late"}
        <5>1. CASE k = 1
          BY <1>3, <3>1, <5>1
        <5>2. CASE k > 1
          <6>1. Aged(log', k) = Aged(log, k - 1) /\ k - 1 \in 1..strikes
            BY <1>3, <1>4, <3>1, <4>1, <4>2, <5>2
          <6> QED BY <1>1, <1>4, <3>1, <6>1 DEF CountedAreOwn
        <5> QED BY <1>4, <3>1, <4>2, <5>1, <5>2
      <4> QED BY <2>1, <4>1, <4>2 DEF CountedAreOwn
    <3>3. CountIsMaximal'
      <4> SUFFICES ASSUME strikes' < Len(log')
                   PROVE  \/ Aged(log', strikes' + 1).pin # cur'
                          \/ Aged(log', strikes' + 1).out = "deploy"
                          \/ strikes' > 0 /\ Aged(log', strikes').out = "late"
        BY DEF CountIsMaximal
      <4>1. strikes < Len(log) /\ Aged(log', strikes' + 1) = Aged(log, strikes + 1)
        BY <1>3, <1>4, <3>1
      <4>2. strikes > 0 => Aged(log', strikes') = Aged(log, strikes)
        BY <1>3, <1>4, <3>1
      <4> QED BY <1>1, <1>4, <2>1, <3>1, <4>1, <4>2 DEF CountIsMaximal
    <3> QED BY <2>2, <3>2, <3>3 DEF StrikeInv
  <2> QED BY <2>3, <2>4
<1> QED BY <1>5, <1>6

\* A deploy ends the count.
LEMMA DeployCounts ==
  ASSUME SupInv, StrikeInv, cur # NoPin, NoteDeploy,
         UNCHANGED <<helloed, rehello, stable>>
  PROVE  StrikeInv'
<1> USE SupervisorAssumption
<1>1. cur \in Pin /\ StrikeTypes
  BY DEF SupInv, PinTypes, StrikeInv
<1>2. /\ log' \in Seq(Ends) /\ Len(log') \in Nat
      /\ Len(log') = IF Len(log) < TripAfter THEN Len(log) + 1 ELSE TripAfter
      /\ Aged(log', 1).out = "deploy"
  BY <1>1, LoggedEffect DEF NoteDeploy
<1>3. strikes' = 0
  BY DEF NoteDeploy
<1>4. StrikeTypes'
  BY <1>1, <1>2, <1>3 DEF StrikeTypes
<1> QED BY <1>2, <1>3, <1>4 DEF StrikeInv, CountedAreOwn, CountIsMaximal

\* Every step keeps the count exact.
LEMMA StrikeStep ==
  ASSUME SupInv, StrikeInv, [SupNext]_supVars
  PROVE  StrikeInv'
<1>1. ASSUME UNCHANGED <<cur, strikes, log>>,
             (helloed \in BOOLEAN /\ rehello \in BOOLEAN /\ stable \in BOOLEAN)'
      PROVE  StrikeInv'
  BY <1>1 DEF StrikeInv, StrikeTypes, CountedAreOwn, CountIsMaximal
<1>2. helloed \in BOOLEAN /\ rehello \in BOOLEAN /\ stable \in BOOLEAN
  BY DEF StrikeInv, StrikeTypes
<1>3. ASSUME NEW p \in Pin, HeldDownRetry(p) PROVE StrikeInv'
  <2>1. /\ strikes' = 0 /\ cur' = p
        /\ UNCHANGED <<log, helloed, rehello, stable>>
    BY <1>3 DEF HeldDownRetry, runVars
  <2>2. Len(log) \in Nat /\ \A k \in 1..Len(log) : log[k].pin # p
    BY <1>3 DEF HeldDownRetry, Minted, StrikeInv, StrikeTypes
  <2> QED BY <2>1, <2>2, SupervisorAssumption
          DEF StrikeInv, StrikeTypes, CountedAreOwn, CountIsMaximal, Aged
<1>4. CASE SpawnFails
  BY <1>4, FailCounts DEF SpawnFails, runVars
<1>5. CASE HelloFails
  BY <1>5, FailCounts DEF HelloFails, EndRun, runVars, SupInv, PinsApart
<1>6. CASE Wedged
  BY <1>2, <1>6, FailCounts DEF Wedged, EndRun, runVars, SupInv, PinsApart
<1>7. CASE BrainExits
  <2>1. cur # NoPin /\ UNCHANGED <<helloed, rehello, stable>>
    BY <1>7 DEF BrainExits, EndRun, runVars, SupInv, PinsApart
  <2>2. CASE Fail(helloed /\ stable)
    BY <1>2, <2>1, <2>2, FailCounts
  <2>3. CASE NoteDeploy
    BY <2>1, <2>3, DeployCounts
  <2>4. CASE UNCHANGED pinVars
    BY <1>1, <1>2, <2>1, <2>4 DEF pinVars
  <2> QED BY <1>7, <2>2, <2>3, <2>4 DEF BrainExits
<1>8. CASE HolderUpgrade
  BY <1>1, <1>2, <1>8 DEF HolderUpgrade, Carried
<1>9. CASE SpawnBrain \/ GrowStable \/ Hello \/ Stop
  BY <1>1, <1>2, <1>9 DEF SpawnBrain, GrowStable, Hello, Stop, EndRun, pinVars, runVars
<1>10. CASE \/ \E p \in Pin : RestartBrain(p)
            \/ RollbackBrain \/ SplitRollback \/ ReexecHolder \/ CancelPending \/ AutoDisarm
  BY <1>1, <1>2, <1>10
  DEF RestartBrain, RollbackBrain, SplitRollback, ReexecHolder, CancelPending,
      AutoDisarm, pinVars, runVars
<1>11. CASE UNCHANGED supVars
  BY <1>1, <1>2, <1>11 DEF supVars
<1> QED
  BY <1>3, <1>4, <1>5, <1>6, <1>7, <1>8, <1>9, <1>10, <1>11 DEF SupNext

\* StrikeInv holds throughout.
LEMMA StrikeInvariant == SupSpec => []StrikeInv
<1>1. ASSUME SupInit PROVE StrikeInv
  <2>1. /\ strikes = 0 /\ log = <<>> /\ Len(log) = 0 /\ log \in Seq(Ends)
        /\ helloed \in BOOLEAN /\ rehello \in BOOLEAN /\ stable \in BOOLEAN
    <3>1. <<>> \in Seq(Ends) /\ Len(<<>>) = 0
      OBVIOUS
    <3>2. log = <<>> /\ strikes = 0 /\ helloed = FALSE /\ rehello = FALSE /\ stable = FALSE
      BY <1>1 DEF SupInit
    <3> QED BY <3>1, <3>2
  <2> QED BY <2>1, SupervisorAssumption
          DEF StrikeInv, StrikeTypes, CountedAreOwn, CountIsMaximal
<1>2. SupInv /\ StrikeInv /\ [SupNext]_supVars => StrikeInv'
  BY StrikeStep
<1> QED BY <1>1, <1>2, SupInvariant, PTL DEF SupSpec

\* Pins, strikes, arms and the history keep their types.
THEOREM SupTypeCorrect == SupSpec => []SupTypeOK
<1>1. SupInv /\ StrikeInv => SupTypeOK
  BY DEF SupInv, PinTypes, StrikeInv, StrikeTypes, SupTypeOK, Arms, Ends
<1> QED BY <1>1, SupInvariant, StrikeInvariant, PTL

\* The strikes against the running pin are its own, and none is forgiven.
THEOREM StrikesSafe == SupSpec => []StrikesAreExact
<1>1. ASSUME StrikeInv PROVE StrikesAreExact
  <2> USE SupervisorAssumption
  <2>1. /\ strikes \in Nat /\ strikes < TripAfter /\ Len(log) \in Nat
        /\ strikes <= Len(log)
    BY <1>1 DEF StrikeInv, StrikeTypes, CountedAreOwn
  <2>2. ASSUME Len(log) = TripAfter
        PROVE  \E k \in 1..TripAfter :
                 log[k].pin # cur \/ log[k].out = "deploy" \/ (k > 1 /\ log[k].out = "late")
    <3>1. Len(log) - strikes \in 1..TripAfter /\ strikes < Len(log)
      BY <2>1, <2>2
    <3>2. \/ log[Len(log) - strikes].pin # cur
          \/ log[Len(log) - strikes].out = "deploy"
          \/ strikes > 0 /\ log[Len(log) + 1 - strikes].out = "late"
      BY <1>1, <2>1, <3>1 DEF StrikeInv, CountIsMaximal, Aged
    <3>3. strikes > 0 => /\ Len(log) + 1 - strikes \in 1..TripAfter
                         /\ Len(log) + 1 - strikes > 1
      BY <2>1, <2>2
    <3> QED BY <3>1, <3>2, <3>3
  <2> QED BY <1>1, <2>1, <2>2 DEF StrikeInv, CountedAreOwn, Aged, StrikesAreExact
<1> QED BY <1>1, StrikeInvariant, PTL
=============================================================================
