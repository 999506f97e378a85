-------------------------- MODULE HolderTableProofs --------------------------
(***************************************************************************)
(* For every set of uids, every number of incarnations, generations and    *)
(* frames, and every client: the safety of the holder's session table.     *)
(***************************************************************************)
EXTENDS HolderTable, FiniteSetTheorems, TLAPS

\* An incarnation not minted yet has no child.
Fresh == \A i \in Inc : i >= nextInc => child[i] = "unborn"

\* A uid that is not held keeps no trace of an earlier session.
Blank == \A u \in Uid : ~Held(u) => ~sess[u].latched /\ sess[u].exit = "none"

\* A latched exit is one nobody has waited for, and while the loop runs
\* something is still to come that will look at it.
LatchedSound ==
  \A u \in Uid : sess[u].latched =>
    /\ sess[u].exit = "none"
    /\ child[sess[u].inc] = "zombie"
    /\ Serving => ~sess[u].armed \/ ~sess[u].ready \/ split

\* Nothing is in flight to a brain that is not there.
OnlyOpenTalks == chan # "open" => toBrain = <<>>

\* What EventsAreTrue says of one frame.
TrueFrame(f) ==
  f.verb = "exit_event" =>
    /\ f.inc \in Inc /\ child[f.inc] = "reaped"
    /\ sess[f.uid].inc = f.inc => sess[f.uid].ready /\ sess[f.uid].exit # "none"

-----------------------------------------------------------------------------
(* Lemmas about the operators the handlers are built from.                 *)

\* A frame of a concatenation comes from one of its parts (the outbound queue
\* grows only by push_frame at its end).
LEMMA ConcatType ==
  ASSUME NEW S, NEW s \in Seq(S), NEW t \in Seq(S)
  PROVE  s \o t \in Seq(S)
  OBVIOUS

\* Every frame of a longer queue was in one of the two parts.
LEMMA ConcatElements ==
  ASSUME NEW S, NEW s \in Seq(S), NEW t \in Seq(S), NEW k \in 1..Len(s \o t)
  PROVE  \/ k \in 1..Len(s) /\ (s \o t)[k] = s[k]
         \/ \E j \in 1..Len(t) : (s \o t)[k] = t[j]
  OBVIOUS

\* An empty queue has every element type.
LEMMA EmptySeq ==
  ASSUME NEW S
  PROVE  <<>> \in Seq(S)
  OBVIOUS

\* One or two frames are a sequence of frames (what the handlers push).
LEMMA ShortSeq ==
  ASSUME NEW S, NEW x \in S, NEW y \in S
  PROVE  <<x>> \in Seq(S) /\ <<x, y>> \in Seq(S)
  OBVIOUS

\* The elements of a queue of one or two frames.
LEMMA ShortElements ==
  ASSUME NEW x, NEW y, NEW f
  PROVE  /\ (\E j \in 1..Len(<<x>>) : f = <<x>>[j]) => f = x
         /\ (\E j \in 1..Len(<<x, y>>) : f = <<x, y>>[j]) => f = x \/ f = y
  OBVIOUS

\* The events of a sweep are frames, one for each announced uid
\* (sweep_latched_exits_into).
LEMMA SweepOrders ==
  ASSUME TypeOK, NEW o \in Orders(Announced)
  PROVE  /\ Events(o) \in Seq(Frame)
         /\ \A j \in 1..Len(Events(o)) :
              \E u \in Announced : Events(o)[j] = ExitEvent(u)
<1>1. /\ Announced \subseteq Uid
      /\ IsFiniteSet(Announced)
      /\ Cardinality(Announced) \in Nat
  BY FS_Subset, FS_CardinalityType, TableAssumption DEF Announced, Sweepable
<1>2. o \in [1..Cardinality(Announced) -> Announced]
  BY DEF Orders
<1>3. \A u \in Uid : ExitEvent(u) \in Frame
  BY DEF ExitEvent, Frame, TypeOK, Entry
<1>4. Events(o) \in [1..Cardinality(Announced) -> Frame]
  BY <1>1, <1>2, <1>3 DEF Events
<1>5. /\ Events(o) \in Seq(Frame)
      /\ Len(Events(o)) = Cardinality(Announced)
  BY <1>1, <1>4
<1> QED BY <1>1, <1>2, <1>5 DEF Events

-----------------------------------------------------------------------------
(* Type correctness.                                                       *)

\* A handler reads a well-formed request, and its replies are frames.
LEMMA DispatchType ==
  ASSUME TypeOK, NEW v, Dispatch(v)
  PROVE  /\ Head(toHolder) \in Request
         /\ toHolder' \in Seq(Request)
         /\ Head(toHolder).uid \in Uid
         /\ \A i \in 0..MaxInc, b \in BOOLEAN : Reply(Head(toHolder), i, b) \in Frame
<1>1. Head(toHolder) \in Request /\ toHolder' \in Seq(Request)
  BY DEF TypeOK, Dispatch
<1> QED BY <1>1 DEF Request, Frame, Reply

\* What a push leaves in the outbound queue, which grows at its end only.
LEMMA PushType ==
  ASSUME TypeOK, NEW s \in Seq(Frame), Push(s)
  PROVE  toBrain' \in Seq(Frame)
  BY DEF TypeOK, Push

\* The exit event of a held session is a frame of the channel.
LEMMA ExitEventType ==
  ASSUME TypeOK, NEW u \in Uid
  PROVE  ExitEvent(u) \in Frame
  BY DEF ExitEvent, Frame, TypeOK, Entry

\* A sweep keeps the two tables in their types.
LEMMA SweepType ==
  ASSUME TypeOK, Sweep
  PROVE  sess' \in [Uid -> Entry] /\ child' \in [Inc -> {"unborn", "running", "zombie", "reaped"}]
  BY DEF TypeOK, Sweep, Consumed, Entry

\* Every step of the holder, the kernel or the client keeps every variable in
\* its type.
LEMMA TypeStep ==
  ASSUME TypeOK, [Next]_tableVars
  PROVE  TypeOK'
<1> DEFINE m == Head(toHolder)
<1>1. CASE HandleSpawnOk
  <2>1. Dispatch("spawn") /\ nextInc \in 0..MaxInc
    BY <1>1, TableAssumption DEF HandleSpawnOk, TypeOK
  <2>2. /\ m.uid \in Uid /\ toHolder' \in Seq(Request)
        /\ <<Reply(m, nextInc, TRUE)>> \in Seq(Frame)
    BY <2>1, DispatchType, ShortSeq
  <2>3. toBrain' \in Seq(Frame)
    BY <1>1, <2>2, PushType DEF HandleSpawnOk
  <2>4. Spawned(nextInc) \in Entry
    BY <2>1 DEF Spawned, NoEntry, Entry
  <2> QED BY <1>1, <2>2, <2>3, <2>4, TableAssumption DEF HandleSpawnOk, TypeOK, Inc
<1>2. CASE HandleSpawnErr
  <2>1. Dispatch("spawn") /\ 0 \in 0..MaxInc
    BY <1>2, TableAssumption DEF HandleSpawnErr
  <2>2. toHolder' \in Seq(Request) /\ <<Reply(m, 0, FALSE)>> \in Seq(Frame)
    BY <2>1, DispatchType, ShortSeq
  <2>3. toBrain' \in Seq(Frame)
    BY <1>2, <2>2, PushType DEF HandleSpawnErr, Refuse
  <2> QED BY <1>2, <2>2, <2>3 DEF HandleSpawnErr, TypeOK, holderVars
<1>3. CASE HandleSpawnTorn
  <2>1. Dispatch("spawn") /\ 0 \in 0..MaxInc
    BY <1>3, TableAssumption DEF HandleSpawnTorn
  <2>2. toHolder' \in Seq(Request) /\ <<Reply(m, 0, FALSE)>> \in Seq(Frame)
    BY <2>1, DispatchType, ShortSeq
  <2>3. toBrain' \in Seq(Frame)
    BY <1>3, <2>2, PushType DEF HandleSpawnTorn, Refuse
  <2> QED BY <1>3, <2>2, <2>3, TableAssumption DEF HandleSpawnTorn, TypeOK, Inc
<1>4. CASE HandleArmReap
  <2> DEFINE e == [sess[m.uid] EXCEPT !.armed = TRUE, !.ready = TRUE]
  <2>1. Dispatch("arm_reap") /\ 0 \in 0..MaxInc
    BY <1>4, TableAssumption DEF HandleArmReap
  <2>2. /\ m.uid \in Uid /\ m.inc \in 0..MaxInc /\ toHolder' \in Seq(Request)
    BY <2>1, DispatchType DEF Request
  <2>3. /\ <<Reply(m, 0, FALSE)>> \in Seq(Frame)
        /\ <<Reply(m, m.inc, TRUE)>> \in Seq(Frame)
        /\ <<Reply(m, m.inc, TRUE), ExitEvent(m.uid)>> \in Seq(Frame)
    <3>1. /\ Reply(m, 0, FALSE) \in Frame /\ Reply(m, m.inc, TRUE) \in Frame
          /\ ExitEvent(m.uid) \in Frame
      BY <2>1, <2>2, DispatchType, ExitEventType
    <3> QED BY <3>1, ShortSeq
  <2>4. toBrain' \in Seq(Frame)
    BY <1>4, <2>3, PushType DEF HandleArmReap, Refuse
  <2>5. sess[m.uid] \in Entry
    BY <2>2 DEF TypeOK
  <2>6. e \in Entry /\ Consumed(e) \in Entry
    BY <2>5 DEF Entry, Consumed
  <2>7. sess' \in [Uid -> Entry] /\ child' \in [Inc -> {"unborn", "running", "zombie", "reaped"}]
    BY <1>4, <2>2, <2>6 DEF HandleArmReap, TypeOK
  <2> QED BY <1>4, <2>2, <2>4, <2>7 DEF HandleArmReap, TypeOK
<1>5. CASE HandleAbortSpawn
  <2>1. Dispatch("abort_spawn") /\ 0 \in 0..MaxInc
    BY <1>5, TableAssumption DEF HandleAbortSpawn
  <2>2. /\ m.uid \in Uid /\ m.inc \in 0..MaxInc /\ toHolder' \in Seq(Request)
    BY <2>1, DispatchType DEF Request
  <2>3. /\ <<Reply(m, 0, FALSE)>> \in Seq(Frame) /\ <<Reply(m, m.inc, TRUE)>> \in Seq(Frame)
    BY <2>1, <2>2, DispatchType, ShortSeq
  <2>4. toBrain' \in Seq(Frame)
    BY <1>5, <2>3, PushType DEF HandleAbortSpawn, Refuse
  <2>5. NoEntry \in Entry
    BY TableAssumption DEF NoEntry, Entry
  <2> QED BY <1>5, <2>2, <2>4, <2>5 DEF HandleAbortSpawn, TypeOK
<1>6. CASE HandleAckExit
  <2>1. Dispatch("ack_exit")
    BY <1>6 DEF HandleAckExit
  <2>2. /\ m.uid \in Uid /\ m.inc \in 0..MaxInc /\ toHolder' \in Seq(Request)
    BY <2>1, DispatchType DEF Request
  <2>3. <<Reply(m, m.inc, TRUE)>> \in Seq(Frame)
    BY <2>1, <2>2, DispatchType, ShortSeq
  <2>4. toBrain' \in Seq(Frame)
    BY <1>6, <2>3, PushType DEF HandleAckExit
  <2>5. sess' \in [Uid -> Entry]
    BY <1>6, <2>2 DEF HandleAckExit, TypeOK, Entry
  <2> QED BY <1>6, <2>2, <2>4, <2>5 DEF HandleAckExit, TypeOK
<1>7. CASE HandleForget
  <2>1. Dispatch("forget") /\ 0 \in 0..MaxInc
    BY <1>7, TableAssumption DEF HandleForget
  <2>2. /\ m.uid \in Uid /\ m.inc \in 0..MaxInc /\ toHolder' \in Seq(Request)
    BY <2>1, DispatchType DEF Request
  <2>3. /\ <<Reply(m, 0, FALSE)>> \in Seq(Frame) /\ <<Reply(m, m.inc, TRUE)>> \in Seq(Frame)
    BY <2>1, <2>2, DispatchType, ShortSeq
  <2>4. toBrain' \in Seq(Frame)
    BY <1>7, <2>3, PushType DEF HandleForget, Refuse
  <2>5. NoEntry \in Entry
    BY TableAssumption DEF NoEntry, Entry
  <2> QED BY <1>7, <2>2, <2>4, <2>5 DEF HandleForget, TypeOK
<1>8. CASE HandleSplitRollback
  <2>1. Dispatch("split_rollback") /\ 0 \in 0..MaxInc
    BY <1>8, TableAssumption DEF HandleSplitRollback
  <2>2. /\ toHolder' \in Seq(Request)
        /\ <<Reply(m, 0, FALSE)>> \in Seq(Frame) /\ <<Reply(m, 0, TRUE)>> \in Seq(Frame)
    BY <2>1, DispatchType, ShortSeq
  <2>3. toBrain' \in Seq(Frame)
    BY <1>8, <2>2, PushType DEF HandleSplitRollback, Refuse
  <2> QED BY <1>8, <2>2, <2>3 DEF HandleSplitRollback, TypeOK
<1>9. CASE HandleCancelPending
  <2>1. Dispatch("cancel_pending") /\ Sweep /\ 0 \in 0..MaxInc
    BY <1>9, TableAssumption DEF HandleCancelPending
  <2>2. toHolder' \in Seq(Request) /\ <<Reply(m, 0, TRUE)>> \in Seq(Frame)
    BY <2>1, DispatchType, ShortSeq
  <2>3. PICK o \in Orders(Announced) : Push(Events(o) \o <<Reply(m, 0, TRUE)>>)
    BY <1>9 DEF HandleCancelPending
  <2>4. Events(o) \o <<Reply(m, 0, TRUE)>> \in Seq(Frame)
    <3>1. Events(o) \in Seq(Frame)
      BY <2>3, SweepOrders
    <3> QED BY <2>2, <3>1, ConcatType
  <2>5. toBrain' \in Seq(Frame)
    BY <2>3, <2>4, PushType
  <2> QED BY <1>9, <2>1, <2>2, <2>5, SweepType DEF HandleCancelPending, TypeOK
<1>10. CASE \E u \in Uid : SeeExit(u)
  <2>1. PICK u \in Uid : SeeExit(u)
    BY <1>10
  <2>2. toBrain' \in Seq(Frame)
    BY <2>1, PushType, ExitEventType, ShortSeq DEF SeeExit, TypeOK
  <2>3. Consumed(sess[u]) \in Entry /\ [sess[u] EXCEPT !.latched = TRUE] \in Entry
    BY DEF TypeOK, Entry, Consumed
  <2> QED BY <2>1, <2>2, <2>3 DEF SeeExit, TypeOK
<1>11. CASE AutoDisarm
  <2>1. PICK o \in Orders(Announced) : Push(Events(o))
    BY <1>11 DEF AutoDisarm
  <2>2. toBrain' \in Seq(Frame)
    BY <2>1, SweepOrders, PushType
  <2> QED BY <1>11, <2>2, SweepType DEF AutoDisarm, TypeOK
<1>12. CASE Serve
  <2>1. \A e \in Entry : Unready(e) \in Entry
    BY DEF Unready, Entry
  <2>2. epoch' \in 0..MaxEpoch
    BY <1>12, TableAssumption DEF Serve, TypeOK
  <2> QED BY <1>12, <2>1, <2>2 DEF Serve, TypeOK
<1>13. CASE BrainEof
  <2>1. toHolder' \in Seq(Request)
    BY <1>13, EmptySeq DEF BrainEof
  <2>2. CASE Sweep
    BY <1>13, <2>1, <2>2, SweepType DEF BrainEof, TypeOK
  <2>3. CASE UNCHANGED <<sess, child>>
    BY <1>13, <2>1, <2>3 DEF BrainEof, TypeOK
  <2> QED BY <1>13, <2>2, <2>3 DEF BrainEof
<1>14. CASE WatchdogKill
  BY <1>14, EmptySeq DEF WatchdogKill, TypeOK
<1>15. CASE Shutdown
  <2>1. NoEntry \in Entry
    BY TableAssumption DEF NoEntry, Entry
  <2>2. <<>> \in Seq(Request) /\ <<>> \in Seq(Frame)
    BY EmptySeq
  <2> QED BY <1>15, <2>1, <2>2 DEF Shutdown, TypeOK
<1>16. CASE \E i \in Inc : ChildExits(i)
  BY <1>16 DEF ChildExits, TypeOK
<1>17. CASE BrainDies
  BY <1>17, EmptySeq DEF BrainDies, TypeOK
<1>18. CASE \E r \in Request : AnySend(r)
  BY <1>18 DEF AnySend, TypeOK, holderVars
<1>19. CASE AnyReceive
  BY <1>19 DEF AnyReceive, TypeOK, holderVars
<1>20. CASE UNCHANGED tableVars
  BY <1>20 DEF TypeOK, tableVars
<1> QED
  BY <1>1, <1>2, <1>3, <1>4, <1>5, <1>6, <1>7, <1>8, <1>9, <1>10, <1>11, <1>12,
     <1>13, <1>14, <1>15, <1>16, <1>17, <1>18, <1>19, <1>20
  DEF Next, HolderDispatch, HolderLoop

\* The holder starts with an empty table.
LEMMA TypeInit == Init => TypeOK
<1>1. NoEntry \in Entry /\ 1 \in 1..(MaxInc + 1) /\ 0 \in 0..MaxEpoch
  BY TableAssumption DEF NoEntry, Entry
<1>2. <<>> \in Seq(Request) /\ <<>> \in Seq(Frame)
  BY EmptySeq
<1> QED BY <1>1, <1>2 DEF Init, TypeOK

\* Type correctness of the session table and its channel, for every value of
\* the constants.
THEOREM TypeCorrect == Spec => []TypeOK
<1>1. Init => TypeOK
  BY TypeInit
<1>2. TypeOK /\ [Next]_tableVars => TypeOK'
  BY TypeStep
<1> QED BY <1>1, <1>2, PTL DEF Spec

-----------------------------------------------------------------------------
(* Custody and the reap authorization.                                     *)

CustodyInv ==
  /\ TypeOK
  /\ Fresh
  /\ Blank
  /\ Custody
  /\ ReapOnlyArmed
  /\ LatchedSound

\* What a sweep does to one entry and to its child: either both are left alone,
\* or the exit is consumed and the child reaped.
LEMMA SweepEffect ==
  ASSUME CustodyInv, Sweep
  PROVE  /\ \A u \in Uid :
              \/ sess'[u] = sess[u] /\ u \notin Sweepable
              \/ /\ u \in Sweepable
                 /\ sess'[u].inc = sess[u].inc
                 /\ sess'[u].armed /\ sess[u].armed
                 /\ sess'[u].ready = sess[u].ready
                 /\ ~sess'[u].latched
                 /\ sess'[u].exit = "pending" /\ sess[u].exit = "none"
                 /\ child[sess[u].inc] = "zombie" /\ child'[sess[u].inc] = "reaped"
         /\ \A i \in Inc : \/ child'[i] = child[i] /\ \A u \in Sweepable : sess[u].inc # i
                           \/ /\ child'[i] = "reaped"
                              /\ \E u \in Sweepable : sess[u].inc = i
<1>1. ASSUME NEW u \in Sweepable
      PROVE  /\ u \in Uid /\ sess[u] \in Entry /\ sess[u].inc \in Inc
             /\ sess[u].latched /\ sess[u].armed /\ sess[u].exit = "none"
             /\ child[sess[u].inc] = "zombie"
  BY <1>1 DEF Sweepable, CustodyInv, TypeOK, LatchedSound, Held, Entry, Inc
<1>2. ASSUME NEW e \in Entry
      PROVE  /\ Consumed(e).inc = e.inc /\ Consumed(e).armed = e.armed
             /\ Consumed(e).ready = e.ready /\ ~Consumed(e).latched
             /\ Consumed(e).exit = "pending"
  BY DEF Entry, Consumed
<1>3. \A u \in Uid : sess'[u] = IF u \in Sweepable THEN Consumed(sess[u]) ELSE sess[u]
  BY DEF Sweep
<1>4. \A i \in Inc : child'[i] = IF \E u \in Sweepable : sess[u].inc = i THEN "reaped" ELSE child[i]
  BY DEF Sweep
<1> QED BY <1>1, <1>2, <1>3, <1>4

\* A sweep keeps custody: it consumes only exits parked as zombies.
LEMMA SweepKeeps ==
  ASSUME CustodyInv, Sweep, UNCHANGED nextInc, TypeOK'
  PROVE  CustodyInv'
<1> USE SweepEffect
<1>1. Fresh'
  <2>1. \A u \in Sweepable : child[sess[u].inc] = "zombie"
    BY DEF CustodyInv, LatchedSound, Sweepable
  <2>2. \A i \in Inc : i >= nextInc => child'[i] = child[i]
    BY <2>1 DEF CustodyInv, Fresh
  <2> QED BY <2>2 DEF CustodyInv, Fresh
<1>2. Blank'
  BY DEF CustodyInv, Blank, Sweepable, Held
<1>3. Custody'
  <2>1. ASSUME NEW i \in Inc, child'[i] \in {"running", "zombie"}
        PROVE  \E u \in Uid : sess'[u].inc = i /\ sess'[u].exit = "none"
    <3>1. child'[i] = child[i] /\ \A u \in Sweepable : sess[u].inc # i
      BY <2>1
    <3>2. PICK u \in Uid : sess[u].inc = i /\ sess[u].exit = "none"
      BY <2>1, <3>1 DEF CustodyInv, Custody
    <3> QED BY <3>1, <3>2
  <2>2. \A u \in Uid : sess'[u].inc = sess[u].inc
    OBVIOUS
  <2>3. ASSUME NEW u \in Uid, Held(u)
        PROVE  /\ sess[u].inc < nextInc /\ sess[u].inc \in Inc
               /\ child'[sess[u].inc] = "reaped" <=> sess'[u].exit # "none"
               /\ child'[sess[u].inc] # "unborn"
    <3>1. /\ sess[u].inc \in Inc /\ sess[u].inc < nextInc
          /\ child[sess[u].inc] = "reaped" <=> sess[u].exit # "none"
          /\ child[sess[u].inc] # "unborn"
          /\ \A v \in Uid : sess[v].inc = sess[u].inc => v = u
      BY <2>3 DEF CustodyInv, Custody, Held, TypeOK, Entry, Inc
    <3>2. CASE u \in Sweepable
      BY <3>1, <3>2
    <3>3. CASE u \notin Sweepable
      <4>1. \A v \in Sweepable : sess[v].inc # sess[u].inc
        BY <3>1, <3>3 DEF Sweepable
      <4> QED BY <3>1, <3>3, <4>1
    <3> QED BY <3>2, <3>3
  <2> QED BY <2>1, <2>2, <2>3 DEF CustodyInv, Custody, Held
<1>4. ReapOnlyArmed'
  BY DEF CustodyInv, ReapOnlyArmed
<1>5. LatchedSound'
  <2>1. ASSUME NEW u \in Uid, sess'[u].latched
        PROVE  /\ sess'[u] = sess[u] /\ ~sess[u].armed /\ sess[u].exit = "none"
               /\ child'[sess[u].inc] = "zombie"
    <3>1. sess'[u] = sess[u] /\ u \notin Sweepable
      BY <2>1
    <3>2. sess[u].exit = "none" /\ child[sess[u].inc] = "zombie" /\ Held(u)
      BY <2>1, <3>1 DEF CustodyInv, LatchedSound, Blank, NoEntry
    <3>3. sess[u].inc \in Inc
      BY <3>2 DEF CustodyInv, TypeOK, Entry, Held, Inc
    <3>4. \A v \in Sweepable : sess[v].inc # sess[u].inc
      BY <3>1, <3>2 DEF Sweepable, CustodyInv, Custody
    <3> QED BY <2>1, <3>1, <3>2, <3>3, <3>4 DEF Sweepable
  <2> QED BY <2>1 DEF LatchedSound
<1> QED BY <1>1, <1>2, <1>3, <1>4, <1>5 DEF CustodyInv

\* What the invariants say of one held session.
LEMMA HeldFacts ==
  ASSUME CustodyInv, NEW u \in Uid, Held(u)
  PROVE  /\ sess[u] \in Entry
         /\ sess[u].inc \in Inc /\ sess[u].inc < nextInc
         /\ child[sess[u].inc] = "reaped" <=> sess[u].exit # "none"
         /\ child[sess[u].inc] # "unborn"
         /\ \A v \in Uid : sess[v].inc = sess[u].inc => v = u
  BY DEF CustodyInv, Custody, Held, TypeOK, Entry, Inc

\* One entry changes, keeping its incarnation, and its child only together
\* with its exit: custody is kept (arm_reap, ack_exit and a seen exit).
LEMMA EntryKeeps ==
  ASSUME CustodyInv, TypeOK', NEW u \in Uid, Held(u), NEW e \in Entry,
         sess' = [sess EXCEPT ![u] = e],
         e.inc = sess[u].inc,
         \/ child' = child /\ (e.exit = "none" <=> sess[u].exit = "none")
         \/ child' = [child EXCEPT ![sess[u].inc] = "reaped"] /\ e.exit # "none",
         e.exit # "none" => e.armed,
         e.latched => /\ e.exit = "none" /\ child'[e.inc] = "zombie"
                      /\ Serving => ~e.armed \/ ~e.ready \/ split,
         UNCHANGED <<nextInc, split, chan>>
  PROVE  CustodyInv'
<1>1. /\ sess[u] \in Entry
      /\ sess[u].inc \in Inc /\ sess[u].inc < nextInc
      /\ child[sess[u].inc] = "reaped" <=> sess[u].exit # "none"
      /\ child[sess[u].inc] # "unborn"
      /\ \A v \in Uid : sess[v].inc = sess[u].inc => v = u
  BY HeldFacts
<1>2. /\ sess'[u] = e
      /\ \A v \in Uid : v # u => sess'[v] = sess[v]
      /\ \A v \in Uid : sess'[v].inc = sess[v].inc
  BY DEF CustodyInv, TypeOK
<1>3. /\ \A i \in Inc : i # sess[u].inc => child'[i] = child[i]
      /\ child'[sess[u].inc] = "reaped" <=> e.exit # "none"
      /\ child'[sess[u].inc] # "unborn"
      /\ child'[sess[u].inc] \in {child[sess[u].inc], "reaped"}
  BY <1>1 DEF CustodyInv, TypeOK
<1>4. Fresh'
  <2>1. \A i \in Inc : i >= nextInc => i # sess[u].inc
    BY <1>1 DEF CustodyInv, TypeOK, Inc
  <2> QED BY <1>3, <2>1 DEF CustodyInv, Fresh
<1>5. Blank'
  BY <1>2 DEF CustodyInv, Blank, Held
<1>6. Custody'
  <2>1. ASSUME NEW i \in Inc, child'[i] \in {"running", "zombie"}
        PROVE  \E v \in Uid : sess'[v].inc = i /\ sess'[v].exit = "none"
    <3>1. CASE i = sess[u].inc
      BY <1>2, <1>3, <2>1, <3>1
    <3>2. CASE i # sess[u].inc
      <4>1. PICK v \in Uid : sess[v].inc = i /\ sess[v].exit = "none"
        BY <1>3, <2>1, <3>2 DEF CustodyInv, Custody
      <4> QED BY <1>2, <3>2, <4>1
    <3> QED BY <3>1, <3>2
  <2>2. ASSUME NEW v \in Uid, Held(v)
        PROVE  /\ sess'[v].inc < nextInc
               /\ child'[sess'[v].inc] = "reaped" <=> sess'[v].exit # "none"
               /\ child'[sess'[v].inc] # "unborn"
               /\ \A w \in Uid : sess'[w].inc = sess'[v].inc => w = v
    <3>1. /\ sess[v].inc \in Inc /\ sess[v].inc < nextInc
          /\ child[sess[v].inc] = "reaped" <=> sess[v].exit # "none"
          /\ child[sess[v].inc] # "unborn"
          /\ \A w \in Uid : sess[w].inc = sess[v].inc => w = v
      BY <2>2, HeldFacts
    <3>2. CASE v = u
      BY <1>1, <1>2, <1>3, <3>2
    <3>3. CASE v # u
      BY <1>1, <1>2, <1>3, <3>1, <3>3
    <3> QED BY <3>2, <3>3
  <2> QED BY <1>2, <2>1, <2>2 DEF Custody, Held
<1>7. ReapOnlyArmed'
  BY <1>2 DEF CustodyInv, ReapOnlyArmed
<1>8. LatchedSound'
  <2>1. ASSUME NEW v \in Uid, sess'[v].latched
        PROVE  /\ sess'[v].exit = "none"
               /\ child'[sess'[v].inc] = "zombie"
               /\ Serving' => ~sess'[v].armed \/ ~sess'[v].ready \/ split'
    <3>1. CASE v = u
      BY <1>2, <2>1, <3>1 DEF Serving
    <3>2. CASE v # u
      <4>1. sess'[v] = sess[v] /\ sess[v].latched
        BY <1>2, <2>1, <3>2
      <4>2. /\ sess[v].exit = "none" /\ child[sess[v].inc] = "zombie"
            /\ Serving => ~sess[v].armed \/ ~sess[v].ready \/ split
            /\ Held(v)
        BY <4>1 DEF CustodyInv, LatchedSound, Blank, NoEntry
      <4>3. sess[v].inc \in Inc /\ sess[v].inc # sess[u].inc
        BY <1>1, <3>2, <4>2, HeldFacts
      <4> QED BY <1>3, <4>1, <4>2, <4>3 DEF Serving
    <3> QED BY <3>1, <3>2
  <2> QED BY <2>1 DEF LatchedSound
<1> QED BY <1>4, <1>5, <1>6, <1>7, <1>8 DEF CustodyInv

\* A session is let go with its child reaped: custody is kept (abort_spawn and
\* forget).
LEMMA LetGoKeeps ==
  ASSUME CustodyInv, TypeOK', NEW u \in Uid, Held(u),
         sess' = [sess EXCEPT ![u] = NoEntry],
         \/ child' = child /\ sess[u].exit # "none"
         \/ child' = [child EXCEPT ![sess[u].inc] = "reaped"],
         UNCHANGED <<nextInc, split, chan>>
  PROVE  CustodyInv'
<1>1. /\ sess[u] \in Entry
      /\ sess[u].inc \in Inc /\ sess[u].inc < nextInc
      /\ child[sess[u].inc] = "reaped" <=> sess[u].exit # "none"
      /\ \A v \in Uid : sess[v].inc = sess[u].inc => v = u
  BY HeldFacts
<1>2. /\ sess'[u] = NoEntry /\ sess'[u].inc = 0 /\ ~sess'[u].latched /\ sess'[u].exit = "none"
      /\ \A v \in Uid : v # u => sess'[v] = sess[v]
  BY DEF CustodyInv, TypeOK, NoEntry
<1>3. /\ \A i \in Inc : i # sess[u].inc => child'[i] = child[i]
      /\ child'[sess[u].inc] = "reaped"
  BY <1>1 DEF CustodyInv, TypeOK
<1>4. Fresh'
  <2>1. \A i \in Inc : i >= nextInc => i # sess[u].inc
    BY <1>1 DEF CustodyInv, TypeOK, Inc
  <2> QED BY <1>3, <2>1 DEF CustodyInv, Fresh
<1>5. Blank'
  BY <1>2 DEF CustodyInv, Blank, Held
<1>6. Custody'
  <2>1. ASSUME NEW i \in Inc, child'[i] \in {"running", "zombie"}
        PROVE  \E v \in Uid : sess'[v].inc = i /\ sess'[v].exit = "none"
    <3>1. i # sess[u].inc /\ child'[i] = child[i]
      BY <1>3, <2>1
    <3>2. PICK v \in Uid : sess[v].inc = i /\ sess[v].exit = "none"
      BY <2>1, <3>1 DEF CustodyInv, Custody
    <3> QED BY <1>2, <3>1, <3>2
  <2>2. ASSUME NEW v \in Uid, Held(v)'
        PROVE  /\ sess'[v].inc < nextInc
               /\ child'[sess'[v].inc] = "reaped" <=> sess'[v].exit # "none"
               /\ child'[sess'[v].inc] # "unborn"
               /\ \A w \in Uid : sess'[w].inc = sess'[v].inc => w = v
    <3>1. v # u /\ Held(v) /\ sess'[v] = sess[v]
      BY <1>2, <2>2 DEF Held
    <3>2. /\ sess[v].inc \in Inc /\ sess[v].inc < nextInc
          /\ child[sess[v].inc] = "reaped" <=> sess[v].exit # "none"
          /\ child[sess[v].inc] # "unborn"
          /\ \A w \in Uid : sess[w].inc = sess[v].inc => w = v
      BY <3>1, HeldFacts
    <3>3. sess[v].inc # sess[u].inc
      BY <1>1, <3>1
    <3> QED BY <1>2, <1>3, <3>1, <3>2, <3>3 DEF Inc
  <2> QED BY <2>1, <2>2 DEF Custody, Held
<1>7. ReapOnlyArmed'
  BY <1>2 DEF CustodyInv, ReapOnlyArmed
<1>8. LatchedSound'
  <2>1. ASSUME NEW v \in Uid, sess'[v].latched
        PROVE  /\ sess'[v].exit = "none"
               /\ child'[sess'[v].inc] = "zombie"
               /\ Serving' => ~sess'[v].armed \/ ~sess'[v].ready \/ split'
    <3>1. v # u /\ sess'[v] = sess[v] /\ sess[v].latched
      BY <1>2, <2>1
    <3>2. /\ sess[v].exit = "none" /\ child[sess[v].inc] = "zombie"
          /\ Serving => ~sess[v].armed \/ ~sess[v].ready \/ split
          /\ Held(v)
      BY <3>1 DEF CustodyInv, LatchedSound, Blank, NoEntry
    <3>3. sess[v].inc \in Inc /\ sess[v].inc # sess[u].inc
      BY <1>1, <3>1, <3>2, HeldFacts
    <3> QED BY <1>3, <3>1, <3>2, <3>3 DEF Serving
  <2> QED BY <2>1 DEF LatchedSound
<1> QED BY <1>4, <1>5, <1>6, <1>7, <1>8 DEF CustodyInv

\* A step that leaves the sessions and the children alone keeps custody, unless
\* it starts serving or ends an armed migration.
LEMMA TableUntouched ==
  ASSUME CustodyInv, TypeOK', UNCHANGED <<sess, nextInc, child>>,
         Serving' => Serving /\ (split => split')
  PROVE  CustodyInv'
  BY DEF CustodyInv, Fresh, Blank, Held, Custody, ReapOnlyArmed, LatchedSound

\* Every step of the holder, the kernel or the client keeps custody.
LEMMA CustodyStep ==
  ASSUME CustodyInv, [Next]_tableVars
  PROVE  CustodyInv'
<1> DEFINE m == Head(toHolder)
<1>0. TypeOK /\ TypeOK'
  BY TypeStep DEF CustodyInv
<1>1. CASE HandleSpawnOk
  <2>1. Dispatch("spawn")
    BY <1>1 DEF HandleSpawnOk
  <2>2. m.uid \in Uid
    BY <1>0, <2>1, DispatchType
  <2>3. /\ nextInc \in Inc /\ child[nextInc] = "unborn"
        /\ \A v \in Uid : sess[v].inc # nextInc
    BY <1>0, <1>1, HeldFacts, TableAssumption
    DEF HandleSpawnOk, CustodyInv, Fresh, TypeOK, Entry, Inc, Held
  <2>4. /\ sess'[m.uid].inc = nextInc /\ ~sess'[m.uid].latched
        /\ ~sess'[m.uid].armed /\ sess'[m.uid].exit = "none"
        /\ \A v \in Uid : v # m.uid => sess'[v] = sess[v]
        /\ child'[nextInc] = "running"
        /\ \A i \in Inc : i # nextInc => child'[i] = child[i]
        /\ nextInc' = nextInc + 1
        /\ ~Held(m.uid)
    BY <1>0, <1>1, <2>2, <2>3 DEF HandleSpawnOk, TypeOK, Spawned, NoEntry
  <2>5. Fresh'
    BY <1>0, <2>3, <2>4 DEF CustodyInv, Fresh, TypeOK, Inc
  <2>6. Blank'
    BY <2>3, <2>4 DEF CustodyInv, Blank, Held, Inc
  <2>7. Custody'
    <3>1. ASSUME NEW i \in Inc, child'[i] \in {"running", "zombie"}
          PROVE  \E v \in Uid : sess'[v].inc = i /\ sess'[v].exit = "none"
      <4>1. CASE i = nextInc
        BY <2>2, <2>4, <4>1
      <4>2. CASE i # nextInc
        <5>1. PICK v \in Uid : sess[v].inc = i /\ sess[v].exit = "none"
          BY <2>4, <3>1, <4>2 DEF CustodyInv, Custody
        <5> QED BY <2>4, <5>1 DEF Held, Inc
      <4> QED BY <4>1, <4>2
    <3>2. ASSUME NEW v \in Uid, Held(v)'
          PROVE  /\ sess'[v].inc < nextInc'
                 /\ child'[sess'[v].inc] = "reaped" <=> sess'[v].exit # "none"
                 /\ child'[sess'[v].inc] # "unborn"
                 /\ \A w \in Uid : sess'[w].inc = sess'[v].inc => w = v
      <4>1. CASE v = m.uid
        BY <1>0, <2>3, <2>4, <4>1 DEF TypeOK
      <4>2. CASE v # m.uid
        <5>1. Held(v) /\ sess'[v] = sess[v]
          BY <2>4, <3>2, <4>2 DEF Held
        <5>2. /\ sess[v].inc \in Inc /\ sess[v].inc < nextInc
              /\ child[sess[v].inc] = "reaped" <=> sess[v].exit # "none"
              /\ child[sess[v].inc] # "unborn"
              /\ \A w \in Uid : sess[w].inc = sess[v].inc => w = v
          BY <5>1, HeldFacts
        <5>3. sess[v].inc # nextInc /\ sess[v].inc < nextInc'
          BY <1>0, <2>3, <2>4, <5>2 DEF TypeOK, Inc
        <5>4. \A w \in Uid : sess'[w].inc = sess[v].inc => w = v
          BY <2>4, <5>2, <5>3
        <5> QED BY <2>4, <5>1, <5>2, <5>3, <5>4
      <4> QED BY <4>1, <4>2
    <3> QED BY <3>1, <3>2 DEF Custody, Held
  <2>8. ReapOnlyArmed'
    BY <2>4 DEF CustodyInv, ReapOnlyArmed
  <2>9. LatchedSound'
    <3>1. ASSUME NEW v \in Uid, sess'[v].latched
          PROVE  /\ sess'[v].exit = "none" /\ child'[sess'[v].inc] = "zombie"
                 /\ Serving => ~sess'[v].armed \/ ~sess'[v].ready \/ split
      <4>1. v # m.uid /\ sess'[v] = sess[v] /\ sess[v].latched
        BY <2>4, <3>1
      <4>2. Held(v) /\ child[sess[v].inc] = "zombie"
        BY <4>1 DEF CustodyInv, Blank, NoEntry, LatchedSound
      <4>3. sess[v].inc \in Inc /\ sess[v].inc # nextInc
        BY <2>3, <4>2, HeldFacts
      <4> QED BY <2>4, <4>1, <4>3 DEF CustodyInv, LatchedSound
    <3>2. UNCHANGED <<split, chan>>
      BY <1>1 DEF HandleSpawnOk
    <3> QED BY <3>1, <3>2 DEF LatchedSound, Serving
  <2> QED BY <1>0, <2>5, <2>6, <2>7, <2>8, <2>9 DEF CustodyInv
<1>2. CASE HandleSpawnErr
  BY <1>0, <1>2, TableUntouched DEF HandleSpawnErr, holderVars, Serving
<1>3. CASE HandleSpawnTorn
  <2>1. /\ nextInc \in Inc /\ child[nextInc] = "unborn"
        /\ \A v \in Uid : sess[v].inc # nextInc
    BY <1>0, <1>3, HeldFacts, TableAssumption
    DEF HandleSpawnTorn, CustodyInv, Fresh, TypeOK, Entry, Inc, Held
  <2>2. /\ child'[nextInc] = "reaped"
        /\ \A i \in Inc : i # nextInc => child'[i] = child[i]
        /\ nextInc' = nextInc + 1
        /\ UNCHANGED <<sess, split, chan>>
    BY <1>0, <1>3, <2>1 DEF HandleSpawnTorn, TypeOK
  <2>3. Fresh'
    BY <1>0, <2>1, <2>2 DEF CustodyInv, Fresh, TypeOK, Inc
  <2>4. Custody'
    <3>1. ASSUME NEW i \in Inc, child'[i] \in {"running", "zombie"}
          PROVE  \E v \in Uid : sess'[v].inc = i /\ sess'[v].exit = "none"
      BY <2>2, <3>1 DEF CustodyInv, Custody
    <3>2. ASSUME NEW v \in Uid, Held(v)
          PROVE  /\ sess[v].inc < nextInc'
                 /\ child'[sess[v].inc] = "reaped" <=> sess[v].exit # "none"
                 /\ child'[sess[v].inc] # "unborn"
                 /\ \A w \in Uid : sess[w].inc = sess[v].inc => w = v
      <4>1. /\ sess[v].inc \in Inc /\ sess[v].inc < nextInc
            /\ child[sess[v].inc] = "reaped" <=> sess[v].exit # "none"
            /\ child[sess[v].inc] # "unborn"
            /\ \A w \in Uid : sess[w].inc = sess[v].inc => w = v
        BY <3>2, HeldFacts
      <4>2. sess[v].inc # nextInc /\ sess[v].inc < nextInc'
        BY <1>0, <2>1, <2>2, <4>1 DEF TypeOK, Inc
      <4> QED BY <2>2, <4>1, <4>2
    <3> QED BY <2>2, <3>1, <3>2 DEF Custody, Held
  <2>5. LatchedSound'
    <3>1. ASSUME NEW v \in Uid, sess[v].latched
          PROVE  child'[sess[v].inc] = "zombie"
      <4>1. Held(v) /\ child[sess[v].inc] = "zombie"
        BY <3>1 DEF CustodyInv, Blank, NoEntry, LatchedSound
      <4> QED BY <2>1, <2>2, <4>1, HeldFacts
    <3> QED BY <2>2, <3>1 DEF CustodyInv, LatchedSound, Serving
  <2> QED BY <1>0, <2>2, <2>3, <2>4, <2>5 DEF CustodyInv, Blank, Held, ReapOnlyArmed
<1>4. CASE HandleArmReap
  <2> DEFINE e == [sess[m.uid] EXCEPT !.armed = TRUE, !.ready = TRUE]
  <2>1. Dispatch("arm_reap") /\ UNCHANGED <<nextInc, split, chan>>
    BY <1>4 DEF HandleArmReap
  <2>2. m.uid \in Uid
    BY <1>0, <2>1, DispatchType
  <2>3. CASE UNCHANGED <<sess, child>>
    BY <1>0, <2>1, <2>3, TableUntouched DEF Serving
  <2>4. ASSUME Matches(m)
        PROVE  /\ Held(m.uid) /\ sess[m.uid].inc = m.inc
               /\ sess[m.uid] \in Entry /\ e \in Entry /\ Consumed(e) \in Entry
               /\ e.inc = sess[m.uid].inc /\ e.armed /\ e.exit = sess[m.uid].exit
               /\ e.latched = sess[m.uid].latched
               /\ Consumed(e).inc = e.inc /\ Consumed(e).armed
               /\ Consumed(e).exit = "pending" /\ ~Consumed(e).latched
    <3>1. sess[m.uid] \in Entry
      BY <1>0, <2>2 DEF TypeOK
    <3> QED BY <2>4, <3>1 DEF Matches, Entry, Consumed
  <2>5. CASE /\ Matches(m) /\ ConsumedByArm(e)
             /\ sess' = [sess EXCEPT ![m.uid] = Consumed(e)]
             /\ child' = [child EXCEPT ![m.inc] = "reaped"]
    BY <1>0, <2>1, <2>2, <2>4, <2>5, EntryKeeps
  <2>6. CASE /\ Matches(m) /\ ~ConsumedByArm(e)
             /\ sess' = [sess EXCEPT ![m.uid] = e]
             /\ UNCHANGED child
    <3>1. ~e.latched
      BY <2>2, <2>4, <2>6 DEF ConsumedByArm, CustodyInv, LatchedSound
    <3> QED BY <1>0, <2>1, <2>2, <2>4, <2>6, <3>1, EntryKeeps
  <2> QED BY <1>4, <2>3, <2>5, <2>6 DEF HandleArmReap
<1>5. CASE HandleAbortSpawn
  <2>1. Dispatch("abort_spawn") /\ UNCHANGED <<nextInc, split, chan>>
    BY <1>5 DEF HandleAbortSpawn
  <2>2. m.uid \in Uid
    BY <1>0, <2>1, DispatchType
  <2>3. CASE UNCHANGED <<sess, child>>
    BY <1>0, <2>1, <2>3, TableUntouched DEF Serving
  <2>4. CASE /\ Matches(m)
             /\ sess' = [sess EXCEPT ![m.uid] = NoEntry]
             /\ child' = [child EXCEPT ![m.inc] = "reaped"]
    BY <1>0, <2>1, <2>2, <2>4, LetGoKeeps DEF Matches
  <2> QED BY <1>5, <2>3, <2>4 DEF HandleAbortSpawn
<1>6. CASE HandleAckExit
  <2>1. Dispatch("ack_exit") /\ UNCHANGED <<nextInc, split, chan, child>>
    BY <1>6 DEF HandleAckExit
  <2>2. m.uid \in Uid
    BY <1>0, <2>1, DispatchType
  <2>3. CASE UNCHANGED sess
    BY <1>0, <2>1, <2>3, TableUntouched DEF Serving
  <2>4. CASE Ackable(m) /\ sess' = [sess EXCEPT ![m.uid].exit = "acked"]
    <3> DEFINE e == [sess[m.uid] EXCEPT !.exit = "acked"]
    <3>1. sess[m.uid] \in Entry /\ Held(m.uid) /\ sess[m.uid].exit = "pending"
      BY <1>0, <2>2, <2>4 DEF TypeOK, Ackable, Matches
    <3>2. /\ e \in Entry /\ e.inc = sess[m.uid].inc /\ e.exit = "acked"
          /\ e.armed = sess[m.uid].armed /\ e.latched = sess[m.uid].latched
      BY <3>1 DEF Entry
    <3>3. e.armed /\ ~e.latched
      BY <2>2, <3>1, <3>2 DEF CustodyInv, ReapOnlyArmed, LatchedSound
    <3>4. sess' = [sess EXCEPT ![m.uid] = e]
      BY <2>4
    <3> HIDE DEF e
    <3> QED BY <1>0, <2>1, <2>2, <3>1, <3>2, <3>3, <3>4, EntryKeeps
  <2> QED BY <1>6, <2>3, <2>4 DEF HandleAckExit
<1>7. CASE HandleForget
  <2>1. Dispatch("forget") /\ UNCHANGED <<nextInc, split, chan, child>>
    BY <1>7 DEF HandleForget
  <2>2. m.uid \in Uid
    BY <1>0, <2>1, DispatchType
  <2>3. CASE UNCHANGED sess
    BY <1>0, <2>1, <2>3, TableUntouched DEF Serving
  <2>4. CASE Forgettable(m) /\ sess' = [sess EXCEPT ![m.uid] = NoEntry]
    <3>1. Held(m.uid) /\ sess[m.uid].exit # "none"
      BY <2>4 DEF Forgettable, Matches
    <3> QED BY <1>0, <2>1, <2>2, <2>4, <3>1, LetGoKeeps
  <2> QED BY <1>7, <2>3, <2>4 DEF HandleForget
<1>8. CASE HandleSplitRollback
  BY <1>0, <1>8, TableUntouched DEF HandleSplitRollback, Serving
<1>9. CASE HandleCancelPending
  BY <1>0, <1>9, SweepKeeps DEF HandleCancelPending
<1>10. CASE \E u \in Uid : SeeExit(u)
  <2>1. PICK u \in Uid : SeeExit(u)
    BY <1>10
  <2>2. /\ Held(u) /\ sess[u].exit = "none" /\ ~sess[u].latched
        /\ child[sess[u].inc] = "zombie" /\ sess[u] \in Entry
        /\ UNCHANGED <<nextInc, split, chan>>
    BY <1>0, <2>1 DEF SeeExit, TypeOK
  <2>3. CASE MayConsume(sess[u])
    <3> DEFINE e == Consumed(sess[u])
    <3>1. /\ e \in Entry /\ e.inc = sess[u].inc /\ e.exit = "pending"
          /\ e.armed /\ ~e.latched
      BY <2>2, <2>3 DEF Entry, Consumed, MayConsume
    <3>2. sess' = [sess EXCEPT ![u] = e] /\ child' = [child EXCEPT ![sess[u].inc] = "reaped"]
      BY <2>1, <2>3 DEF SeeExit
    <3> HIDE DEF e
    <3> QED BY <1>0, <2>2, <3>1, <3>2, EntryKeeps
  <2>4. CASE ~MayConsume(sess[u])
    <3> DEFINE e == [sess[u] EXCEPT !.latched = TRUE]
    <3>1. /\ e \in Entry /\ e.inc = sess[u].inc /\ e.exit = "none"
          /\ e.armed = sess[u].armed /\ e.latched
      BY <2>2 DEF Entry
    <3>2. sess' = [sess EXCEPT ![u] = e] /\ child' = child
      BY <2>1, <2>4 DEF SeeExit
    <3>3. ~e.armed \/ split
      BY <2>4, <3>1 DEF MayConsume
    <3> HIDE DEF e
    <3> QED BY <1>0, <2>2, <3>1, <3>2, <3>3, EntryKeeps
  <2> QED BY <2>3, <2>4
<1>11. CASE AutoDisarm
  BY <1>0, <1>11, SweepKeeps DEF AutoDisarm
<1>12. CASE Serve
  <2>1. \A u \in Uid : /\ sess'[u].inc = sess[u].inc /\ sess'[u].armed = sess[u].armed
                       /\ sess'[u].latched = sess[u].latched /\ ~sess'[u].ready
                       /\ sess'[u].exit = sess[u].exit
    <3>1. \A e \in Entry : /\ Unready(e).inc = e.inc /\ Unready(e).armed = e.armed
                           /\ Unready(e).latched = e.latched /\ ~Unready(e).ready
                           /\ Unready(e).exit = e.exit
      BY DEF Unready, Entry
    <3> QED BY <1>0, <1>12, <3>1 DEF Serve, TypeOK
  <2>2. UNCHANGED <<child, nextInc>>
    BY <1>12 DEF Serve
  <2>3. Fresh'
    BY <2>2 DEF CustodyInv, Fresh
  <2>4. Blank'
    BY <2>1 DEF CustodyInv, Blank, Held
  <2>5. Custody'
    BY <2>1, <2>2 DEF CustodyInv, Custody, Held
  <2>6. ReapOnlyArmed'
    BY <2>1 DEF CustodyInv, ReapOnlyArmed
  <2>7. LatchedSound'
    BY <2>1, <2>2 DEF CustodyInv, LatchedSound
  <2> QED BY <1>0, <2>3, <2>4, <2>5, <2>6, <2>7 DEF CustodyInv
<1>13. CASE BrainEof
  <2>1. CASE Sweep
    BY <1>0, <1>13, <2>1, SweepKeeps DEF BrainEof
  <2>2. CASE UNCHANGED <<sess, child>>
    BY <1>0, <1>13, <2>2, TableUntouched DEF BrainEof, Serving
  <2> QED BY <1>13, <2>1, <2>2 DEF BrainEof
<1>14. CASE WatchdogKill
  BY <1>0, <1>14, TableUntouched DEF WatchdogKill, Serving
<1>15. CASE Shutdown
  <2>1. \A u \in Uid : /\ sess'[u] = NoEntry /\ sess'[u].inc = 0
                       /\ ~sess'[u].latched /\ sess'[u].exit = "none"
    BY <1>15 DEF Shutdown, NoEntry
  <2>2. \A i \in Inc : child'[i] = IF \E u \in Uid : sess[u].inc = i THEN "reaped" ELSE child[i]
    BY <1>15 DEF Shutdown
  <2>3. Fresh'
    <3>1. ASSUME NEW i \in Inc, i >= nextInc, NEW u \in Uid
          PROVE  sess[u].inc # i
      <4>1. CASE Held(u)
        BY <1>0, <3>1, <4>1, HeldFacts DEF TypeOK, Inc
      <4>2. CASE ~Held(u)
        BY <4>2 DEF Held, Inc
      <4> QED BY <4>1, <4>2
    <3>2. nextInc' = nextInc
      BY <1>15 DEF Shutdown
    <3> QED BY <2>2, <3>1, <3>2 DEF CustodyInv, Fresh
  <2>4. Custody'
    BY <2>1, <2>2 DEF CustodyInv, Custody, Held
  <2> QED BY <1>0, <2>1, <2>3, <2>4 DEF CustodyInv, Blank, ReapOnlyArmed, LatchedSound
<1>16. CASE \E i \in Inc : ChildExits(i)
  <2>1. PICK i \in Inc : ChildExits(i)
    BY <1>16
  <2>2. /\ child[i] = "running" /\ child'[i] = "zombie"
        /\ \A j \in Inc : j # i => child'[j] = child[j]
        /\ UNCHANGED <<sess, nextInc, split, chan>>
    BY <1>0, <2>1 DEF ChildExits, TypeOK
  <2>3. Fresh'
    BY <2>2 DEF CustodyInv, Fresh
  <2>4. \A u \in Uid : Held(u) => sess[u].inc \in Inc
    BY HeldFacts
  <2>5. Custody'
    <3>1. \A j \in Inc : child'[j] \in {"running", "zombie"} => child[j] \in {"running", "zombie"}
      BY <2>2
    <3>2. \A j \in Inc : /\ child'[j] = "reaped" <=> child[j] = "reaped"
                         /\ child'[j] = "unborn" <=> child[j] = "unborn"
      BY <2>2
    <3> QED BY <2>2, <2>4, <3>1, <3>2 DEF CustodyInv, Custody, Held
  <2>6. LatchedSound'
    <3>1. ASSUME NEW v \in Uid, sess[v].latched
          PROVE  child'[sess[v].inc] = "zombie"
      BY <2>2, <2>4, <3>1 DEF CustodyInv, Blank, NoEntry, LatchedSound
    <3> QED BY <2>2, <3>1 DEF CustodyInv, LatchedSound, Serving
  <2> QED BY <1>0, <2>2, <2>3, <2>5, <2>6 DEF CustodyInv, Blank, Held, ReapOnlyArmed
<1>17. CASE BrainDies
  BY <1>0, <1>17, TableUntouched DEF BrainDies, Serving
<1>18. CASE \E r \in Request : AnySend(r)
  BY <1>0, <1>18, TableUntouched DEF AnySend, holderVars, Serving
<1>19. CASE AnyReceive
  BY <1>0, <1>19, TableUntouched DEF AnyReceive, holderVars, Serving
<1>20. CASE UNCHANGED tableVars
  BY <1>0, <1>20, TableUntouched DEF tableVars, Serving
<1> QED
  BY <1>1, <1>2, <1>3, <1>4, <1>5, <1>6, <1>7, <1>8, <1>9, <1>10, <1>11, <1>12,
     <1>13, <1>14, <1>15, <1>16, <1>17, <1>18, <1>19, <1>20
  DEF Next, HolderDispatch, HolderLoop

\* The empty table of Holder::new satisfies the inductive invariant.
LEMMA CustodyInit ==
  ASSUME Init
  PROVE  CustodyInv
<1>1. TypeOK
  BY TypeInit
<1>2. \A u \in Uid : /\ sess[u] = NoEntry /\ sess[u].inc = 0
                     /\ ~sess[u].latched /\ sess[u].exit = "none"
  BY DEF Init, NoEntry
<1>3. \A i \in Inc : child[i] = "unborn"
  BY DEF Init
<1> QED
  BY <1>1, <1>2, <1>3
  DEF CustodyInv, Fresh, Blank, Custody, Held, ReapOnlyArmed, LatchedSound

\* CustodyInv holds throughout: the invariant the safety theorems rest on.
LEMMA CustodyInvariant == Spec => []CustodyInv
<1>1. Init => CustodyInv
  BY CustodyInit
<1>2. CustodyInv /\ [Next]_tableVars => CustodyInv'
  BY CustodyStep
<1> QED BY <1>1, <1>2, PTL DEF Spec

\* No child leaks and none is held twice, whatever the brain sends and whenever
\* it dies.
THEOREM CustodySafe == Spec => []Custody
<1>1. CustodyInv => Custody
  BY DEF CustodyInv
<1> QED BY <1>1, CustodyInvariant, PTL

\* A child's status is consumed only under arm_reap's authorization.
THEOREM ReapSafe == Spec => []ReapOnlyArmed
<1>1. CustodyInv => ReapOnlyArmed
  BY DEF CustodyInv
<1> QED BY <1>1, CustodyInvariant, PTL

\* While a brain is connected, an exit parked as a latched zombie is never one
\* that nothing will look at again.
THEOREM LatchSafe == Spec => []LatchedWillBeConsumed
<1>1. CustodyInv => LatchedWillBeConsumed
  BY DEF CustodyInv, LatchedSound, LatchedWillBeConsumed, Serving
<1> QED BY <1>1, CustodyInvariant, PTL

-----------------------------------------------------------------------------
(* The events on the wire.                                                 *)

EventInv ==
  /\ CustodyInv
  /\ OnlyOpenTalks
  /\ EventsAreTrue

\* Whatever was true of a frame is true of it after the step.
StaysTrue == \A f \in Frame : TrueFrame(f) => TrueFrame(f)'

\* A queue of true frames stays one if the frames pushed are true.
LEMMA PushKeeps ==
  ASSUME EventInv, StaysTrue, NEW s \in Seq(Frame), Push(s),
         \A f \in Frame : (\E j \in 1..Len(s) : f = s[j]) => TrueFrame(f)'
  PROVE  EventsAreTrue'
<1>1. toBrain \in Seq(Frame)
  BY DEF EventInv, CustodyInv, TypeOK
<1>2. \A k \in 1..Len(toBrain) : toBrain[k] \in Frame /\ TrueFrame(toBrain[k])
  BY <1>1 DEF EventInv, EventsAreTrue, TrueFrame
<1>3. ASSUME NEW k \in 1..Len(toBrain')
      PROVE  \E f \in Frame : f = toBrain'[k] /\ TrueFrame(f)'
  <2>1. CASE toBrain' = toBrain
    BY <1>2, <1>3, <2>1 DEF StaysTrue
  <2>2. CASE toBrain' = toBrain \o s
    <3>1. CASE k \in 1..Len(toBrain) /\ toBrain'[k] = toBrain[k]
      BY <1>2, <3>1 DEF StaysTrue
    <3>2. CASE \E j \in 1..Len(s) : toBrain'[k] = s[j]
      BY <3>2
    <3> QED BY <1>1, <1>3, <2>2, <3>1, <3>2, ConcatElements
  <2> QED BY <2>1, <2>2 DEF Push
<1> QED BY <1>3 DEF EventsAreTrue, TrueFrame

\* Nothing is pushed at a dead brain.
LEMMA PushQuiet ==
  ASSUME OnlyOpenTalks, UNCHANGED chan, NEW s, Push(s)
  PROVE  OnlyOpenTalks'
  BY DEF OnlyOpenTalks, Push

\* A step that leaves the queue alone.
LEMMA PushNothing ==
  ASSUME EventInv, StaysTrue, UNCHANGED <<chan, toBrain>>
  PROVE  EventsAreTrue' /\ OnlyOpenTalks'
<1>2. toBrain \in Seq(Frame)
  BY DEF EventInv, CustodyInv, TypeOK
<1>3. \A k \in 1..Len(toBrain) : toBrain[k] \in Frame /\ TrueFrame(toBrain[k])
  BY <1>2 DEF EventInv, EventsAreTrue, TrueFrame
<1>4. \A k \in 1..Len(toBrain) : \E f \in Frame : f = toBrain[k] /\ TrueFrame(f)'
  BY <1>3 DEF StaysTrue
<1> QED BY <1>4 DEF EventInv, OnlyOpenTalks, EventsAreTrue, TrueFrame

\* A reply is no event.
LEMMA ReplyIsTrue ==
  ASSUME NEW q \in Request, NEW i, NEW b, NEW f, f = Reply(q, i, b)
  PROVE  TrueFrame(f)'
<1>1. f.verb # "exit_event"
  BY DEF Reply, Request, Verbs
<1> QED BY <1>1 DEF TrueFrame

\* What a step must not do to keep the frames on the wire true.
LEMMA StaysIf ==
  ASSUME CustodyInv,
         \A i \in Inc : child[i] = "reaped" => child'[i] = "reaped",
         \A u \in Uid :
           \/ /\ sess'[u].inc = sess[u].inc
              /\ sess[u].ready => sess'[u].ready
              /\ sess[u].exit # "none" => sess'[u].exit # "none"
           \/ sess'[u].inc = 0
           \/ sess'[u].inc = nextInc /\ (nextInc \in Inc => child[nextInc] = "unborn")
  PROVE  StaysTrue
<1>1. ASSUME NEW f \in Frame, TrueFrame(f), f.verb = "exit_event"
      PROVE  TrueFrame(f)'
  <2>1. f.uid \in Uid /\ f.inc \in Inc /\ child[f.inc] = "reaped"
    BY <1>1 DEF Frame, TrueFrame
  <2>2. child'[f.inc] = "reaped"
    BY <2>1
  <2>3. ASSUME sess'[f.uid].inc = f.inc
        PROVE  sess'[f.uid].ready /\ sess'[f.uid].exit # "none"
    <3>1. sess'[f.uid].inc # 0
      BY <2>1, <2>3 DEF Inc
    <3>2. ~(sess'[f.uid].inc = nextInc /\ (nextInc \in Inc => child[nextInc] = "unborn"))
      BY <2>1, <2>3
    <3>3. /\ sess'[f.uid].inc = sess[f.uid].inc
          /\ sess[f.uid].ready => sess'[f.uid].ready
          /\ sess[f.uid].exit # "none" => sess'[f.uid].exit # "none"
      BY <2>1, <3>1, <3>2
    <3> QED BY <1>1, <2>3, <3>3 DEF TrueFrame
  <2> QED BY <2>1, <2>2, <2>3 DEF TrueFrame
<1>2. ASSUME NEW f \in Frame, f.verb # "exit_event"
      PROVE  TrueFrame(f)'
  BY <1>2 DEF TrueFrame
<1> QED BY <1>1, <1>2 DEF StaysTrue

\* A handler that pushes its reply only.
LEMMA ReplyKeeps ==
  ASSUME EventInv, StaysTrue, NEW v, Dispatch(v),
         NEW i \in 0..MaxInc, NEW b \in BOOLEAN, Push(<<Reply(Head(toHolder), i, b)>>)
  PROVE  EventsAreTrue'
<1>1. TypeOK
  BY DEF EventInv, CustodyInv
<1>2. Head(toHolder) \in Request /\ Reply(Head(toHolder), i, b) \in Frame
  BY <1>1, DispatchType
<1>3. <<Reply(Head(toHolder), i, b)>> \in Seq(Frame)
  BY <1>2, ShortSeq
<1>4. \A f \in Frame : f = Reply(Head(toHolder), i, b) => TrueFrame(f)'
  BY <1>2, ReplyIsTrue
<1> QED BY <1>3, <1>4, ShortElements, PushKeeps

\* A sweep pushes true events and keeps the others true.
LEMMA SweepStays ==
  ASSUME EventInv, Sweep
  PROVE  /\ StaysTrue
         /\ \A o \in Orders(Announced), f \in Frame :
              (\E j \in 1..Len(Events(o)) : f = Events(o)[j]) => TrueFrame(f)'
<1>1. CustodyInv /\ TypeOK
  BY DEF EventInv, CustodyInv
<1>2. \A i \in Inc : child[i] = "reaped" => child'[i] = "reaped"
  BY <1>1, SweepEffect
<1>3. \A u \in Uid : /\ sess'[u].inc = sess[u].inc
                     /\ sess[u].ready => sess'[u].ready
                     /\ sess[u].exit # "none" => sess'[u].exit # "none"
  BY <1>1, SweepEffect
<1>4. StaysTrue
  BY <1>1, <1>2, <1>3, StaysIf
<1>5. ASSUME NEW u \in Announced, NEW f \in Frame, f = ExitEvent(u)
      PROVE  TrueFrame(f)'
  <2>1. /\ f.uid = u /\ f.inc = sess[u].inc /\ u \in Sweepable /\ sess[u].ready
        /\ u \in Uid /\ Held(u)
    BY <1>5 DEF ExitEvent, Announced, Sweepable, MayAnnounce
  <2>2. sess[u].inc \in Inc
    BY <1>1, <2>1, HeldFacts
  <2>3. child'[sess[u].inc] = "reaped" /\ sess'[u].ready /\ sess'[u].exit # "none"
    BY <1>1, <2>1, SweepEffect
  <2> QED BY <2>1, <2>2, <2>3 DEF TrueFrame
<1> QED BY <1>1, <1>4, <1>5, SweepOrders

\* Every step keeps the events on the wire true.
LEMMA EventStep ==
  ASSUME EventInv, [Next]_tableVars
  PROVE  EventInv'
<1> DEFINE m == Head(toHolder)
<1>0. /\ CustodyInv /\ CustodyInv' /\ TypeOK /\ TypeOK' /\ OnlyOpenTalks /\ EventsAreTrue
      /\ 0 \in 0..MaxInc
  BY CustodyStep, TableAssumption DEF EventInv, CustodyInv
<1>1. CASE HandleSpawnOk
  <2>1. Dispatch("spawn") /\ UNCHANGED chan /\ Push(<<Reply(m, nextInc, TRUE)>>)
    BY <1>1 DEF HandleSpawnOk
  <2>2. m.uid \in Uid /\ nextInc \in 0..MaxInc
    BY <1>0, <1>1, <2>1, DispatchType, TableAssumption DEF HandleSpawnOk, TypeOK
  <2>3. nextInc \in Inc => child[nextInc] = "unborn"
    BY <1>0 DEF CustodyInv, Fresh, TypeOK
  <2>4. \A i \in Inc : child[i] = "reaped" => child'[i] = "reaped"
    BY <1>0, <1>1, <2>3 DEF HandleSpawnOk, TypeOK
  <2>5. \A u \in Uid : sess'[u] = sess[u] \/ sess'[u].inc = nextInc
    BY <1>0, <1>1, <2>2 DEF HandleSpawnOk, TypeOK, Spawned, NoEntry
  <2>6. StaysTrue
    BY <1>0, <2>3, <2>4, <2>5, StaysIf
  <2>7. EventsAreTrue'
    BY <2>1, <2>2, <2>6, ReplyKeeps
  <2>8. OnlyOpenTalks'
    BY <1>0, <2>1, PushQuiet
  <2> QED BY <1>0, <2>7, <2>8 DEF EventInv
<1>2. CASE HandleSpawnErr
  <2>1. Dispatch("spawn") /\ Push(<<Reply(m, 0, FALSE)>>) /\ UNCHANGED <<sess, child, chan>>
    BY <1>2 DEF HandleSpawnErr, Refuse, holderVars
  <2>2. StaysTrue
    BY <1>0, <2>1, StaysIf
  <2>3. EventsAreTrue'
    BY <1>0, <2>1, <2>2, ReplyKeeps
  <2>4. OnlyOpenTalks'
    BY <1>0, <2>1, PushQuiet
  <2> QED BY <1>0, <2>3, <2>4 DEF EventInv
<1>3. CASE HandleSpawnTorn
  <2>1. /\ Dispatch("spawn") /\ Push(<<Reply(m, 0, FALSE)>>) /\ UNCHANGED <<sess, chan>>
        /\ \A i \in Inc : child[i] = "reaped" => child'[i] = "reaped"
    BY <1>0, <1>3 DEF HandleSpawnTorn, Refuse, TypeOK
  <2>2. StaysTrue
    BY <1>0, <2>1, StaysIf
  <2>3. EventsAreTrue'
    BY <1>0, <2>1, <2>2, ReplyKeeps
  <2>4. OnlyOpenTalks'
    BY <1>0, <2>1, PushQuiet
  <2> QED BY <1>0, <2>3, <2>4 DEF EventInv
<1>4. CASE HandleArmReap
  <2> DEFINE e == [sess[m.uid] EXCEPT !.armed = TRUE, !.ready = TRUE]
             ok == Reply(m, m.inc, TRUE)
  <2>1. Dispatch("arm_reap") /\ UNCHANGED <<nextInc, split, chan>>
    BY <1>4 DEF HandleArmReap
  <2>2. /\ m \in Request /\ m.uid \in Uid /\ m.inc \in 0..MaxInc /\ sess[m.uid] \in Entry
        /\ ok \in Frame /\ ExitEvent(m.uid) \in Frame
    BY <1>0, <2>1, DispatchType, ExitEventType DEF TypeOK, Request
  <2>3. /\ e \in Entry /\ e.inc = sess[m.uid].inc /\ e.ready /\ e.exit = sess[m.uid].exit
        /\ Consumed(e).inc = e.inc /\ Consumed(e).ready /\ Consumed(e).exit = "pending"
    BY <2>2 DEF Entry, Consumed
  <2>a. \/ ~Matches(m) /\ Refuse(m) /\ UNCHANGED <<sess, child>>
        \/ /\ Matches(m)
           /\ sess' = [sess EXCEPT ![m.uid] = Consumed(e)]
           /\ child' = [child EXCEPT ![m.inc] = "reaped"]
           /\ Push(<<ok, ExitEvent(m.uid)>>)
        \/ /\ Matches(m)
           /\ sess' = [sess EXCEPT ![m.uid] = e]
           /\ UNCHANGED child
           /\ Push(IF e.exit = "pending" THEN <<ok, ExitEvent(m.uid)>> ELSE <<ok>>)
    BY <1>4 DEF HandleArmReap
  <2> HIDE DEF e, ok
  <2>4. ASSUME Refuse(m), UNCHANGED <<sess, child>>
        PROVE  EventsAreTrue'
    <3>1. StaysTrue
      BY <1>0, <2>4, StaysIf
    <3> QED BY <1>0, <2>1, <2>4, <3>1, ReplyKeeps DEF Refuse
  <2>5. ASSUME Matches(m),
               \/ /\ sess' = [sess EXCEPT ![m.uid] = Consumed(e)]
                  /\ child' = [child EXCEPT ![m.inc] = "reaped"]
                  /\ Push(<<ok, ExitEvent(m.uid)>>)
               \/ /\ sess' = [sess EXCEPT ![m.uid] = e]
                  /\ UNCHANGED child
                  /\ e.exit = "pending"
                  /\ Push(<<ok, ExitEvent(m.uid)>>)
               \/ /\ sess' = [sess EXCEPT ![m.uid] = e]
                  /\ UNCHANGED child
                  /\ Push(<<ok>>)
        PROVE  EventsAreTrue'
    <3>1. Held(m.uid) /\ sess[m.uid].inc = m.inc /\ m.inc \in Inc
      BY <1>0, <2>2, <2>5, HeldFacts DEF Matches
    <3>2. StaysTrue
      <4>1. \A i \in Inc : child[i] = "reaped" => child'[i] = "reaped"
        BY <1>0, <2>5 DEF TypeOK
      <4>2. \A u \in Uid : /\ sess'[u].inc = sess[u].inc
                           /\ sess[u].ready => sess'[u].ready
                           /\ sess[u].exit # "none" => sess'[u].exit # "none"
        BY <1>0, <2>2, <2>3, <2>5 DEF TypeOK
      <4> QED BY <1>0, <4>1, <4>2, StaysIf
    <3>3. \A f \in Frame : f = ok => TrueFrame(f)'
      BY <2>2, ReplyIsTrue DEF ok
    <3>4. CASE Push(<<ok>>)
      <4>1. <<ok>> \in Seq(Frame)
        BY <2>2, ShortSeq
      <4> QED BY <3>2, <3>3, <3>4, <4>1, ShortElements, PushKeeps
    <3>5. CASE /\ Push(<<ok, ExitEvent(m.uid)>>)
               /\ child'[m.inc] = "reaped"
               /\ sess'[m.uid].ready /\ sess'[m.uid].exit # "none"
      <4>1. <<ok, ExitEvent(m.uid)>> \in Seq(Frame)
        BY <2>2, ShortSeq
      <4>2. \A f \in Frame : f = ExitEvent(m.uid) => TrueFrame(f)'
        BY <3>1, <3>5 DEF TrueFrame, ExitEvent
      <4>3. \A f \in Frame : (\E j \in 1..Len(<<ok, ExitEvent(m.uid)>>) :
                                 f = <<ok, ExitEvent(m.uid)>>[j]) => TrueFrame(f)'
        BY <3>3, <4>2, ShortElements
      <4> QED BY <3>2, <3>5, <4>1, <4>3, PushKeeps
    <3>6. e.exit = "pending" /\ UNCHANGED child => child'[m.inc] = "reaped"
      BY <1>0, <2>2, <2>3, <3>1, HeldFacts
    <3>7. sess' = [sess EXCEPT ![m.uid] = Consumed(e)] =>
            sess'[m.uid].ready /\ sess'[m.uid].exit # "none"
      BY <1>0, <2>2, <2>3 DEF TypeOK
    <3>8. sess' = [sess EXCEPT ![m.uid] = e] /\ e.exit = "pending" =>
            sess'[m.uid].ready /\ sess'[m.uid].exit # "none"
      BY <1>0, <2>2, <2>3 DEF TypeOK
    <3>9. child' = [child EXCEPT ![m.inc] = "reaped"] => child'[m.inc] = "reaped"
      BY <1>0, <3>1 DEF TypeOK
    <3>10. CASE /\ sess' = [sess EXCEPT ![m.uid] = Consumed(e)]
                /\ child' = [child EXCEPT ![m.inc] = "reaped"]
                /\ Push(<<ok, ExitEvent(m.uid)>>)
      <4>1. child'[m.inc] = "reaped" /\ sess'[m.uid].ready /\ sess'[m.uid].exit # "none"
        BY <3>7, <3>9, <3>10
      <4> QED BY <3>5, <3>10, <4>1
    <3>11. CASE /\ sess' = [sess EXCEPT ![m.uid] = e]
                /\ UNCHANGED child
                /\ e.exit = "pending"
                /\ Push(<<ok, ExitEvent(m.uid)>>)
      <4>1. child'[m.inc] = "reaped" /\ sess'[m.uid].ready /\ sess'[m.uid].exit # "none"
        BY <3>6, <3>8, <3>11
      <4> QED BY <3>5, <3>11, <4>1
    <3> QED BY <2>5, <3>4, <3>10, <3>11
  <2>6. EventsAreTrue'
    <3>1. CASE e.exit = "pending"
      BY <2>a, <2>4, <2>5, <3>1
    <3>2. CASE e.exit # "pending"
      BY <2>a, <2>4, <2>5, <3>2
    <3> QED BY <3>1, <3>2
  <2>7. \E s : Push(s)
    BY <2>a DEF Refuse
  <2>8. OnlyOpenTalks'
    BY <1>0, <2>1, <2>7, PushQuiet
  <2> QED BY <1>0, <2>6, <2>8 DEF EventInv
<1>5. CASE HandleAbortSpawn
  <2>1. Dispatch("abort_spawn") /\ UNCHANGED chan
    BY <1>5 DEF HandleAbortSpawn
  <2>2. m.uid \in Uid /\ m.inc \in 0..MaxInc
    BY <1>0, <2>1, DispatchType DEF Request
  <2>3. \A i \in Inc : child[i] = "reaped" => child'[i] = "reaped"
    BY <1>0, <1>5 DEF HandleAbortSpawn, TypeOK
  <2>4. \A u \in Uid : sess'[u] = sess[u] \/ sess'[u].inc = 0
    BY <1>0, <1>5, <2>2 DEF HandleAbortSpawn, TypeOK, NoEntry
  <2>5. StaysTrue
    BY <1>0, <2>3, <2>4, StaysIf
  <2>6. Push(<<Reply(m, 0, FALSE)>>) \/ Push(<<Reply(m, m.inc, TRUE)>>)
    BY <1>5 DEF HandleAbortSpawn, Refuse
  <2>7. EventsAreTrue'
    BY <1>0, <2>1, <2>2, <2>5, <2>6, ReplyKeeps
  <2>8. OnlyOpenTalks'
    BY <1>0, <2>1, <2>6, PushQuiet
  <2> QED BY <1>0, <2>7, <2>8 DEF EventInv
<1>6. CASE HandleAckExit
  <2>1. /\ Dispatch("ack_exit") /\ UNCHANGED <<chan, child>>
        /\ Push(<<Reply(m, m.inc, TRUE)>>)
    BY <1>6 DEF HandleAckExit
  <2>2. m.uid \in Uid /\ m.inc \in 0..MaxInc
    BY <1>0, <2>1, DispatchType DEF Request
  <2>3. \A u \in Uid : /\ sess'[u].inc = sess[u].inc
                       /\ sess[u].ready => sess'[u].ready
                       /\ sess[u].exit # "none" => sess'[u].exit # "none"
    BY <1>0, <1>6, <2>2 DEF HandleAckExit, TypeOK, Entry
  <2>4. StaysTrue
    BY <1>0, <2>1, <2>3, StaysIf
  <2>5. EventsAreTrue'
    BY <1>0, <2>1, <2>2, <2>4, ReplyKeeps
  <2>6. OnlyOpenTalks'
    BY <1>0, <2>1, PushQuiet
  <2> QED BY <1>0, <2>5, <2>6 DEF EventInv
<1>7. CASE HandleForget
  <2>1. Dispatch("forget") /\ UNCHANGED <<chan, child>>
    BY <1>7 DEF HandleForget
  <2>2. m.uid \in Uid /\ m.inc \in 0..MaxInc
    BY <1>0, <2>1, DispatchType DEF Request
  <2>3. \A u \in Uid : sess'[u] = sess[u] \/ sess'[u].inc = 0
    BY <1>0, <1>7, <2>2 DEF HandleForget, TypeOK, NoEntry
  <2>4. StaysTrue
    BY <1>0, <2>1, <2>3, StaysIf
  <2>5. Push(<<Reply(m, 0, FALSE)>>) \/ Push(<<Reply(m, m.inc, TRUE)>>)
    BY <1>7 DEF HandleForget, Refuse
  <2>6. EventsAreTrue'
    BY <1>0, <2>1, <2>2, <2>4, <2>5, ReplyKeeps
  <2>7. OnlyOpenTalks'
    BY <1>0, <2>1, <2>5, PushQuiet
  <2> QED BY <1>0, <2>6, <2>7 DEF EventInv
<1>8. CASE HandleSplitRollback
  <2>1. /\ Dispatch("split_rollback") /\ UNCHANGED <<sess, chan, child>>
        /\ Push(<<Reply(m, 0, FALSE)>>) \/ Push(<<Reply(m, 0, TRUE)>>)
    BY <1>8 DEF HandleSplitRollback, Refuse
  <2>2. StaysTrue
    BY <1>0, <2>1, StaysIf
  <2>3. EventsAreTrue'
    BY <1>0, <2>1, <2>2, ReplyKeeps
  <2>4. OnlyOpenTalks'
    BY <1>0, <2>1, PushQuiet
  <2> QED BY <1>0, <2>3, <2>4 DEF EventInv
<1>9. CASE HandleCancelPending
  <2> DEFINE r == Reply(m, 0, TRUE)
  <2>1. Dispatch("cancel_pending") /\ Sweep /\ UNCHANGED chan
    BY <1>9 DEF HandleCancelPending
  <2>2. PICK o \in Orders(Announced) : Push(Events(o) \o <<r>>)
    BY <1>9 DEF HandleCancelPending
  <2>3. m \in Request /\ r \in Frame
    BY <1>0, <2>1, DispatchType
  <2>4. Events(o) \in Seq(Frame) /\ <<r>> \in Seq(Frame)
    BY <1>0, <2>3, SweepOrders, ShortSeq
  <2>5. Events(o) \o <<r>> \in Seq(Frame)
    BY <2>4, ConcatType
  <2>6. \A f \in Frame : f = r => TrueFrame(f)'
    BY <2>3, ReplyIsTrue
  <2> HIDE DEF r
  <2>7. \A f \in Frame : (\E j \in 1..Len(Events(o) \o <<r>>) : f = (Events(o) \o <<r>>)[j])
                           => TrueFrame(f)'
    <3>1. ASSUME NEW f \in Frame, NEW j \in 1..Len(Events(o) \o <<r>>), f = (Events(o) \o <<r>>)[j]
          PROVE  \/ \E k \in 1..Len(Events(o)) : f = Events(o)[k]
                 \/ \E k \in 1..Len(<<r>>) : f = <<r>>[k]
      BY <2>4, <3>1, ConcatElements
    <3> QED BY <2>1, <2>6, <3>1, SweepStays, ShortElements
  <2>8. EventsAreTrue'
    BY <2>1, <2>2, <2>5, <2>7, SweepStays, PushKeeps
  <2>9. OnlyOpenTalks'
    BY <1>0, <2>1, <2>2, PushQuiet
  <2> QED BY <1>0, <2>8, <2>9 DEF EventInv
<1>10. CASE \E u \in Uid : SeeExit(u)
  <2>1. PICK u \in Uid : SeeExit(u)
    BY <1>10
  <2>2. /\ Held(u) /\ sess[u] \in Entry /\ sess[u].inc \in Inc /\ sess[u].exit = "none"
        /\ UNCHANGED chan
    BY <1>0, <2>1, HeldFacts DEF SeeExit
  <2>3. CASE /\ sess' = [sess EXCEPT ![u] = Consumed(sess[u])]
             /\ child' = [child EXCEPT ![sess[u].inc] = "reaped"]
             /\ (sess[u].ready /\ Push(<<ExitEvent(u)>>)) \/ UNCHANGED toBrain
    <3>1. /\ Consumed(sess[u]).inc = sess[u].inc /\ Consumed(sess[u]).ready = sess[u].ready
          /\ Consumed(sess[u]).exit = "pending"
      BY <2>2 DEF Consumed, Entry
    <3>2. /\ sess'[u] = Consumed(sess[u]) /\ child'[sess[u].inc] = "reaped"
          /\ \A v \in Uid : v # u => sess'[v] = sess[v]
          /\ \A i \in Inc : child[i] = "reaped" => child'[i] = "reaped"
      BY <1>0, <2>2, <2>3 DEF TypeOK
    <3>3. StaysTrue
      BY <1>0, <2>2, <3>1, <3>2, StaysIf
    <3>4. CASE UNCHANGED toBrain
      BY <1>0, <2>2, <3>3, <3>4, PushNothing DEF EventInv
    <3>5. CASE sess[u].ready /\ Push(<<ExitEvent(u)>>)
      <4>1. <<ExitEvent(u)>> \in Seq(Frame)
        BY <1>0, ExitEventType, ShortSeq
      <4>2. \A f \in Frame : f = ExitEvent(u) => TrueFrame(f)'
        <5>1. ASSUME NEW f \in Frame, f = ExitEvent(u)
              PROVE  f.uid = u /\ f.inc = sess[u].inc
          BY <5>1 DEF ExitEvent
        <5>2. sess'[u].ready /\ sess'[u].exit # "none" /\ child'[sess[u].inc] = "reaped"
          BY <3>1, <3>2, <3>5
        <5> QED BY <2>2, <5>1, <5>2 DEF TrueFrame
      <4>3. EventsAreTrue'
        BY <3>3, <3>5, <4>1, <4>2, ShortElements, PushKeeps
      <4>4. OnlyOpenTalks'
        BY <1>0, <2>2, <3>5, PushQuiet
      <4> QED BY <1>0, <4>3, <4>4 DEF EventInv
    <3> QED BY <2>3, <3>4, <3>5
  <2>4. CASE /\ sess' = [sess EXCEPT ![u].latched = TRUE]
             /\ UNCHANGED <<child, toBrain>>
    <3>1. \A v \in Uid : /\ sess'[v].inc = sess[v].inc
                         /\ sess[v].ready => sess'[v].ready
                         /\ sess[v].exit # "none" => sess'[v].exit # "none"
      BY <1>0, <2>2, <2>4 DEF TypeOK, Entry
    <3>2. StaysTrue
      BY <1>0, <2>4, <3>1, StaysIf
    <3> QED BY <1>0, <2>2, <2>4, <3>2, PushNothing DEF EventInv
  <2> QED BY <2>1, <2>3, <2>4 DEF SeeExit, MayAnnounce
<1>11. CASE AutoDisarm
  <2>1. Sweep /\ UNCHANGED chan
    BY <1>11 DEF AutoDisarm
  <2>2. PICK o \in Orders(Announced) : Push(Events(o))
    BY <1>11 DEF AutoDisarm
  <2>3. Events(o) \in Seq(Frame)
    BY <1>0, SweepOrders
  <2>4. EventsAreTrue'
    BY <2>1, <2>2, <2>3, SweepStays, PushKeeps
  <2>5. OnlyOpenTalks'
    BY <1>0, <2>1, <2>2, PushQuiet
  <2> QED BY <1>0, <2>4, <2>5 DEF EventInv
<1>12. CASE Serve
  <2>1. toBrain = <<>> /\ toBrain' = <<>> /\ chan' = "open"
    BY <1>0, <1>12 DEF Serve, OnlyOpenTalks
  <2> QED BY <1>0, <2>1 DEF EventInv, OnlyOpenTalks, EventsAreTrue
<1>13. CASE BrainEof
  <2>1. toBrain = <<>> /\ toBrain' = <<>>
    BY <1>0, <1>13 DEF BrainEof, OnlyOpenTalks
  <2> QED BY <1>0, <2>1 DEF EventInv, OnlyOpenTalks, EventsAreTrue
<1>14. CASE WatchdogKill
  <2>1. toBrain' = <<>>
    BY <1>14 DEF WatchdogKill
  <2> QED BY <1>0, <2>1 DEF EventInv, OnlyOpenTalks, EventsAreTrue
<1>15. CASE Shutdown
  <2>1. toBrain' = <<>>
    BY <1>15 DEF Shutdown
  <2> QED BY <1>0, <2>1 DEF EventInv, OnlyOpenTalks, EventsAreTrue
<1>16. CASE \E i \in Inc : ChildExits(i)
  <2>1. /\ \A i \in Inc : child[i] = "reaped" => child'[i] = "reaped"
        /\ UNCHANGED <<sess, chan, toBrain>>
    BY <1>0, <1>16 DEF ChildExits, TypeOK
  <2>2. StaysTrue
    BY <1>0, <2>1, StaysIf
  <2> QED BY <1>0, <2>1, <2>2, PushNothing DEF EventInv
<1>17. CASE BrainDies
  <2>1. toBrain' = <<>>
    BY <1>17 DEF BrainDies
  <2> QED BY <1>0, <2>1 DEF EventInv, OnlyOpenTalks, EventsAreTrue
<1>18. CASE \E r \in Request : AnySend(r)
  <2>1. UNCHANGED <<sess, child, chan, toBrain>>
    BY <1>18 DEF AnySend, holderVars
  <2>2. StaysTrue
    BY <1>0, <2>1, StaysIf
  <2> QED BY <1>0, <2>1, <2>2, PushNothing DEF EventInv
<1>19. CASE AnyReceive
  <2>1. /\ UNCHANGED <<sess, child, chan>> /\ chan = "open" /\ toBrain # <<>>
        /\ toBrain' = Tail(toBrain) /\ toBrain \in Seq(Frame)
    BY <1>0, <1>19 DEF AnyReceive, holderVars, TypeOK
  <2>2. \A k \in 1..Len(toBrain') : k + 1 \in 1..Len(toBrain) /\ toBrain'[k] = toBrain[k + 1]
    BY <2>1
  <2> QED BY <1>0, <2>1, <2>2 DEF EventInv, OnlyOpenTalks, EventsAreTrue
<1>20. CASE UNCHANGED tableVars
  BY <1>0, <1>20 DEF EventInv, OnlyOpenTalks, EventsAreTrue, tableVars
<1> QED
  BY <1>1, <1>2, <1>3, <1>4, <1>5, <1>6, <1>7, <1>8, <1>9, <1>10, <1>11, <1>12,
     <1>13, <1>14, <1>15, <1>16, <1>17, <1>18, <1>19, <1>20
  DEF Next, HolderDispatch, HolderLoop

\* An exit event on the wire is about a reaped child, and about an entry that
\* this very generation armed, unless the entry is gone since.
THEOREM EventsSafe == Spec => []EventsAreTrue
<1>1. Init => EventInv
  <2>1. Init => toBrain = <<>>
    BY DEF Init
  <2> QED BY <2>1, CustodyInit DEF EventInv, OnlyOpenTalks, EventsAreTrue
<1>2. EventInv /\ [Next]_tableVars => EventInv'
  BY EventStep
<1>3. EventInv => EventsAreTrue
  BY DEF EventInv
<1> QED BY <1>1, <1>2, <1>3, PTL DEF Spec

-----------------------------------------------------------------------------
(* Consumed exits.                                                         *)

\* A step gives up a pending exit only as the property says.
LEMMA PendingStep ==
  ASSUME CustodyInv, [Next]_tableVars
  PROVE  GivenUpByName
<1> DEFINE m == Head(toHolder)
<1>0. TypeOK
  BY DEF CustodyInv
<1> SUFFICES ASSUME NEW u \in Uid, sess[u].exit = "pending", sess'[u].exit # "pending"
             PROVE  \/ chan' = "stopped"
                    \/ /\ toHolder # <<>> /\ m.verb \in {"ack_exit", "abort_spawn"}
                       /\ m.uid = u /\ m.inc = sess[u].inc
  BY DEF GivenUpByName
<1>1. CASE HandleSpawnOk
  <2>1. Held(u) /\ sess[u].exit # "none"
    BY DEF CustodyInv, Blank
  <2> QED BY <1>0, <1>1, <2>1 DEF HandleSpawnOk, TypeOK
<1>2. CASE HandleArmReap
  <2> DEFINE e == [sess[m.uid] EXCEPT !.armed = TRUE, !.ready = TRUE]
  <2>1. ASSUME m.uid \in Uid
        PROVE  e.exit = sess[m.uid].exit /\ Consumed(e).exit = "pending"
    BY <1>0, <2>1 DEF TypeOK, Entry, Consumed
  <2>2. Dispatch("arm_reap")
    BY <1>2 DEF HandleArmReap
  <2>3. m.uid \in Uid
    BY <1>0, <2>2, DispatchType
  <2>4. \/ sess' = sess
        \/ sess' = [sess EXCEPT ![m.uid] = Consumed(e)]
        \/ sess' = [sess EXCEPT ![m.uid] = e]
    BY <1>2 DEF HandleArmReap
  <2> HIDE DEF e
  <2> QED BY <1>0, <2>1, <2>3, <2>4 DEF TypeOK
<1>3. CASE HandleAbortSpawn
  BY <1>0, <1>3 DEF HandleAbortSpawn, Dispatch, Matches, TypeOK
<1>4. CASE HandleAckExit
  BY <1>0, <1>4 DEF HandleAckExit, Dispatch, Ackable, Matches, TypeOK
<1>5. CASE HandleForget
  BY <1>0, <1>5 DEF HandleForget, Forgettable, TypeOK
<1>6. CASE Sweep
  BY <1>6, SweepEffect
<1>7. CASE \E v \in Uid : SeeExit(v)
  <2>1. PICK v \in Uid : SeeExit(v)
    BY <1>7
  <2>2. v # u
    BY <2>1 DEF SeeExit
  <2> QED BY <1>0, <2>1, <2>2 DEF SeeExit, TypeOK
<1>8. CASE Serve
  <2>1. Unready(sess[u]).exit = sess[u].exit
    BY <1>0 DEF TypeOK, Entry, Unready
  <2> QED BY <1>8, <2>1 DEF Serve
<1>9. CASE Shutdown
  BY <1>9 DEF Shutdown
<1>10. CASE UNCHANGED sess
  BY <1>10
<1> QED
  BY <1>1, <1>2, <1>3, <1>4, <1>5, <1>6, <1>7, <1>8, <1>9, <1>10
  DEF Next, HolderDispatch, HolderLoop, HandleSpawnErr, HandleSpawnTorn, holderVars,
      HandleSplitRollback, HandleCancelPending, AutoDisarm, BrainEof, WatchdogKill,
      ChildExits, BrainDies, AnySend, AnyReceive, tableVars

\* A consumed status is dropped by no step but an ack or an abort that names
\* its incarnation, and the end of the holder.
THEOREM PendingSafe == Spec => PendingUntilAcked
<1>1. CustodyInv /\ [Next]_tableVars => [GivenUpByName]_tableVars
  BY PendingStep
<1> QED BY <1>1, CustodyInvariant, PTL DEF Spec, PendingUntilAcked
=============================================================================
