------------------------ MODULE RestartBarrierProofs ------------------------
(***************************************************************************)
(* Theorems about RestartBarrier, for every set of threads and children.    *)
(*                                                                         *)
(* None of the properties is inductive.  What carries them is BarrierInv:   *)
(* the latch (LatchInv) makes the one attempt's gates the only ones; the    *)
(* pause request (PauseInv) holds the watchers from the zero crossing to    *)
(* the exec; each freeze empties its gate and the gate stays empty          *)
(* (GateInv); a spawn past the zero crossing is an unfenced one (SpawnInv); *)
(* and the counts mutex orders each acknowledgement with the restarter's    *)
(* sleep (WakeInv).                                                        *)
(***************************************************************************)
EXTENDS RestartBarrier, TLAPS

\* The stages in which the subsystems are asked to pause.
Attempting == {"waiting", "deciding", "asleep", "rising", "sealed", "gone",
               "falling"}
\* The stages after the counter was seen at zero.
Past == {"rising", "sealed", "gone"}

\* The latch: whoever is in an attempt is alone in it, knows the drain to go
\* back to, and holds gates only while it climbs, hands over or falls.
LatchInv ==
  /\ \A r \in Restarters : at[r].stage # "idle" => restarting /\ at[r].prior = wish
  /\ \A r, q \in Restarters :
       at[r].stage # "idle" /\ at[q].stage # "idle" => r = q
  /\ \A r \in Restarters : at[r].held > 0 => at[r].stage \in Past \cup {"falling"}
  /\ \A r \in Restarters : at[r].stage \in {"sealed", "gone"} => at[r].held = Reading
  /\ ~restarting => draining = wish

\* The request: on exactly while an attempt asks, known to every handle, and
\* from the zero crossing to the exec it keeps every watcher from its poll.
PauseInv ==
  /\ pausing <=> \E r \in Restarters : at[r].stage \in Attempting
  /\ ~pausing => asked = {}
  /\ pausing => \A s \in Sessions : Registered(s) => s \in asked
  /\ (\E r \in Restarters : at[r].stage \in Past) =>
       \A s \in Sessions : watcher[s] \notin {"poll", "term"}

\* A closed gate: nobody is inside.
GateInv ==
  /\ Closed(Writing) => \A t \in Threads : unit[t] # "body"
  /\ Closed(Reaping) => \A s \in Sessions : child[s] # "consumed"
  /\ Closed(Reading) => holding = {}

Working(t) == call[t].pc \in {"ordered", "forked"}

\* The spawns: who works on which child, and that past the zero crossing only
\* unfenced ones are left.
SpawnInv ==
  /\ \A t \in Threads : unit[t] # "idle" =>
       call[t].pc = IF t \in Callers THEN "write" ELSE "idle"
  /\ \A t \in Threads : Working(t) =>
       /\ call[t].job \in Sessions \ listed
       /\ child[call[t].job] # "none"
       /\ call[t].pc = "forked" => child[call[t].job] \in {"running", "zombie"}
  /\ \A t, u \in Threads :
       Working(t) /\ Working(u) /\ call[t].job = call[u].job => t = u
  /\ \A s \in Sessions : child[s] \in {"running", "zombie"} /\ s \notin listed =>
       \E t \in Threads : call[t].pc = "forked" /\ call[t].job = s
  /\ \A s \in listed : child[s] \in {"running", "zombie", "consumed"}
  /\ \A t \in Threads :
       Working(t) /\ (t \in Background \/ \E r \in Restarters : at[r].stage \in Past)
         => call[t].job \in unfenced
  /\ (\E r \in Restarters : at[r].stage \in {"sealed", "gone"}) =>
       /\ manifest \subseteq listed
       /\ listed \ manifest \subseteq unfenced

\* The sleep: while the counts mutex is held the barrier is reached only by a
\* watcher that has still to notify, or that has exited.
WakeInv ==
  \A r \in Restarters :
    /\ at[r].stage = "deciding" /\ Quiescent =>
         \E s \in Sessions : watcher[s] \in {"acking", "exited"}
    /\ at[r].stage = "asleep" /\ Quiescent =>
         \/ \E c \in Callers : call[c].pc = "notifying"
         \/ \E s \in Sessions : watcher[s] \in {"acking", "exited"}

BarrierInv == /\ BarrierTypeOK
              /\ LatchInv
              /\ PauseInv
              /\ GateInv
              /\ SpawnInv
              /\ WakeInv

-----------------------------------------------------------------------------

\* Every step keeps the types; that a spawn in progress has a child is SpawnInv's.
LEMMA TypeStep ==
  ASSUME BarrierTypeOK, SpawnInv, BarrierNext
  PROVE  BarrierTypeOK'
<1>. USE DEF BarrierTypeOK, Stages, CallPcs, ChildStates, WatcherPcs, Door,
             Writing, Reaping, Reading, Threads, coordVars, drainVars,
             callVars, worldVars
<1>1. ASSUME NEW r \in Restarters, Begin(r) PROVE BarrierTypeOK'
  <2>1. at' \in [Restarters -> [stage : Stages, held : 0..Reading, prior : BOOLEAN]]
    BY <1>1 DEF Begin
  <2>. QED
    BY <1>1, <2>1 DEF Begin
<1>2. ASSUME NEW r \in Restarters, RequestPauseAll(r) PROVE BarrierTypeOK'
  BY <1>2 DEF RequestPauseAll, GoTo
<1>3. ASSUME NEW r \in Restarters, Quiesced(r) PROVE BarrierTypeOK'
  BY <1>3 DEF Quiesced, GoTo
<1>4. ASSUME NEW r \in Restarters, NotQuiesced(r) PROVE BarrierTypeOK'
  BY <1>4 DEF NotQuiesced, GoTo
<1>5. ASSUME NEW r \in Restarters, Sleep(r) PROVE BarrierTypeOK'
  BY <1>5 DEF Sleep, GoTo
<1>6. ASSUME NEW r \in Restarters, WakeUp(r) PROVE BarrierTypeOK'
  BY <1>6 DEF WakeUp, GoTo
<1>7. ASSUME NEW r \in Restarters, QuiesceTimedOut(r) PROVE BarrierTypeOK'
  BY <1>7 DEF QuiesceTimedOut, GoTo
<1>8. ASSUME NEW r \in Restarters, RequestWriterPause(r) PROVE BarrierTypeOK'
  BY <1>8 DEF RequestWriterPause, Climb
<1>9. ASSUME NEW r \in Restarters, FreezeWriters(r) PROVE BarrierTypeOK'
  BY <1>9 DEF FreezeWriters, Climb
<1>10. ASSUME NEW r \in Restarters,
         WriterFreezeTimedOut(r)
  PROVE  BarrierTypeOK'
  BY <1>10 DEF WriterFreezeTimedOut, GoTo
<1>11. ASSUME NEW r \in Restarters, FreezeReapers(r) PROVE BarrierTypeOK'
  BY <1>11 DEF FreezeReapers, Climb
<1>12. ASSUME NEW r \in Restarters, FreezeReaders(r) PROVE BarrierTypeOK'
  BY <1>12 DEF FreezeReaders, Climb
<1>13. ASSUME NEW r \in Restarters, Seal(r) PROVE BarrierTypeOK'
  BY <1>13 DEF Seal, GoTo
<1>14. ASSUME NEW r \in Restarters, Exec(r) PROVE BarrierTypeOK'
  BY <1>14 DEF Exec, GoTo
<1>15. ASSUME NEW r \in Restarters, StageFails(r) PROVE BarrierTypeOK'
  BY <1>15 DEF StageFails, GoTo
<1>16. ASSUME NEW r \in Restarters, Thaw(r) PROVE BarrierTypeOK'
  BY <1>16 DEF Thaw
<1>17. ASSUME NEW r \in Restarters, ResumeAll(r) PROVE BarrierTypeOK'
  <2>1. at' \in [Restarters -> [stage : Stages, held : 0..Reading, prior : BOOLEAN]]
    BY <1>17 DEF ResumeAll, GoTo
  <2>. QED
    BY <1>17, <2>1 DEF ResumeAll, GoTo
<1>18. ASSUME NEW r \in Restarters, RestoreFlags(r) PROVE BarrierTypeOK'
  <2>1. at' \in [Restarters -> [stage : Stages, held : 0..Reading, prior : BOOLEAN]]
    BY <1>18 DEF RestoreFlags, NoAttempt
  <2>. QED
    BY <1>18, <2>1 DEF RestoreFlags, NoAttempt
<1>19. ASSUME NEW enable \in BOOLEAN, DaemonDrain(enable) PROVE BarrierTypeOK'
  BY <1>19, Zenon DEF DaemonDrain
<1>20. ASSUME NEW c \in Callers, NEW method \in {"spawn", "start", "write"},
         EnterMutation(c, method)
  PROVE  BarrierTypeOK'
  BY <1>20 DEF EnterMutation
<1>21. ASSUME NEW b \in Background, NEW method \in {"spawn", "start"},
         BackgroundSpawn(b, method)
  PROVE  BarrierTypeOK'
  BY <1>21 DEF BackgroundSpawn
<1>22. ASSUME NEW t \in Threads, NEW s \in Sessions,
         Admit(t, s)
  PROVE  BarrierTypeOK'
  BY <1>22 DEF Admit
<1>23. ASSUME NEW t \in Threads, Refuse(t) PROVE BarrierTypeOK'
  BY <1>23 DEF Refuse, Leave
<1>24. ASSUME NEW t \in Threads, Fork(t) PROVE BarrierTypeOK'
  BY <1>24 DEF Fork
<1>25. ASSUME NEW t \in Threads, SpawnWatcher(t) PROVE BarrierTypeOK'
  BY <1>25 DEF SpawnWatcher
<1>26. ASSUME NEW t \in Threads, ArmAndInsert(t) PROVE BarrierTypeOK'
  BY <1>26 DEF ArmAndInsert, Leave, SpawnInv, Working
<1>27. ASSUME NEW t \in Threads, DropPending(t) PROVE BarrierTypeOK'
  BY <1>27 DEF DropPending, Leave
<1>28. ASSUME NEW c \in Callers, DropGuard(c) PROVE BarrierTypeOK'
  BY <1>28 DEF DropGuard
<1>29. ASSUME NEW c \in Callers, NotifyZero(c) PROVE BarrierTypeOK'
  BY <1>29 DEF NotifyZero, NotifyAll
<1>30. ASSUME NEW t \in Threads, PassDoor(t) PROVE BarrierTypeOK'
  BY <1>30 DEF PassDoor
<1>31. ASSUME NEW t \in Threads, TakePermit(t) PROVE BarrierTypeOK'
  BY <1>31 DEF TakePermit
<1>32. ASSUME NEW t \in Threads, FinishUnit(t) PROVE BarrierTypeOK'
  BY <1>32 DEF FinishUnit, Leave
<1>33. ASSUME NEW s \in Sessions, TakeBytes(s) PROVE BarrierTypeOK'
  BY <1>33 DEF TakeBytes
<1>34. ASSUME NEW s \in Sessions, PushBytes(s) PROVE BarrierTypeOK'
  BY <1>34 DEF PushBytes
<1>35. ASSUME NEW s \in Sessions, ChildDies(s) PROVE BarrierTypeOK'
  BY <1>35 DEF ChildDies
<1>36. ASSUME NEW s \in Sessions, ConsumeStatus(s) PROVE BarrierTypeOK'
  BY <1>36 DEF ConsumeStatus
<1>37. ASSUME NEW s \in Sessions, PersistExit(s) PROVE BarrierTypeOK'
  BY <1>37 DEF PersistExit
<1>38. ASSUME NEW s \in Sessions, RegisterSubsystem(s) PROVE BarrierTypeOK'
  BY <1>38 DEF RegisterSubsystem, MoveWatcher
<1>39. ASSUME NEW s \in Sessions, NoPark(s) PROVE BarrierTypeOK'
  BY <1>39 DEF NoPark, MoveWatcher
<1>40. ASSUME NEW s \in Sessions, Park(s) PROVE BarrierTypeOK'
  BY <1>40 DEF Park, MoveWatcher
<1>41. ASSUME NEW s \in Sessions, NotifyProgress(s) PROVE BarrierTypeOK'
  BY <1>41 DEF NotifyProgress, MoveWatcher, NotifyAll
<1>42. ASSUME NEW s \in Sessions, Unpark(s) PROVE BarrierTypeOK'
  BY <1>42 DEF Unpark, MoveWatcher
<1>43. ASSUME NEW s \in Sessions, NoBreach(s) PROVE BarrierTypeOK'
  BY <1>43 DEF NoBreach, MoveWatcher
<1>44. ASSUME NEW s \in Sessions, BreachTerm(s) PROVE BarrierTypeOK'
  BY <1>44 DEF BreachTerm, MoveWatcher
<1>45. ASSUME NEW s \in Sessions, BreachKill(s) PROVE BarrierTypeOK'
  BY <1>45 DEF BreachKill, MoveWatcher
<1>46. ASSUME NEW s \in Sessions, WatcherExits(s) PROVE BarrierTypeOK'
  BY <1>46 DEF WatcherExits, MoveWatcher
<1>. HIDE DEF BarrierTypeOK
<1>. QED
  BY <1>1, <1>2, <1>3, <1>4, <1>5, <1>6, <1>7, <1>8, <1>9, <1>10, <1>11,
     <1>12, <1>13, <1>14, <1>15, <1>16, <1>17, <1>18, <1>19, <1>20, <1>21,
     <1>22, <1>23, <1>24, <1>25, <1>26, <1>27, <1>28, <1>29, <1>30, <1>31,
     <1>32, <1>33, <1>34, <1>35, <1>36, <1>37, <1>38, <1>39, <1>40, <1>41,
     <1>42, <1>43, <1>44, <1>45, <1>46
     DEF BarrierNext, Proceed, Dispatch, Spawn, WriteInput, RunSession, Watch

\* Every step keeps LatchInv: begin takes the latch only when it is free, and the
\* abort gives it back last.
LEMMA LatchStep ==
  ASSUME BarrierTypeOK, LatchInv, BarrierNext
  PROVE  LatchInv'
<1>. USE DEF BarrierTypeOK, Stages, LatchInv, Past, Door, Writing, Reaping,
             Reading, coordVars, drainVars, callVars, worldVars
<1>1. ASSUME UNCHANGED <<at, drainVars>> PROVE LatchInv'
  BY <1>1
<1>2. ASSUME NEW r \in Restarters, Begin(r) PROVE LatchInv'
  BY <1>2 DEF Begin
<1>3. ASSUME NEW r \in Restarters, RequestPauseAll(r) PROVE LatchInv'
  BY <1>3 DEF RequestPauseAll, GoTo
<1>4. ASSUME NEW r \in Restarters, Quiesced(r) PROVE LatchInv'
  BY <1>4 DEF Quiesced, GoTo
<1>5. ASSUME NEW r \in Restarters, NotQuiesced(r) PROVE LatchInv'
  BY <1>5 DEF NotQuiesced, GoTo
<1>6. ASSUME NEW r \in Restarters, Sleep(r) PROVE LatchInv'
  BY <1>6 DEF Sleep, GoTo
<1>7. ASSUME NEW r \in Restarters, WakeUp(r) PROVE LatchInv'
  BY <1>7 DEF WakeUp, GoTo
<1>8. ASSUME NEW r \in Restarters, QuiesceTimedOut(r) PROVE LatchInv'
  BY <1>8 DEF QuiesceTimedOut, GoTo
<1>9. ASSUME NEW r \in Restarters, RequestWriterPause(r) PROVE LatchInv'
  BY <1>9 DEF RequestWriterPause, Climb
<1>10. ASSUME NEW r \in Restarters, FreezeWriters(r) PROVE LatchInv'
  BY <1>10 DEF FreezeWriters, Climb
<1>11. ASSUME NEW r \in Restarters, WriterFreezeTimedOut(r) PROVE LatchInv'
  BY <1>11 DEF WriterFreezeTimedOut, GoTo
<1>12. ASSUME NEW r \in Restarters, FreezeReapers(r) PROVE LatchInv'
  BY <1>12 DEF FreezeReapers, Climb
<1>13. ASSUME NEW r \in Restarters, FreezeReaders(r) PROVE LatchInv'
  BY <1>13 DEF FreezeReaders, Climb
<1>14. ASSUME NEW r \in Restarters, Seal(r) PROVE LatchInv'
  BY <1>14 DEF Seal, GoTo
<1>15. ASSUME NEW r \in Restarters, Exec(r) PROVE LatchInv'
  BY <1>15 DEF Exec, GoTo
<1>16. ASSUME NEW r \in Restarters, StageFails(r) PROVE LatchInv'
  BY <1>16 DEF StageFails, GoTo
<1>17. ASSUME NEW r \in Restarters, Thaw(r) PROVE LatchInv'
  BY <1>17 DEF Thaw
<1>18. ASSUME NEW r \in Restarters, ResumeAll(r) PROVE LatchInv'
  BY <1>18 DEF ResumeAll, GoTo
<1>19. ASSUME NEW r \in Restarters, RestoreFlags(r) PROVE LatchInv'
  <2>1. at[r].prior = wish
    BY <1>19 DEF RestoreFlags, LatchInv
  <2>2. draining' = wish'
    BY <1>19, <2>1, Zenon DEF RestoreFlags
  <2>3. \A q \in Restarters : at'[q].stage = "idle" /\ at'[q].held = 0
    BY <1>19 DEF RestoreFlags, NoAttempt, BarrierTypeOK, LatchInv, Past, Reading
  <2>. QED
    BY <1>19, <2>2, <2>3 DEF RestoreFlags, LatchInv, Past
<1>20. ASSUME NEW enable \in BOOLEAN, DaemonDrain(enable) PROVE LatchInv'
  BY <1>20 DEF DaemonDrain
<1>21. ASSUME NEW c \in Callers, NotifyZero(c) PROVE LatchInv'
  BY <1>21 DEF NotifyZero, NotifyAll
<1>22. ASSUME NEW s \in Sessions, NotifyProgress(s) PROVE LatchInv'
  BY <1>22 DEF NotifyProgress, MoveWatcher, NotifyAll
<1>. HIDE DEF LatchInv
<1>. QED
  BY <1>1, <1>2, <1>3, <1>4, <1>5, <1>6, <1>7, <1>8, <1>9, <1>10, <1>11,
     <1>12, <1>13, <1>14, <1>15, <1>16, <1>17, <1>18, <1>19, <1>20, <1>21,
     <1>22
     DEF BarrierNext, Proceed, Dispatch, Spawn, WriteInput, RunSession, Watch,
         EnterMutation, BackgroundSpawn, Admit, Refuse, Fork, SpawnWatcher,
         ArmAndInsert, DropPending, DropGuard, PassDoor, TakePermit,
         FinishUnit, TakeBytes, PushBytes, ChildDies, ConsumeStatus,
         PersistExit, RegisterSubsystem, NoPark, Park, Unpark, NoBreach,
         BreachTerm, BreachKill, WatcherExits, Leave, MoveWatcher

\* Every step keeps PauseInv: a handle is asked when the pause begins or when it
\* registers, and from the zero crossing on no asked watcher leaves its safe point.
LEMMA PauseStep ==
  ASSUME BarrierTypeOK, LatchInv, PauseInv, BarrierNext
  PROVE  PauseInv'
<1>. USE DEF BarrierTypeOK, Stages, WatcherPcs, LatchInv, PauseInv, Past,
             Attempting, Registered, Paused, UnpausedSubsystems, Quiescent,
             coordVars, drainVars, callVars, worldVars
<1>1. ASSUME UNCHANGED <<at, pausing, asked, watcher>> PROVE PauseInv'
  BY <1>1
<1>2. ASSUME NEW r \in Restarters, Begin(r) PROVE PauseInv'
  BY <1>2 DEF Begin
<1>3. ASSUME NEW r \in Restarters, RequestPauseAll(r) PROVE PauseInv'
  BY <1>3 DEF RequestPauseAll, GoTo
<1>4. ASSUME NEW r \in Restarters, Quiesced(r) PROVE PauseInv'
  BY <1>4 DEF Quiesced, GoTo
<1>5. ASSUME NEW r \in Restarters, NotQuiesced(r) PROVE PauseInv'
  BY <1>5 DEF NotQuiesced, GoTo
<1>6. ASSUME NEW r \in Restarters, Sleep(r) PROVE PauseInv'
  BY <1>6 DEF Sleep, GoTo
<1>7. ASSUME NEW r \in Restarters, WakeUp(r) PROVE PauseInv'
  BY <1>7 DEF WakeUp, GoTo
<1>8. ASSUME NEW r \in Restarters, QuiesceTimedOut(r) PROVE PauseInv'
  BY <1>8 DEF QuiesceTimedOut, GoTo
<1>9. ASSUME NEW r \in Restarters, RequestWriterPause(r) PROVE PauseInv'
  BY <1>9 DEF RequestWriterPause, Climb
<1>10. ASSUME NEW r \in Restarters, FreezeWriters(r) PROVE PauseInv'
  BY <1>10 DEF FreezeWriters, Climb
<1>11. ASSUME NEW r \in Restarters, WriterFreezeTimedOut(r) PROVE PauseInv'
  BY <1>11 DEF WriterFreezeTimedOut, GoTo
<1>12. ASSUME NEW r \in Restarters, FreezeReapers(r) PROVE PauseInv'
  BY <1>12 DEF FreezeReapers, Climb
<1>13. ASSUME NEW r \in Restarters, FreezeReaders(r) PROVE PauseInv'
  BY <1>13 DEF FreezeReaders, Climb
<1>14. ASSUME NEW r \in Restarters, Seal(r) PROVE PauseInv'
  BY <1>14 DEF Seal, GoTo
<1>15. ASSUME NEW r \in Restarters, Exec(r) PROVE PauseInv'
  BY <1>15 DEF Exec, GoTo
<1>16. ASSUME NEW r \in Restarters, StageFails(r) PROVE PauseInv'
  BY <1>16 DEF StageFails, GoTo
<1>17. ASSUME NEW r \in Restarters, Thaw(r) PROVE PauseInv'
  BY <1>17 DEF Thaw
<1>18. ASSUME NEW r \in Restarters, ResumeAll(r) PROVE PauseInv'
  BY <1>18 DEF ResumeAll, GoTo
<1>19. ASSUME NEW r \in Restarters, RestoreFlags(r) PROVE PauseInv'
  BY <1>19 DEF RestoreFlags, NoAttempt
<1>20. ASSUME NEW t \in Threads, SpawnWatcher(t) PROVE PauseInv'
  BY <1>20 DEF SpawnWatcher
<1>21. ASSUME NEW c \in Callers, NotifyZero(c) PROVE PauseInv'
  BY <1>21 DEF NotifyZero, NotifyAll
<1>22. ASSUME NEW s \in Sessions, RegisterSubsystem(s) PROVE PauseInv'
  BY <1>22 DEF RegisterSubsystem, MoveWatcher
<1>23. ASSUME NEW s \in Sessions, NoPark(s) PROVE PauseInv'
  BY <1>23 DEF NoPark, MoveWatcher
<1>24. ASSUME NEW s \in Sessions, Park(s) PROVE PauseInv'
  BY <1>24 DEF Park, MoveWatcher
<1>25. ASSUME NEW s \in Sessions, NotifyProgress(s) PROVE PauseInv'
  BY <1>25 DEF NotifyProgress, MoveWatcher, NotifyAll
<1>26. ASSUME NEW s \in Sessions, Unpark(s) PROVE PauseInv'
  BY <1>26 DEF Unpark, MoveWatcher
<1>27. ASSUME NEW s \in Sessions, NoBreach(s) PROVE PauseInv'
  BY <1>27 DEF NoBreach, MoveWatcher
<1>28. ASSUME NEW s \in Sessions, BreachTerm(s) PROVE PauseInv'
  BY <1>28 DEF BreachTerm, MoveWatcher
<1>29. ASSUME NEW s \in Sessions, BreachKill(s) PROVE PauseInv'
  BY <1>29 DEF BreachKill, MoveWatcher
<1>30. ASSUME NEW s \in Sessions, WatcherExits(s) PROVE PauseInv'
  BY <1>30 DEF WatcherExits, MoveWatcher
<1>. HIDE DEF PauseInv
<1>. QED
  BY <1>1, <1>2, <1>3, <1>4, <1>5, <1>6, <1>7, <1>8, <1>9, <1>10, <1>11,
     <1>12, <1>13, <1>14, <1>15, <1>16, <1>17, <1>18, <1>19, <1>20, <1>21,
     <1>22, <1>23, <1>24, <1>25, <1>26, <1>27, <1>28, <1>29, <1>30
     DEF BarrierNext, Proceed, Dispatch, Spawn, WriteInput, RunSession, Watch,
         DaemonDrain, EnterMutation, BackgroundSpawn, Admit, Refuse, Fork,
         ArmAndInsert, DropPending, DropGuard, PassDoor, TakePermit,
         FinishUnit, TakeBytes, PushBytes, ChildDies, ConsumeStatus,
         PersistExit, Leave

\* Every step keeps GateInv: a freeze waits for whoever is inside, and nobody gets
\* in past a closed gate.
LEMMA GateStep ==
  ASSUME BarrierTypeOK, LatchInv, GateInv, BarrierNext
  PROVE  GateInv'
<1>. USE DEF BarrierTypeOK, LatchInv, Past, Stages, Threads, ChildStates,
             GateInv, Closed, Door, Writing, Reaping, Reading, coordVars,
             drainVars, callVars, worldVars
<1>1. ASSUME UNCHANGED <<at, unit, child, holding>> PROVE GateInv'
  BY <1>1
<1>2. ASSUME NEW r \in Restarters, Begin(r) PROVE GateInv'
  BY <1>2 DEF Begin
<1>3. ASSUME NEW r \in Restarters, RequestPauseAll(r) PROVE GateInv'
  BY <1>3 DEF RequestPauseAll, GoTo
<1>4. ASSUME NEW r \in Restarters, Quiesced(r) PROVE GateInv'
  BY <1>4 DEF Quiesced, GoTo
<1>5. ASSUME NEW r \in Restarters, NotQuiesced(r) PROVE GateInv'
  BY <1>5 DEF NotQuiesced, GoTo
<1>6. ASSUME NEW r \in Restarters, Sleep(r) PROVE GateInv'
  BY <1>6 DEF Sleep, GoTo
<1>7. ASSUME NEW r \in Restarters, WakeUp(r) PROVE GateInv'
  BY <1>7 DEF WakeUp, GoTo
<1>8. ASSUME NEW r \in Restarters, QuiesceTimedOut(r) PROVE GateInv'
  BY <1>8 DEF QuiesceTimedOut, GoTo
<1>9. ASSUME NEW r \in Restarters, RequestWriterPause(r) PROVE GateInv'
  BY <1>9 DEF RequestWriterPause, Climb
<1>10. ASSUME NEW r \in Restarters, FreezeWriters(r) PROVE GateInv'
  BY <1>10 DEF FreezeWriters, Climb
<1>11. ASSUME NEW r \in Restarters, WriterFreezeTimedOut(r) PROVE GateInv'
  BY <1>11 DEF WriterFreezeTimedOut, GoTo
<1>12. ASSUME NEW r \in Restarters, FreezeReapers(r) PROVE GateInv'
  BY <1>12 DEF FreezeReapers, Climb
<1>13. ASSUME NEW r \in Restarters, FreezeReaders(r) PROVE GateInv'
  BY <1>13 DEF FreezeReaders, Climb
<1>14. ASSUME NEW r \in Restarters, Seal(r) PROVE GateInv'
  BY <1>14 DEF Seal, GoTo
<1>15. ASSUME NEW r \in Restarters, Exec(r) PROVE GateInv'
  BY <1>15 DEF Exec, GoTo
<1>16. ASSUME NEW r \in Restarters, StageFails(r) PROVE GateInv'
  BY <1>16 DEF StageFails, GoTo
<1>17. ASSUME NEW r \in Restarters, Thaw(r) PROVE GateInv'
  BY <1>17 DEF Thaw
<1>18. ASSUME NEW r \in Restarters, ResumeAll(r) PROVE GateInv'
  BY <1>18 DEF ResumeAll, GoTo
<1>19. ASSUME NEW r \in Restarters, RestoreFlags(r) PROVE GateInv'
  BY <1>19 DEF RestoreFlags, NoAttempt
<1>20. ASSUME NEW t \in Threads, NEW s \in Sessions, Admit(t, s) PROVE GateInv'
  BY <1>20 DEF Admit
<1>21. ASSUME NEW t \in Threads, Fork(t) PROVE GateInv'
  BY <1>21 DEF Fork
<1>22. ASSUME NEW t \in Threads, DropPending(t) PROVE GateInv'
  BY <1>22 DEF DropPending, Leave
<1>23. ASSUME NEW c \in Callers, NotifyZero(c) PROVE GateInv'
  BY <1>23 DEF NotifyZero, NotifyAll
<1>24. ASSUME NEW t \in Threads, PassDoor(t) PROVE GateInv'
  BY <1>24 DEF PassDoor
<1>25. ASSUME NEW t \in Threads, TakePermit(t) PROVE GateInv'
  BY <1>25 DEF TakePermit
<1>26. ASSUME NEW t \in Threads, FinishUnit(t) PROVE GateInv'
  BY <1>26 DEF FinishUnit, Leave
<1>27. ASSUME NEW s \in Sessions, TakeBytes(s) PROVE GateInv'
  BY <1>27 DEF TakeBytes
<1>28. ASSUME NEW s \in Sessions, PushBytes(s) PROVE GateInv'
  BY <1>28 DEF PushBytes
<1>29. ASSUME NEW s \in Sessions, ChildDies(s) PROVE GateInv'
  BY <1>29 DEF ChildDies
<1>30. ASSUME NEW s \in Sessions, ConsumeStatus(s) PROVE GateInv'
  BY <1>30 DEF ConsumeStatus
<1>31. ASSUME NEW s \in Sessions, PersistExit(s) PROVE GateInv'
  BY <1>31 DEF PersistExit
<1>32. ASSUME NEW s \in Sessions, NotifyProgress(s) PROVE GateInv'
  BY <1>32 DEF NotifyProgress, MoveWatcher, NotifyAll
<1>. HIDE DEF GateInv
<1>. QED
  BY <1>1, <1>2, <1>3, <1>4, <1>5, <1>6, <1>7, <1>8, <1>9, <1>10, <1>11,
     <1>12, <1>13, <1>14, <1>15, <1>16, <1>17, <1>18, <1>19, <1>20, <1>21,
     <1>22, <1>23, <1>24, <1>25, <1>26, <1>27, <1>28, <1>29, <1>30, <1>31,
     <1>32
     DEF BarrierNext, Proceed, Dispatch, Spawn, WriteInput, RunSession, Watch,
         DaemonDrain, EnterMutation, BackgroundSpawn, Refuse, SpawnWatcher,
         ArmAndInsert, DropGuard, RegisterSubsystem, NoPark, Park, Unpark,
         NoBreach, BreachTerm, BreachKill, WatcherExits, Leave, MoveWatcher

\* Every step keeps SpawnInv: a counted spawn keeps the counter from zero until
\* its child is listed or reaped.
LEMMA SpawnStep ==
  ASSUME BarrierTypeOK, LatchInv, GateInv, SpawnInv, BarrierNext
  PROVE  SpawnInv'
<1>. USE DEF BarrierTypeOK, SpawnInv, Working, Past, Threads, InFlight,
             Stages, CallPcs, ChildStates, coordVars, drainVars, callVars,
             worldVars
<1>1. ASSUME UNCHANGED <<at, call, unit, child, listed, unfenced, manifest>>
      PROVE  SpawnInv'
  BY <1>1
<1>2. ASSUME NEW r \in Restarters, Begin(r) PROVE SpawnInv'
  BY <1>2 DEF Begin
<1>3. ASSUME NEW r \in Restarters, RequestPauseAll(r) PROVE SpawnInv'
  BY <1>3 DEF RequestPauseAll, GoTo
<1>4. ASSUME NEW r \in Restarters, Quiesced(r) PROVE SpawnInv'
  BY <1>4 DEF Quiesced, GoTo, Quiescent
<1>5. ASSUME NEW r \in Restarters, NotQuiesced(r) PROVE SpawnInv'
  BY <1>5 DEF NotQuiesced, GoTo
<1>6. ASSUME NEW r \in Restarters, Sleep(r) PROVE SpawnInv'
  BY <1>6 DEF Sleep, GoTo
<1>7. ASSUME NEW r \in Restarters, WakeUp(r) PROVE SpawnInv'
  BY <1>7 DEF WakeUp, GoTo
<1>8. ASSUME NEW r \in Restarters, QuiesceTimedOut(r) PROVE SpawnInv'
  BY <1>8 DEF QuiesceTimedOut, GoTo
<1>9. ASSUME NEW r \in Restarters, RequestWriterPause(r) PROVE SpawnInv'
  BY <1>9 DEF RequestWriterPause, Climb
<1>10. ASSUME NEW r \in Restarters, FreezeWriters(r) PROVE SpawnInv'
  BY <1>10 DEF FreezeWriters, Climb
<1>11. ASSUME NEW r \in Restarters, WriterFreezeTimedOut(r) PROVE SpawnInv'
  BY <1>11 DEF WriterFreezeTimedOut, GoTo
<1>12. ASSUME NEW r \in Restarters, FreezeReapers(r) PROVE SpawnInv'
  BY <1>12 DEF FreezeReapers, Climb
<1>13. ASSUME NEW r \in Restarters, FreezeReaders(r) PROVE SpawnInv'
  BY <1>13 DEF FreezeReaders, Climb
<1>14. ASSUME NEW r \in Restarters, Seal(r) PROVE SpawnInv'
  BY <1>14 DEF Seal, GoTo
<1>15. ASSUME NEW r \in Restarters, Exec(r) PROVE SpawnInv'
  BY <1>15 DEF Exec, GoTo
<1>16. ASSUME NEW r \in Restarters, StageFails(r) PROVE SpawnInv'
  BY <1>16 DEF StageFails, GoTo, LatchInv
<1>17. ASSUME NEW r \in Restarters, Thaw(r) PROVE SpawnInv'
  BY <1>17 DEF Thaw
<1>18. ASSUME NEW r \in Restarters, ResumeAll(r) PROVE SpawnInv'
  BY <1>18 DEF ResumeAll, GoTo
<1>19. ASSUME NEW r \in Restarters, RestoreFlags(r) PROVE SpawnInv'
  BY <1>19 DEF RestoreFlags, NoAttempt
<1>20. ASSUME NEW c \in Callers, NEW method \in {"spawn", "start", "write"},
         EnterMutation(c, method)
  PROVE  SpawnInv'
  BY <1>20 DEF EnterMutation
<1>21. ASSUME NEW b \in Background, NEW method \in {"spawn", "start"},
         BackgroundSpawn(b, method)
  PROVE  SpawnInv'
  BY <1>21 DEF BackgroundSpawn
<1>22. ASSUME NEW t \in Threads, NEW s \in Sessions,
         Admit(t, s)
  PROVE  SpawnInv'
  BY <1>22 DEF Admit, LatchInv, Unfenced
<1>23. ASSUME NEW t \in Threads, Refuse(t) PROVE SpawnInv'
  BY <1>23 DEF Refuse, Leave
<1>24. ASSUME NEW t \in Threads, Fork(t) PROVE SpawnInv'
  BY <1>24 DEF Fork
<1>25. ASSUME NEW t \in Threads, ArmAndInsert(t) PROVE SpawnInv'
  BY <1>25 DEF ArmAndInsert, Leave
<1>26. ASSUME NEW t \in Threads, DropPending(t) PROVE SpawnInv'
  BY <1>26 DEF DropPending, Leave
<1>27. ASSUME NEW c \in Callers, DropGuard(c) PROVE SpawnInv'
  BY <1>27 DEF DropGuard
<1>28. ASSUME NEW c \in Callers, NotifyZero(c) PROVE SpawnInv'
  BY <1>28 DEF NotifyZero, NotifyAll
<1>29. ASSUME NEW t \in Threads, PassDoor(t) PROVE SpawnInv'
  BY <1>29 DEF PassDoor
<1>30. ASSUME NEW t \in Threads, TakePermit(t) PROVE SpawnInv'
  BY <1>30 DEF TakePermit
<1>31. ASSUME NEW t \in Threads, FinishUnit(t) PROVE SpawnInv'
  BY <1>31 DEF FinishUnit, Leave
<1>32. ASSUME NEW s \in Sessions, ChildDies(s) PROVE SpawnInv'
  BY <1>32 DEF ChildDies
<1>33. ASSUME NEW s \in Sessions, ConsumeStatus(s) PROVE SpawnInv'
  BY <1>33 DEF ConsumeStatus
<1>34. ASSUME NEW s \in Sessions, PersistExit(s) PROVE SpawnInv'
  BY <1>34 DEF PersistExit, LatchInv, GateInv, Closed, Reaping,
     Reading
<1>35. ASSUME NEW s \in Sessions, NotifyProgress(s) PROVE SpawnInv'
  BY <1>35 DEF NotifyProgress, MoveWatcher, NotifyAll
<1>. HIDE DEF SpawnInv
<1>. QED
  BY <1>1, <1>2, <1>3, <1>4, <1>5, <1>6, <1>7, <1>8, <1>9, <1>10, <1>11,
     <1>12, <1>13, <1>14, <1>15, <1>16, <1>17, <1>18, <1>19, <1>20, <1>21,
     <1>22, <1>23, <1>24, <1>25, <1>26, <1>27, <1>28, <1>29, <1>30, <1>31,
     <1>32, <1>33, <1>34, <1>35
     DEF BarrierNext, Proceed, Dispatch, Spawn, WriteInput, RunSession, Watch,
         DaemonDrain, SpawnWatcher, TakeBytes, PushBytes, RegisterSubsystem,
         NoPark, Park, Unpark, NoBreach, BreachTerm, BreachKill, WatcherExits,
         MoveWatcher

\* Every step keeps WakeInv: who reaches the barrier while a restarter decides
\* or sleeps still has its notify ahead.
LEMMA WakeStep ==
  ASSUME BarrierTypeOK, LatchInv, WakeInv, BarrierNext
  PROVE  WakeInv'
<1>. USE DEF BarrierTypeOK, WakeInv, Quiescent, InFlight, UnpausedSubsystems,
             Registered, Paused, CountsLocked, Threads, Stages, CallPcs,
             WatcherPcs, coordVars, drainVars, callVars, worldVars
<1>1. ASSUME UNCHANGED <<at, call, watcher>> PROVE WakeInv'
  BY <1>1
<1>2. ASSUME NEW r \in Restarters, Begin(r) PROVE WakeInv'
  BY <1>2 DEF Begin
<1>3. ASSUME NEW r \in Restarters, RequestPauseAll(r) PROVE WakeInv'
  BY <1>3 DEF RequestPauseAll, GoTo
<1>4. ASSUME NEW r \in Restarters, Quiesced(r) PROVE WakeInv'
  BY <1>4 DEF Quiesced, GoTo
<1>5. ASSUME NEW r \in Restarters, NotQuiesced(r) PROVE WakeInv'
  BY <1>5 DEF NotQuiesced, GoTo
<1>6. ASSUME NEW r \in Restarters, Sleep(r) PROVE WakeInv'
  BY <1>6 DEF Sleep, GoTo
<1>7. ASSUME NEW r \in Restarters, WakeUp(r) PROVE WakeInv'
  BY <1>7 DEF WakeUp, GoTo
<1>8. ASSUME NEW r \in Restarters, QuiesceTimedOut(r) PROVE WakeInv'
  BY <1>8 DEF QuiesceTimedOut, GoTo
<1>9. ASSUME NEW r \in Restarters, RequestWriterPause(r) PROVE WakeInv'
  BY <1>9 DEF RequestWriterPause, Climb
<1>10. ASSUME NEW r \in Restarters, FreezeWriters(r) PROVE WakeInv'
  BY <1>10 DEF FreezeWriters, Climb
<1>11. ASSUME NEW r \in Restarters, WriterFreezeTimedOut(r) PROVE WakeInv'
  BY <1>11 DEF WriterFreezeTimedOut, GoTo
<1>12. ASSUME NEW r \in Restarters, FreezeReapers(r) PROVE WakeInv'
  BY <1>12 DEF FreezeReapers, Climb
<1>13. ASSUME NEW r \in Restarters, FreezeReaders(r) PROVE WakeInv'
  BY <1>13 DEF FreezeReaders, Climb
<1>14. ASSUME NEW r \in Restarters, Seal(r) PROVE WakeInv'
  BY <1>14 DEF Seal, GoTo
<1>15. ASSUME NEW r \in Restarters, Exec(r) PROVE WakeInv'
  BY <1>15 DEF Exec, GoTo
<1>16. ASSUME NEW r \in Restarters, StageFails(r) PROVE WakeInv'
  BY <1>16 DEF StageFails, GoTo
<1>17. ASSUME NEW r \in Restarters, Thaw(r) PROVE WakeInv'
  BY <1>17 DEF Thaw
<1>18. ASSUME NEW r \in Restarters, ResumeAll(r) PROVE WakeInv'
  BY <1>18 DEF ResumeAll, GoTo
<1>19. ASSUME NEW r \in Restarters, RestoreFlags(r) PROVE WakeInv'
  BY <1>19 DEF RestoreFlags, NoAttempt
<1>20. ASSUME NEW c \in Callers, NEW method \in {"spawn", "start", "write"},
         EnterMutation(c, method)
  PROVE  WakeInv'
  BY <1>20 DEF EnterMutation
<1>21. ASSUME NEW b \in Background, NEW method \in {"spawn", "start"},
         BackgroundSpawn(b, method)
  PROVE  WakeInv'
  BY <1>21 DEF BackgroundSpawn
<1>22. ASSUME NEW t \in Threads, NEW s \in Sessions, Admit(t, s) PROVE WakeInv'
  BY <1>22 DEF Admit
<1>23. ASSUME NEW t \in Threads, Refuse(t) PROVE WakeInv'
  BY <1>23 DEF Refuse, Leave
<1>24. ASSUME NEW t \in Threads, Fork(t) PROVE WakeInv'
  BY <1>24 DEF Fork
<1>25. ASSUME NEW t \in Threads, SpawnWatcher(t) PROVE WakeInv'
  BY <1>25 DEF SpawnWatcher
<1>26. ASSUME NEW t \in Threads, ArmAndInsert(t) PROVE WakeInv'
  BY <1>26 DEF ArmAndInsert, Leave
<1>27. ASSUME NEW t \in Threads, DropPending(t) PROVE WakeInv'
  BY <1>27 DEF DropPending, Leave
<1>28. ASSUME NEW c \in Callers, DropGuard(c) PROVE WakeInv'
  BY <1>28 DEF DropGuard
<1>29. ASSUME NEW c \in Callers, NotifyZero(c) PROVE WakeInv'
  BY <1>29 DEF NotifyZero, NotifyAll
<1>30. ASSUME NEW t \in Threads, FinishUnit(t) PROVE WakeInv'
  BY <1>30 DEF FinishUnit, Leave
<1>31. ASSUME NEW s \in Sessions, RegisterSubsystem(s) PROVE WakeInv'
  BY <1>31 DEF RegisterSubsystem, MoveWatcher
<1>32. ASSUME NEW s \in Sessions, NoPark(s) PROVE WakeInv'
  BY <1>32 DEF NoPark, MoveWatcher
<1>33. ASSUME NEW s \in Sessions, Park(s) PROVE WakeInv'
  BY <1>33 DEF Park, MoveWatcher
<1>34. ASSUME NEW s \in Sessions, NotifyProgress(s) PROVE WakeInv'
  BY <1>34 DEF NotifyProgress, MoveWatcher, NotifyAll
<1>35. ASSUME NEW s \in Sessions, Unpark(s) PROVE WakeInv'
  BY <1>35 DEF Unpark, MoveWatcher
<1>36. ASSUME NEW s \in Sessions, NoBreach(s) PROVE WakeInv'
  BY <1>36 DEF NoBreach, MoveWatcher
<1>37. ASSUME NEW s \in Sessions, BreachTerm(s) PROVE WakeInv'
  BY <1>37 DEF BreachTerm, MoveWatcher
<1>38. ASSUME NEW s \in Sessions, BreachKill(s) PROVE WakeInv'
  BY <1>38 DEF BreachKill, MoveWatcher
<1>39. ASSUME NEW s \in Sessions, WatcherExits(s) PROVE WakeInv'
  BY <1>39 DEF WatcherExits, MoveWatcher
<1>. HIDE DEF WakeInv
<1>. QED
  BY <1>1, <1>2, <1>3, <1>4, <1>5, <1>6, <1>7, <1>8, <1>9, <1>10, <1>11,
     <1>12, <1>13, <1>14, <1>15, <1>16, <1>17, <1>18, <1>19, <1>20, <1>21,
     <1>22, <1>23, <1>24, <1>25, <1>26, <1>27, <1>28, <1>29, <1>30, <1>31,
     <1>32, <1>33, <1>34, <1>35, <1>36, <1>37, <1>38, <1>39
     DEF BarrierNext, Proceed, Dispatch, Spawn, WriteInput, RunSession, Watch,
         DaemonDrain, PassDoor, TakePermit, TakeBytes, PushBytes, ChildDies,
         ConsumeStatus, PersistExit

-----------------------------------------------------------------------------

\* Every daemon starts in it: no attempt, no request, and a listed child runs.
LEMMA BarrierStart == BarrierInit => BarrierInv
<1>. SUFFICES ASSUME BarrierInit PROVE BarrierInv
  OBVIOUS
<1>. USE DEF BarrierInit, NoAttempt, NoCall
<1>1. BarrierTypeOK
  <2>1. wish \in BOOLEAN
    BY Zenon
  <2>2. PICK capped \in SUBSET listed :
          watcher = [s \in Sessions |-> IF s \in capped THEN "top" ELSE "none"]
    OBVIOUS
  <2>3. watcher \in [Sessions -> WatcherPcs]
    BY <2>2 DEF WatcherPcs
  <2>4. at \in [Restarters -> [stage : Stages, held : 0..Reading, prior : BOOLEAN]]
    BY DEF Stages, Reading
  <2>5. /\ call \in [Threads -> [pc : CallPcs, job : Sessions \cup {NoSession}]]
        /\ unit \in [Threads -> {"idle", "passed", "body"}]
        /\ child \in [Sessions -> ChildStates]
    BY DEF CallPcs, ChildStates
  <2>6. /\ draining \in BOOLEAN /\ restarting \in BOOLEAN /\ pausing \in BOOLEAN
        /\ asked \subseteq Sessions /\ listed \subseteq Sessions
        /\ holding \subseteq Sessions /\ unfenced \subseteq Sessions
        /\ manifest \subseteq Sessions
    OBVIOUS
  <2>. HIDE DEF BarrierInit
  <2>. QED
    BY <2>1, <2>3, <2>4, <2>5, <2>6 DEF BarrierTypeOK
<1>2. LatchInv
  <2>1. draining = wish
    BY Zenon
  <2>. QED
    BY <2>1 DEF LatchInv, Past
<1>3. PauseInv
  BY DEF PauseInv, Attempting, Past
<1>4. GateInv
  BY DEF GateInv, Closed, Writing, Reaping, Reading
<1>5. SpawnInv
  BY DEF SpawnInv, Working, Past
<1>6. WakeInv
  BY DEF WakeInv
<1>. QED
  BY <1>1, <1>2, <1>3, <1>4, <1>5, <1>6 DEF BarrierInv

\* Every step of the specification keeps all of it.
LEMMA BarrierStep == BarrierInv /\ [BarrierNext]_barVars => BarrierInv'
<1>. SUFFICES ASSUME BarrierInv, [BarrierNext]_barVars PROVE BarrierInv'
  OBVIOUS
<1>1. CASE BarrierNext
  BY <1>1, TypeStep, LatchStep, PauseStep, GateStep, SpawnStep, WakeStep
     DEF BarrierInv
<1>2. CASE UNCHANGED barVars
  BY <1>2
     DEF barVars, BarrierInv, BarrierTypeOK, LatchInv, PauseInv, GateInv,
         SpawnInv, WakeInv, Closed, Working, Registered, Paused, InFlight,
         UnpausedSubsystems, Quiescent
<1>. QED
  BY <1>1, <1>2

\* BarrierInv holds in every reachable state, for every set of restarters,
\* callers, background threads and children.
THEOREM BarrierInvariant == BarrierSpec => []BarrierInv
<1>. QED
  BY BarrierStart, BarrierStep, PTL DEF BarrierSpec

\* The types, for every instance: no abort drops a guard it does not hold, and
\* every spawn in progress has a child.
THEOREM BarrierTypeCorrect == BarrierSpec => []BarrierTypeOK
<1>1. BarrierInv => BarrierTypeOK
  BY DEF BarrierInv
<1>. QED
  BY <1>1, BarrierInvariant, PTL

\* No exec happens with a write, a read, a reap or an escalation half done.
THEOREM NothingTornSafe == BarrierSpec => []NothingTorn
<1>1. BarrierInv => NothingTorn
  <2>. SUFFICES ASSUME BarrierInv, NEW r \in Restarters,
                       at[r].stage \in {"sealed", "gone"}
                PROVE  NothingTorn
    BY DEF NothingTorn
  <2>1. Closed(Writing) /\ Closed(Reaping) /\ Closed(Reading)
    BY DEF BarrierInv, LatchInv, Closed, Writing, Reaping, Reading
  <2>. QED
    BY <2>1 DEF BarrierInv, BarrierTypeOK, GateInv, PauseInv, Past, NothingTorn
<1>. QED
  BY <1>1, BarrierInvariant, PTL

\* The latch admits one attempt, and no other thread holds a gate.
THEOREM OneAttemptSafe == BarrierSpec => []OneAttempt
<1>1. BarrierInv => OneAttempt
  BY DEF BarrierInv, LatchInv, Past, OneAttempt
<1>. QED
  BY <1>1, BarrierInvariant, PTL

\* Between attempts nothing of an earlier one is left: no request, no closed
\* door, no drain but the operator's.
THEOREM AbortRestoresSafe == BarrierSpec => []AbortRestores
<1>1. BarrierInv => AbortRestores
  <2>. SUFFICES ASSUME BarrierInv, ~restarting PROVE AbortRestores
    BY DEF AbortRestores
  <2>1. \A r \in Restarters : at[r].stage = "idle"
    BY DEF BarrierInv, LatchInv
  <2>2. ~pausing /\ asked = {}
    BY <2>1 DEF BarrierInv, PauseInv, Attempting
  <2>3. ~Closed(Door)
    BY <2>1 DEF BarrierInv, BarrierTypeOK, LatchInv, Past, Closed, Door, Reading
  <2>4. draining = wish
    BY DEF BarrierInv, LatchInv
  <2>. QED
    BY <2>2, <2>3, <2>4, Zenon DEF AbortRestores
<1>. QED
  BY <1>1, BarrierInvariant, PTL

\* The new image gets every child but those of unfenced spawns, and no corpse.
THEOREM HandedOffSafe == BarrierSpec => []HandedOff
<1>1. BarrierInv => HandedOff
  <2>. SUFFICES ASSUME BarrierInv, NEW r \in Restarters, at[r].stage = "gone"
                PROVE  HandedOff
    BY DEF HandedOff, Up
  <2>1. \A s \in Sessions : child[s] # "consumed"
    BY DEF BarrierInv, LatchInv, GateInv, Closed, Reaping, Reading
  <2>2. /\ manifest \subseteq listed
        /\ listed \ manifest \subseteq unfenced
    BY DEF BarrierInv, SpawnInv
  <2>3. manifest \subseteq Alive
    BY <2>1, <2>2 DEF BarrierInv, BarrierTypeOK, SpawnInv, Alive
  <2>4. ASSUME NEW s \in Alive, s \notin listed PROVE s \in unfenced
    BY <2>4 DEF BarrierInv, SpawnInv, Working, Past, Alive
  <2>. QED
    BY <2>2, <2>3, <2>4 DEF HandedOff
<1>. QED
  BY <1>1, BarrierInvariant, PTL

\* No restarter sleeps through the last acknowledgement.
THEOREM NoLostWakeupSafe == BarrierSpec => []NoLostWakeup
<1>1. BarrierInv => NoLostWakeup
  BY DEF BarrierInv, WakeInv, NoLostWakeup
<1>. QED
  BY <1>1, BarrierInvariant, PTL
=============================================================================
