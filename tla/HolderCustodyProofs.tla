--------------------------- MODULE HolderCustodyProofs ---------------------------
(***************************************************************************)
(* For every set of uids and request handlers and every number of          *)
(* incarnations, generations and frames, as long as nothing fails but a    *)
(* step between spawn and insert and the write of the tombstones, and      *)
(* brains crash at will: the brain's list of sessions and the holder's     *)
(* table agree, no live child is a stranger, a recorded exit is never      *)
(* forgotten, and the two processes implement SessionCustody.              *)
(***************************************************************************)
EXTENDS HolderBrainProofs

\* The failures under which the two tables agree at all: a reply that comes
\* late, an observer that cannot be started, a registry that cannot be written
\* or a stop of the holder each separates them for a while.
Reliable == Faults \subseteq {"setup", "tomb_write"}

-----------------------------------------------------------------------------
(* The invariant, over what is in flight as a set.                         *)

Elements(q) == {q[k] : k \in 1..Len(q)}
Asking  == Elements(toHolder)
Telling == Elements(toBrain)

\* A reply that tells a handler which incarnation is now its own.
Claim(f) == f.from \in Caller /\ f.verb = "spawn" /\ f.ok

\* Every spawn is awaited, and an arm_reap is never refused.
Trust ==
  /\ \A m \in Asking : m.verb = "spawn" => m.from \in Caller
  /\ \A f \in Telling : f.verb = "arm_reap" /\ f.from \in Caller => f.ok
  /\ \A c \in Caller : op[c].pc # "armfailed"

\* What is listed is held, and not settled: who acks has delisted.
Listed ==
  /\ \A u \in Uid : reg[u] # 0 => /\ sess[u].inc = reg[u] /\ sess[u].exit # "acked"
                                  /\ obs[reg[u]].pc \in {"waiting", "got"}
  /\ \A i \in Inc : obs[i].pc \in {"waiting", "got"} => reg[obs[i].uid] = i
  /\ \A m \in Asking : m.verb = "ack_exit" =>
       m.inc \in Inc /\ obs[m.inc].pc \in {"acking", "done"}

\* What is claimed is held, not promised to anybody, and nobody forgets it.
ClaimsHeld ==
  /\ \A f \in Telling : Claim(f) => sess[f.uid].inc = f.inc /\ ~sess[f.uid].armed
  /\ \A c \in Caller : op[c].pc = "spawned" =>
       sess[op[c].uid].inc = op[c].inc /\ ~sess[op[c].uid].armed
  /\ \A u \in Uid : todo[u].inc # 0 =>
       sess[u].inc = todo[u].inc /\ (todo[u].settled <=> sess[u].exit = "acked")
  /\ \A m \in Asking : m.verb = "forget" => m.inc # 0 /\ todo[m.uid].inc # m.inc

\* The phases of a boot.
Phases ==
  /\ phase # "adopting" => \A u \in Uid : todo[u].inc = 0
  /\ phase = "adopting" => /\ \A c \in Caller : op[c].pc = "idle"
                           /\ \A u \in Uid : reg[u] # 0 => u \notin backlog

AbortsQuiet == \A m \in Asking : m.verb = "abort_spawn" => obs[m.inc].pc = "none"

\* The tombstones in memory are those on disk, or newer; and what the files
\* list and somebody has buried is listed again or about to be.
MemAhead ==
  \A u \in Uid :
    /\ tombFile[u].inc <= memTomb[u].inc
    /\ memTomb[u].inc # tombFile[u].inc => memTomb[u].inc = sess[u].inc
    /\ phase = "booting" => memTomb[u].inc = tombFile[u].inc
    /\ phase # "booting" /\ memTomb[u].inc # 0 /\ (u \in regFile \/ (phase = "adopting" /\ u \in backlog))
         => reg[u] # 0 \/ (todo[u].inc # 0 /\ ~todo[u].settled)

\* An exit that was taken off the list is recorded in memory and off the file.
AfterExit ==
  \A i \in Inc : obs[i].pc \in {"exited", "acking", "done"} /\ sess[obs[i].uid].inc = i =>
    memTomb[obs[i].uid].inc = i /\ obs[i].uid \notin regFile

\* Somebody knows of every live child.
Known ==
  \A u \in Uid : sess[u].inc # 0 /\ sess[u].exit = "none" =>
     \/ phase = "booting"
     \/ reg[u] # 0
     \/ todo[u].inc # 0
     \/ \E c \in Caller : op[c].pc = "spawned" /\ op[c].uid = u
     \/ \E f \in Telling : Claim(f) /\ f.uid = u
     \/ \E m \in Asking : m.verb = "abort_spawn" /\ m.uid = u /\ m.inc = sess[u].inc

\* Whether or not the brain that sent it still lives: an abort names a session
\* nobody was promised and no file remembers, ...
AbortsSafe ==
  /\ \A m \in Asking : m.verb = "abort_spawn" =>
       /\ m.inc \in Inc /\ m.inc < nextInc
       /\ sess[m.uid].inc = m.inc =>
            ~sess[m.uid].armed /\ (m.uid \notin regFile \/ tombFile[m.uid].inc = 0)
  /\ \A m, n \in Asking : m.verb = "abort_spawn" /\ n.verb = "arm_reap" => m.inc # n.inc

\* ... and an ack an exit whose tombstone is on disk.
AcksSafe ==
  \A m \in Asking : m.verb = "ack_exit" =>
     /\ m.inc \in Inc /\ m.inc < nextInc
     /\ sess[m.uid].inc = m.inc => tombFile[m.uid].inc = m.inc /\ m.uid \notin regFile

\* What the files say: an acked exit is recorded, and a recorded session that is
\* still on the list of the file is held and not settled.
Recorded ==
  \A u \in Uid :
     /\ sess[u].exit = "acked" => tombFile[u].inc = sess[u].inc
     /\ u \in regFile /\ tombFile[u].inc # 0 => sess[u].inc # 0 /\ sess[u].exit # "acked"
     /\ sess[u].inc # 0 => tombFile[u].inc <= sess[u].inc

\* A promise ends with the session.
Unpromised == \A u \in Uid : sess[u].inc = 0 => ~sess[u].armed

OnDisk == AbortsSafe /\ AcksSafe /\ Recorded /\ Unpromised
InTouch == /\ Trust /\ Listed /\ ClaimsHeld /\ Phases
           /\ AbortsQuiet /\ MemAhead /\ AfterExit /\ Known
CustodyKept == BrainInv /\ OnDisk /\ (chan = "open" => InTouch)

-----------------------------------------------------------------------------
(* What a step does to what is in flight.                                  *)

\* The elements of a queue without its head, and of a queue that grew.
LEMMA TailSet ==
  ASSUME NEW S, NEW q \in Seq(S), q # <<>>
  PROVE  /\ Head(q) \in Elements(q) /\ Head(q) \in S
         /\ Elements(Tail(q)) \subseteq Elements(q)
         /\ \A x \in Elements(q) : x \in Elements(Tail(q)) \/ x = Head(q)
<1>1. /\ Head(q) \in S /\ Head(q) = q[1] /\ 1 \in 1..Len(q) /\ Shorter(q, Tail(q))
      /\ Len(q) \in Nat /\ Len(Tail(q)) \in Nat
  BY TailElements
<1>2. ASSUME NEW k \in 1..Len(q), k # 1
      PROVE  k - 1 \in 1..Len(Tail(q)) /\ Tail(q)[k - 1] = q[k]
  BY <1>1, <1>2 DEF Shorter
<1>3. \A k \in 1..Len(Tail(q)) : k + 1 \in 1..Len(q) /\ Tail(q)[k] = q[k + 1]
  BY <1>1 DEF Shorter
<1>4. Head(q) \in Elements(q)
  BY <1>1 DEF Elements
<1>5. ASSUME NEW x \in Elements(Tail(q))
      PROVE  x \in Elements(q)
  BY <1>3, <1>5 DEF Elements
<1>6. ASSUME NEW x \in Elements(q)
      PROVE  x \in Elements(Tail(q)) \/ x = Head(q)
  <2>1. PICK k \in 1..Len(q) : x = q[k]
    BY <1>6 DEF Elements
  <2>2. CASE k = 1
    BY <1>1, <2>1, <2>2
  <2>3. CASE k # 1
    BY <1>2, <2>1, <2>3 DEF Elements
  <2> QED BY <2>2, <2>3
<1> QED BY <1>1, <1>4, <1>5, <1>6

\* A queue that grew by one element.
LEMMA LongerSet ==
  ASSUME NEW q, NEW r, NEW x, Longer(q, r, x)
  PROVE  Elements(r) = Elements(q) \cup {x}
<1>1. /\ Len(q) \in Nat /\ Len(r) = Len(q) + 1 /\ r[Len(r)] = x
      /\ \A k \in 1..Len(r) : k # Len(r) => k \in 1..Len(q) /\ r[k] = q[k]
  BY DEF Longer
<1>2. \A k \in 1..Len(q) : k \in 1..Len(r) /\ k # Len(r)
  BY <1>1
<1>3. Len(r) \in 1..Len(r)
  BY <1>1
<1> QED BY <1>1, <1>2, <1>3 DEF Elements

\* Every element has the queue's type.
LEMMA SetType ==
  ASSUME NEW S, NEW q \in Seq(S)
  PROVE  Elements(q) \subseteq S
  BY DEF Elements

\* A push of one frame or two at a brain that listens.
LEMMA PushSet ==
  ASSUME TypeOK, chan = "open", NEW x \in Frame, NEW y \in Frame
  PROVE  /\ Push(<<x>>) => Telling' = Telling \cup {x}
         /\ Push(<<x, y>>) => Telling' = Telling \cup {x, y}
<1>0. toBrain \in Seq(Frame)
  BY DEF TypeOK
<1>1. ASSUME Push(<<x>>)
      PROVE  Telling' = Telling \cup {x}
  <2>1. toBrain' = toBrain \o <<x>> /\ Longer(toBrain, toBrain \o <<x>>, x)
    BY <1>0, <1>1, PushOne DEF Push
  <2> QED BY <2>1, LongerSet DEF Telling
<1>2. ASSUME Push(<<x, y>>)
      PROVE  Telling' = Telling \cup {x, y}
  <2>1. toBrain' = toBrain \o <<x, y>> /\ Longer(toBrain, toBrain \o <<x>>, x)
        /\ Longer(toBrain \o <<x>>, toBrain \o <<x, y>>, y)
    BY <1>0, <1>2, PushTwo DEF Push
  <2>2. Elements(toBrain \o <<x>>) = Telling \cup {x}
    BY <2>1, LongerSet DEF Telling
  <2>3. Elements(toBrain \o <<x, y>>) = Elements(toBrain \o <<x>>) \cup {y}
    BY <2>1, LongerSet
  <2> QED BY <2>1, <2>2, <2>3 DEF Telling
<1> QED BY <1>1, <1>2

-----------------------------------------------------------------------------
(* What BrainInv says of the requests and frames in flight.                *)

\* Minted, watched by nobody, and aborted by nobody.
Free(i) ==
  /\ i \in Inc /\ i < nextInc /\ obs[i].pc = "none"
  /\ \A m \in Asking : m.verb = "abort_spawn" => m.inc # i

\* What is claimed is free.
LEMMA ClaimsFree ==
  ASSUME BrainInv, chan = "open"
  PROVE  /\ \A f \in Telling : Claim(f) => Free(f.inc)
         /\ \A c \in Caller : op[c].pc = "spawned" => Free(op[c].inc)
         /\ \A u \in Uid : todo[u].inc # 0 => Free(todo[u].inc)
<1>0. ClaimsSound
  BY DEF BrainInv, OpenInv
<1>1. \A i : Claimable(i) => Free(i)
  BY DEF Claimable, NoAbort, Free, Asking, Elements
<1>2. ASSUME NEW f \in Telling, Claim(f)
      PROVE  Free(f.inc)
  <2>1. PICK k \in 1..Len(toBrain) : f = toBrain[k]
    BY <1>2 DEF Telling, Elements
  <2> QED BY <1>0, <1>1, <1>2, <2>1 DEF ClaimsSound, FrameClaims, Claim
<1> QED BY <1>0, <1>1, <1>2 DEF ClaimsSound, OpClaims, TodoClaims

\* A frame for a request handler answers what it asked for.
LEMMA FramesAsked ==
  ASSUME BrainInv, chan = "open", NEW f \in Telling, f.from \in Caller
  PROVE  /\ f.uid = op[f.from].uid
         /\ \/ op[f.from].pc = "spawning" /\ f.verb = "spawn"
            \/ op[f.from].pc = "arming" /\ f.verb = "arm_reap"
<1>1. PICK k \in 1..Len(toBrain) : f = toBrain[k]
  BY DEF Telling, Elements
<1> QED BY <1>1 DEF BrainInv, OpenInv, CallersHeard, Asked

\* An abort names what is not listed, an arm_reap what is waited for.
LEMMA AbortsArms ==
  ASSUME BrainInv, chan = "open", NEW m \in Asking
  PROVE  /\ m.verb = "abort_spawn" => /\ m.inc \in Inc /\ m.inc < nextInc
                                      /\ \A u \in Uid : reg[u] # m.inc
         /\ m.verb = "arm_reap" => m.inc \in Inc /\ obs[m.inc].pc = "waiting" /\ obs[m.inc].uid = m.uid
<1>1. PICK k \in 1..Len(toHolder) : m = toHolder[k]
  BY DEF Asking, Elements
<1> QED BY <1>1 DEF BrainInv, OpenInv, WatchSound, ArmsWait, Waiting

\* An event finds its subscription.
LEMMA EventsFound ==
  ASSUME BrainInv, chan = "open", NEW f \in Telling, f.verb = "exit_event"
  PROVE  f.inc \in Inc /\ obs[f.inc].pc = "waiting"
<1>1. PICK k \in 1..Len(toBrain) : f = toBrain[k]
  BY DEF Telling, Elements
<1> QED BY <1>1 DEF BrainInv, OpenInv, EventsWait, Waiting

\* Who observes was minted and knows its uid, and a list entry knows its
\* observer; a settled observer's child is reaped.
LEMMA Watched ==
  ASSUME BrainInv, chan = "open"
  PROVE  /\ \A i \in Inc : obs[i].pc # "none" => obs[i].uid \in Uid /\ i < nextInc
         /\ \A u \in Uid : reg[u] # 0 => obs[reg[u]].uid = u
         /\ \A i \in Inc : obs[i].pc \in {"got", "exited", "acking", "done"} => child[i] = "reaped"
  BY DEF BrainInv, OpenInv, WatchSound, SeenReaped, TypeInv, Named

\* Before the boot thread has looked, nothing is in flight and nobody acts.
LEMMA BootIsQuiet ==
  ASSUME BrainInv, chan = "open", phase = "booting"
  PROVE  /\ Asking = {} /\ Telling = {}
         /\ \A c \in Caller : op[c].pc = "idle"
         /\ \A u \in Uid : reg[u] = 0 /\ todo[u].inc = 0
         /\ \A i \in Inc : obs[i].pc = "none"
<1>1. Pristine /\ toHolder = <<>> /\ toBrain = <<>>
  BY DEF BrainInv, OpenInv, BootQuiet
<1>2. Elements(<<>>) = {}
  <2>1. 1..Len(<<>>) = {}
    OBVIOUS
  <2> QED BY <2>1 DEF Elements
<1> QED BY <1>1, <1>2 DEF Asking, Telling, Pristine, Idle, Unwatched, NoRecord

\* What the holder's table says of a session it holds or does not hold.
LEMMA TableFacts ==
  ASSUME BrainInv
  PROVE  /\ nextInc \in Nat /\ Asking \subseteq Request /\ Telling \subseteq Frame
         /\ 0 \notin Inc /\ Inc \subseteq Nat
         /\ sess \in [Uid -> Entry]
         /\ \A u \in Uid : /\ sess[u].inc \in Nat
                           /\ sess[u].inc # 0 =>
                                /\ sess[u].inc \in Inc /\ sess[u].inc < nextInc
                                /\ child[sess[u].inc] = "reaped" <=> sess[u].exit # "none"
                           /\ sess[u].exit # "none" => sess[u].armed
                           /\ sess[u].inc = 0 => sess[u].exit = "none"
         /\ \A u, v \in Uid : sess[u].inc # 0 /\ sess[u].inc = sess[v].inc => u = v
         /\ \A i \in Inc : child[i] # "unborn" => i < nextInc
<1>1. CustodyInv /\ TypeOK /\ toHolder \in Seq(Request) /\ toBrain \in Seq(Frame)
  BY DEF BrainInv, EventInv, CustodyInv, TypeOK
<1>2. Asking \subseteq Request /\ Telling \subseteq Frame
  BY <1>1, SetType DEF Asking, Telling
<1>3. nextInc \in Nat /\ 0 \notin Inc /\ Inc \subseteq Nat /\ sess \in [Uid -> Entry]
  BY <1>1 DEF TypeOK, Inc
<1>4. \A i \in Inc : child[i] # "unborn" => i < nextInc
  BY <1>1, <1>3 DEF CustodyInv, Fresh
<1>5. ASSUME NEW u \in Uid
      PROVE  /\ sess[u].inc \in Nat
             /\ sess[u].inc # 0 =>
                  /\ sess[u].inc \in Inc /\ sess[u].inc < nextInc
                  /\ child[sess[u].inc] = "reaped" <=> sess[u].exit # "none"
             /\ sess[u].exit # "none" => sess[u].armed
             /\ sess[u].inc = 0 => sess[u].exit = "none"
  <2>1. sess[u].inc \in Nat
    BY <1>3, TableAssumption DEF Entry
  <2>2. sess[u].inc # 0 =>
          /\ sess[u].inc \in Inc /\ sess[u].inc < nextInc
          /\ child[sess[u].inc] = "reaped" <=> sess[u].exit # "none"
    BY <1>1, HeldFacts DEF Held
  <2>3. sess[u].inc = 0 => sess[u].exit = "none"
    BY <1>1 DEF CustodyInv, Blank, Held
  <2>4. sess[u].exit # "none" => sess[u].armed
    BY <1>1 DEF CustodyInv, ReapOnlyArmed
  <2> QED BY <2>1, <2>2, <2>3, <2>4
<1>6. \A u, v \in Uid : sess[u].inc # 0 /\ sess[u].inc = sess[v].inc => u = v
  BY <1>1, HeldFacts DEF Held
<1> QED BY <1>2, <1>3, <1>4, <1>5, <1>6

\* A tombstone that names an incarnation names one that was minted and reaped.
LEMMA TombFacts ==
  ASSUME BrainInv, NEW u \in Uid
  PROVE  /\ memTomb[u].inc \in Nat /\ tombFile[u].inc \in Nat
         /\ memTomb[u].inc # 0 => /\ memTomb[u].kind = "exit" /\ memTomb[u].inc \in Inc
                                  /\ child[memTomb[u].inc] = "reaped" /\ memTomb[u].inc < nextInc
         /\ tombFile[u].inc # 0 => /\ tombFile[u].kind = "exit" /\ tombFile[u].inc \in Inc
                                   /\ child[tombFile[u].inc] = "reaped" /\ tombFile[u].inc < nextInc
<1>1. TombTrue(memTomb[u]) /\ TombTrue(tombFile[u]) /\ BrainTypeOK
  BY DEF BrainInv, TombsTrue, TypeInv
<1>2. \A i \in Inc : child[i] # "unborn" => i < nextInc
  BY TableFacts
<1>3. memTomb[u].inc \in Nat /\ tombFile[u].inc \in Nat
  BY <1>1, TableAssumption DEF BrainTypeOK
<1> QED BY <1>1, <1>2, <1>3 DEF TombTrue

-----------------------------------------------------------------------------
(* What the brain's steps do to the files.                                 *)

\* A request that was sent is in flight.
LEMMA SendSet ==
  ASSUME BrainInv, NEW m \in Request, Send(m)
  PROVE  Asking' = Asking \cup {m}
<1>1. toHolder \in Seq(Request)
  BY DEF BrainInv, TypeInv, TypeOK
<1> QED BY <1>1, AppendElements, LongerSet DEF Send, Asking

\* A frame that was read is no longer in flight, and nothing else is gone.
LEMMA TakeSet ==
  ASSUME BrainInv, toBrain # <<>>, toBrain' = Tail(toBrain)
  PROVE  /\ Head(toBrain) \in Telling /\ Head(toBrain) \in Frame
         /\ Telling' \subseteq Telling
         /\ \A f \in Telling : f \in Telling' \/ f = Head(toBrain)
<1>1. toBrain \in Seq(Frame)
  BY DEF BrainInv, TypeInv, TypeOK
<1> QED BY <1>1, TailSet DEF Telling

\* What is listed is not being aborted, its exit is not being acked, and no
\* observer has settled it.
LEMMA ListedLives ==
  ASSUME BrainInv, chan = "open", Listed, NEW u \in Uid, reg[u] # 0
  PROVE  /\ reg[u] \in Inc /\ sess[u].inc = reg[u] /\ sess[u].exit # "acked"
         /\ obs[reg[u]].uid = u /\ obs[reg[u]].pc \in {"waiting", "got"}
         /\ \A m \in Asking : m.verb \in {"abort_spawn", "ack_exit"} => m.inc # reg[u]
<1>1. /\ sess[u].inc = reg[u] /\ sess[u].exit # "acked"
      /\ obs[reg[u]].uid = u /\ obs[reg[u]].pc \in {"waiting", "got"}
  BY Watched DEF Listed
<1>2. reg[u] \in Inc
  BY <1>1, TableFacts
<1>3. ASSUME NEW m \in Asking, m.verb = "ack_exit"
      PROVE  m.inc # reg[u]
  BY <1>1, <1>3 DEF Listed
<1> QED BY <1>1, <1>2, <1>3, AbortsArms

\* The two files after a step of the brain: every tombstone was on disk or in
\* memory, and the registry is either as it was or lists what the brain lists
\* or is about to list.  The one request x it may send is the right one.
FilesWritten ==
  /\ \/ \A u \in Uid : tombFile'[u].inc = tombFile[u].inc
     \/ phase # "booting" /\ \A u \in Uid : tombFile'[u].inc \in {tombFile[u].inc, memTomb[u].inc}
  /\ \/ regFile' = regFile
     \/ \A u \in Uid : u \in regFile' =>
          reg[u] # 0 \/ (sess[u].inc # 0 /\ sess[u].exit # "acked" /\ Free(sess[u].inc))

RightRequest(x) ==
  /\ x.verb = "arm_reap" => Free(x.inc)
  /\ x.verb = "abort_spawn" =>
       /\ Free(x.inc)
       /\ sess[x.uid].inc = x.inc =>
            ~sess[x.uid].armed /\ (x.uid \notin regFile' \/ tombFile'[x.uid].inc = 0)
  /\ x.verb = "ack_exit" =>
       /\ x.inc \in Inc /\ x.inc < nextInc
       /\ sess[x.uid].inc = x.inc => tombFile'[x.uid].inc = x.inc /\ x.uid \notin regFile'

\* A session that the brain lists, holds a claim to or has yet to reconcile is
\* held, unsettled, and named by no abort and no ack.
LEMMA KeptAlive ==
  ASSUME CustodyKept, chan = "open", NEW u \in Uid,
         \/ reg[u] # 0
         \/ sess[u].inc # 0 /\ sess[u].exit # "acked" /\ Free(sess[u].inc)
         \/ todo[u].inc # 0 /\ ~todo[u].settled
  PROVE  /\ sess[u].inc # 0 /\ sess[u].exit # "acked"
         /\ \A m \in Asking : m.verb \in {"abort_spawn", "ack_exit"} => m.inc # sess[u].inc
<1>0. BrainInv /\ InTouch
  BY DEF CustodyKept
<1>1. CASE reg[u] # 0
  BY <1>0, <1>1, ListedLives, TableFacts DEF InTouch
<1>2. CASE sess[u].inc # 0 /\ sess[u].exit # "acked" /\ Free(sess[u].inc)
  BY <1>0, <1>2 DEF InTouch, Listed, Free
<1>3. CASE todo[u].inc # 0 /\ ~todo[u].settled
  <2>1. sess[u].inc # 0 /\ sess[u].exit # "acked" /\ Free(sess[u].inc)
    BY <1>0, <1>3, ClaimsFree DEF InTouch, ClaimsHeld
  <2> QED BY <1>0, <2>1 DEF InTouch, Listed, Free
<1> QED BY <1>1, <1>2, <1>3

\* A brain that writes its files in this way and sends only such requests
\* keeps what the files and the requests in flight say true.
LEMMA DiskStep ==
  ASSUME CustodyKept, chan = "open", UNCHANGED <<sess, nextInc>>, FilesWritten,
         NEW x, RightRequest(x), Asking' \subseteq Asking \cup {x}
  PROVE  OnDisk'
<1>0. BrainInv /\ InTouch /\ OnDisk
  BY DEF CustodyKept
<1>1. ASSUME NEW u \in Uid
      PROVE  /\ tombFile[u].inc \in Nat /\ memTomb[u].inc \in Nat /\ tombFile'[u].inc \in Nat
             /\ tombFile'[u].inc = tombFile[u].inc
                \/ (tombFile'[u].inc = sess[u].inc /\ memTomb[u].inc = sess[u].inc)
  BY <1>0, <1>1, TombFacts DEF FilesWritten, InTouch, MemAhead
<1>2. ASSUME NEW u \in Uid, u \in regFile', tombFile'[u].inc # 0
      PROVE  \/ u \in regFile /\ tombFile[u].inc # 0 /\ tombFile'[u].inc = tombFile[u].inc
             \/ /\ sess[u].inc # 0 /\ sess[u].exit # "acked"
                /\ \A m \in Asking : m.verb \in {"abort_spawn", "ack_exit"} => m.inc # sess[u].inc
  <2>1. CASE \/ reg[u] # 0
             \/ sess[u].inc # 0 /\ sess[u].exit # "acked" /\ Free(sess[u].inc)
             \/ todo[u].inc # 0 /\ ~todo[u].settled
    BY <2>1, KeptAlive
  <2>2. CASE regFile' = regFile /\ tombFile'[u].inc = tombFile[u].inc
    BY <1>2, <2>2
  <2>3. CASE regFile' = regFile /\ phase # "booting" /\ tombFile'[u].inc = memTomb[u].inc
    <3>1. reg[u] # 0 \/ (todo[u].inc # 0 /\ ~todo[u].settled)
      BY <1>0, <1>2, <2>3 DEF InTouch, MemAhead
    <3> QED BY <2>1, <3>1
  <2> QED BY <1>2, <2>1, <2>2, <2>3 DEF FilesWritten
<1>3. \A m \in Asking : m.uid \in Uid
  BY <1>0, TableFacts DEF Request
<1>4. ASSUME NEW m \in Asking', m.verb = "abort_spawn"
      PROVE  /\ m.inc \in Inc /\ m.inc < nextInc'
             /\ sess'[m.uid].inc = m.inc =>
                  ~sess'[m.uid].armed /\ (m.uid \notin regFile' \/ tombFile'[m.uid].inc = 0)
  <2>1. CASE m \in Asking
    <3>1. PICK u \in Uid : u = m.uid
      BY <1>3, <2>1
    <3>2. /\ m.inc \in Inc /\ m.inc < nextInc
          /\ sess[u].inc = m.inc => ~sess[u].armed /\ (u \notin regFile \/ tombFile[u].inc = 0)
      BY <1>0, <1>4, <2>1, <3>1 DEF OnDisk, AbortsSafe
    <3>3. sess[u].inc = m.inc /\ u \in regFile' => tombFile'[u].inc = 0
      BY <1>2, <1>4, <2>1, <3>2
    <3> QED BY <3>1, <3>2, <3>3
  <2>2. CASE m = x
    BY <1>4, <2>2 DEF RightRequest, Free
  <2> QED BY <2>1, <2>2
<1>5. ASSUME NEW m \in Asking', NEW n \in Asking', m.verb = "abort_spawn", n.verb = "arm_reap"
      PROVE  m.inc # n.inc
  <2>1. CASE m \in Asking /\ n \in Asking
    BY <1>0, <1>5, <2>1 DEF OnDisk, AbortsSafe
  <2>2. CASE m = x /\ n \in Asking
    BY <1>0, <1>5, <2>2, AbortsArms DEF RightRequest, Free
  <2>3. CASE n = x /\ m \in Asking
    BY <1>5, <2>3 DEF RightRequest, Free
  <2> QED BY <1>5, <2>1, <2>2, <2>3
<1>6. ASSUME NEW m \in Asking', m.verb = "ack_exit"
      PROVE  /\ m.inc \in Inc /\ m.inc < nextInc'
             /\ sess'[m.uid].inc = m.inc => tombFile'[m.uid].inc = m.inc /\ m.uid \notin regFile'
  <2>1. CASE m \in Asking
    <3>1. PICK u \in Uid : u = m.uid
      BY <1>3, <2>1
    <3>2. /\ m.inc \in Inc /\ m.inc < nextInc
          /\ sess[u].inc = m.inc => tombFile[u].inc = m.inc /\ u \notin regFile
      BY <1>0, <1>6, <2>1, <3>1 DEF OnDisk, AcksSafe
    <3>3. sess[u].inc = m.inc => tombFile'[u].inc = m.inc
      BY <1>1, <3>2
    <3>4. m.inc # 0
      BY <1>0, <3>2, TableFacts
    <3>5. sess[u].inc = m.inc => u \notin regFile'
      BY <1>2, <1>6, <2>1, <3>2, <3>3, <3>4
    <3> QED BY <3>1, <3>2, <3>3, <3>5
  <2>2. CASE m = x
    BY <1>6, <2>2 DEF RightRequest
  <2> QED BY <2>1, <2>2
<1>7. ASSUME NEW u \in Uid
      PROVE  /\ sess'[u].exit = "acked" => tombFile'[u].inc = sess'[u].inc
             /\ u \in regFile' /\ tombFile'[u].inc # 0 => sess'[u].inc # 0 /\ sess'[u].exit # "acked"
             /\ sess'[u].inc # 0 => tombFile'[u].inc <= sess'[u].inc
  <2>1. /\ sess[u].exit = "acked" => tombFile[u].inc = sess[u].inc
        /\ u \in regFile /\ tombFile[u].inc # 0 => sess[u].inc # 0 /\ sess[u].exit # "acked"
        /\ sess[u].inc # 0 => tombFile[u].inc <= sess[u].inc
    BY <1>0 DEF OnDisk, Recorded
  <2> QED BY <1>1, <1>2, <2>1
<1>8. Unpromised'
  BY <1>0 DEF OnDisk, Unpromised
<1> QED BY <1>4, <1>5, <1>6, <1>7, <1>8 DEF OnDisk, AbortsSafe, AcksSafe, Recorded

-----------------------------------------------------------------------------
(* The request handlers keep in touch with the holder.                     *)

\* The fields of a request.
LEMMA ReqFields ==
  ASSUME NEW v, NEW u, NEW i, NEW f
  PROVE  /\ Req(v, u, i, f).verb = v /\ Req(v, u, i, f).uid = u
         /\ Req(v, u, i, f).inc = i /\ Req(v, u, i, f).from = f
         /\ AbortReq(u, i) = Req("abort_spawn", u, i, Nobody)
  BY DEF Req, AbortReq

\* The brain's variables keep their shape, and a handler is no observer.
LEMMA BrainTypes ==
  ASSUME BrainInv
  PROVE  /\ TypeInv /\ BrainTypeOK
         /\ op \in [Caller -> [pc : {"idle", "spawning", "spawned", "arming", "armfailed"},
                               uid : Uid \cup {"none"}, inc : 0..MaxInc]]
         /\ reg \in [Uid -> 0..MaxInc]
         /\ obs \in [Inc -> [pc : {"none", "waiting", "got", "exited", "acking", "done"},
                             uid : Uid \cup {"none"}]]
         /\ \A c \in Caller : op[c].pc # "idle" => op[c].uid \in Uid
         /\ \A c \in Caller : c \in From /\ c \in From \cup {Nobody} /\ c # Nobody
         /\ Observer \in From \cup {Nobody} /\ Nobody \in From \cup {Nobody}
         /\ Nobody \notin Caller /\ Observer \notin Caller
         /\ {"spawn", "arm_reap", "abort_spawn", "ack_exit", "forget"} \subseteq Verbs
         /\ \A i \in Inc : i \in 0..MaxInc
         /\ 0 \in 0..MaxInc
  BY BrainAssumption, TableAssumption DEF BrainInv, TypeInv, BrainTypeOK, Named, Verbs, Inc

\* A handler that starts has claimed nothing yet; its spawn is awaited.
LEMMA StartKeeps ==
  ASSUME CustodyKept, chan = "open", NEW c \in Caller, NEW u \in Uid, StartOp(c, u)
  PROVE  OnDisk' /\ InTouch'
<1>0. BrainInv /\ InTouch /\ Trust /\ Listed /\ ClaimsHeld /\ Phases /\ AbortsQuiet /\ MemAhead
      /\ AfterExit /\ Known
  BY DEF CustodyKept, InTouch
<1>1. PICK x : x = Req("spawn", u, 0, c)
  OBVIOUS
<1>2. x.verb = "spawn" /\ x.uid = u /\ x.from = c /\ Asking' = Asking \cup {x}
  <2>1. x \in Request
    BY <1>0, <1>1, BrainTypes, ReqType
  <2> QED BY <1>0, <1>1, <2>1, ReqFields, SendSet DEF StartOp
<1>3. /\ UNCHANGED <<sess, nextInc, phase, reg, obs, todo, memTomb, tombFile, regFile>>
      /\ Telling' = Telling /\ phase # "adopting"
      /\ op[c].pc = "idle" /\ op' = [op EXCEPT ![c] = [pc |-> "spawning", uid |-> u, inc |-> 0]]
  BY DEF StartOp, Alive, Idle, holderVars, Telling
<1>4. op'[c].pc = "spawning" /\ \A d \in Caller : d # c => op'[d] = op[d]
  BY <1>0, <1>3, BrainTypes
<1>5. OnDisk'
  <2>1. RightRequest(x)
    BY <1>2 DEF RightRequest
  <2> QED BY <1>2, <1>3, <2>1, DiskStep DEF FilesWritten
<1>6. Trust' /\ Listed' /\ AbortsQuiet' /\ AfterExit'
  BY <1>0, <1>2, <1>3, <1>4 DEF Trust, Listed, AbortsQuiet, AfterExit
<1>7. ClaimsHeld'
  BY <1>0, <1>2, <1>3, <1>4 DEF ClaimsHeld
<1>8. Phases' /\ MemAhead'
  BY <1>0, <1>3 DEF Phases, MemAhead
<1>9. Known'
  BY <1>0, <1>2, <1>3, <1>4 DEF Known
<1> QED BY <1>5, <1>6, <1>7, <1>8, <1>9 DEF InTouch

\* The claim goes from the reply to the handler, or there was none.
LEMMA ReplyKeepsTouch ==
  ASSUME CustodyKept, chan = "open", NEW c \in Caller, SpawnReply(c) \/ ArmReply(c)
  PROVE  OnDisk' /\ InTouch'
<1>0. BrainInv /\ InTouch /\ Trust /\ Listed /\ ClaimsHeld /\ Phases /\ AbortsQuiet /\ MemAhead
      /\ AfterExit /\ Known
  BY DEF CustodyKept, InTouch
<1>1. PICK f : f = Head(toBrain)
  OBVIOUS
<1>2. /\ f \in Telling /\ f.from = c /\ Telling' \subseteq Telling
      /\ \A g \in Telling : g \in Telling' \/ g = f
  BY <1>0, <1>1, TakeSet DEF SpawnReply, ArmReply, ReplyTo
<1>3. /\ UNCHANGED <<sess, nextInc, phase, reg, obs, todo, memTomb, tombFile, regFile, backlog>>
      /\ Asking' = Asking
  BY DEF SpawnReply, ArmReply, holderVars, Asking
<1>4. /\ f.uid = op[c].uid
      /\ \/ op[c].pc = "spawning" /\ f.verb = "spawn"
         \/ op[c].pc = "arming" /\ f.verb = "arm_reap" /\ f.ok
  BY <1>0, <1>2, FramesAsked DEF Trust
<1>5. /\ \A d \in Caller : d # c => op'[d] = op[d]
      /\ \/ op'[c].pc = "idle" /\ ~Claim(f)
         \/ op'[c].pc = "spawned" /\ op'[c].uid = f.uid /\ op'[c].inc = f.inc /\ Claim(f)
  <2>1. CASE SpawnReply(c)
    <3>1. op[c].pc = "spawning" /\ op' = [op EXCEPT ![c] = SpawnOutcome(op[c], f)]
      BY <1>1, <2>1 DEF SpawnReply
    <3>2. op'[c] = SpawnOutcome(op[c], f) /\ \A d \in Caller : d # c => op'[d] = op[d]
      BY <1>0, <3>1, BrainTypes
    <3>3. CASE f.ok
      <4>1. op'[c] = [op[c] EXCEPT !.pc = "spawned", !.inc = f.inc]
        BY <3>2, <3>3 DEF SpawnOutcome
      <4>2. op'[c].pc = "spawned" /\ op'[c].uid = op[c].uid /\ op'[c].inc = f.inc
        BY <1>0, <4>1, BrainTypes
      <4> QED BY <1>2, <1>4, <3>1, <3>2, <3>3, <4>2 DEF Claim
    <3>4. CASE ~f.ok
      BY <3>2, <3>4 DEF SpawnOutcome, Idle, Claim
    <3> QED BY <3>3, <3>4
  <2>2. CASE ArmReply(c)
    <3>1. /\ op[c].pc = "arming"
          /\ op' = [op EXCEPT ![c] = IF f.ok THEN Idle ELSE [op[c] EXCEPT !.pc = "armfailed"]]
      BY <1>1, <2>2 DEF ArmReply
    <3>2. f.ok /\ f.verb = "arm_reap"
      BY <1>4, <3>1
    <3>3. op'[c] = Idle /\ \A d \in Caller : d # c => op'[d] = op[d]
      BY <1>0, <3>1, <3>2, BrainTypes
    <3> QED BY <3>2, <3>3 DEF Idle, Claim
  <2> QED BY <2>1, <2>2
<1>6. phase # "adopting"
  BY <1>0, <1>4 DEF Phases
<1>7. OnDisk'
  <2>1. RightRequest(Req("forget", 0, 0, Nobody))
    BY ReqFields DEF RightRequest
  <2> QED BY <1>3, <2>1, DiskStep DEF FilesWritten
<1>8. Trust' /\ Listed' /\ AbortsQuiet' /\ AfterExit'
  BY <1>0, <1>2, <1>3, <1>5 DEF Trust, Listed, AbortsQuiet, AfterExit
<1>9. ClaimsHeld'
  <2>1. ASSUME NEW d \in Caller, op'[d].pc = "spawned"
        PROVE  sess[op'[d].uid].inc = op'[d].inc /\ ~sess[op'[d].uid].armed
    BY <1>0, <1>2, <1>5, <2>1 DEF ClaimsHeld
  <2> QED BY <1>0, <1>2, <1>3, <2>1 DEF ClaimsHeld
<1>10. Phases' /\ MemAhead'
  BY <1>0, <1>3, <1>6 DEF Phases, MemAhead
<1>11. Known'
  <2>1. ASSUME NEW u \in Uid, sess[u].inc # 0, sess[u].exit = "none"
        PROVE  \/ phase = "booting"
               \/ reg[u] # 0
               \/ todo[u].inc # 0
               \/ \E d \in Caller : op'[d].pc = "spawned" /\ op'[d].uid = u
               \/ \E g \in Telling' : Claim(g) /\ g.uid = u
               \/ \E m \in Asking : m.verb = "abort_spawn" /\ m.uid = u /\ m.inc = sess[u].inc
    <3>1. CASE \E d \in Caller : op[d].pc = "spawned" /\ op[d].uid = u
      BY <1>4, <1>5, <3>1
    <3>2. CASE \E g \in Telling : Claim(g) /\ g.uid = u
      BY <1>2, <1>5, <3>2
    <3> QED BY <1>0, <2>1, <3>1, <3>2 DEF Known
  <2> QED BY <1>3, <2>1 DEF Known
<1> QED BY <1>7, <1>8, <1>9, <1>10, <1>11 DEF InTouch

\* A handler that gives its claim up sends the abort that names it: the session
\* was promised to nobody and is on no file.
LEMMA DropKeeps ==
  ASSUME CustodyKept, chan = "open", NEW c \in Caller, DropPending(c)
  PROVE  OnDisk' /\ InTouch'
<1>0. BrainInv /\ InTouch /\ Trust /\ Listed /\ ClaimsHeld /\ Phases /\ AbortsQuiet /\ MemAhead
      /\ AfterExit /\ Known
  BY DEF CustodyKept, InTouch
<1>1. PICK u, i : u = op[c].uid /\ i = op[c].inc
  OBVIOUS
<1>2. /\ op[c].pc = "spawned" /\ u \in Uid /\ Free(i)
      /\ sess[u].inc = i /\ ~sess[u].armed
  BY <1>0, <1>1, BrainTypes, ClaimsFree DEF DropPending, ClaimsHeld
<1>3. PICK x : x = AbortReq(u, i)
  OBVIOUS
<1>4. x.verb = "abort_spawn" /\ x.uid = u /\ x.inc = i /\ Asking' = Asking \cup {x}
  <2>1. x \in Request
    BY <1>0, <1>2, <1>3, BrainTypes, ReqType DEF Free
  <2> QED BY <1>0, <1>1, <1>3, <2>1, ReqFields, SendSet DEF DropPending
<1>5. /\ UNCHANGED <<sess, nextInc, phase, reg, obs, todo, memTomb, tombFile, regFile, backlog>>
      /\ Telling' = Telling
  BY DEF DropPending, holderVars, Telling
<1>6. op'[c].pc = "idle" /\ \A d \in Caller : d # c => op'[d] = op[d]
  BY <1>0, BrainTypes DEF DropPending, Idle
<1>7. phase # "adopting" /\ phase # "booting"
  BY <1>0, <1>2, BootIsQuiet DEF Phases
<1>8. u \notin regFile \/ tombFile[u].inc = 0
  <2>1. reg[u] = 0
    BY <1>0, <1>2, ListedLives DEF Free
  <2>2. todo[u].inc = 0
    BY <1>0, <1>2, <1>7 DEF Phases
  <2>3. tombFile[u].inc <= memTomb[u].inc /\ tombFile[u].inc \in Nat
    BY <1>0, <1>2, TombFacts DEF MemAhead
  <2>4. u \in regFile => memTomb[u].inc = 0
    BY <1>0, <1>2, <1>7, <2>1, <2>2 DEF MemAhead
  <2> QED BY <2>3, <2>4
<1>9. OnDisk'
  <2>1. RightRequest(x)
    BY <1>2, <1>4, <1>5, <1>8 DEF RightRequest
  <2> QED BY <1>4, <1>5, <2>1, DiskStep DEF FilesWritten
<1>10. Trust' /\ Listed' /\ AbortsQuiet' /\ AfterExit'
  BY <1>0, <1>2, <1>4, <1>5, <1>6 DEF Trust, Listed, AbortsQuiet, AfterExit, Free
<1>11. ClaimsHeld'
  BY <1>0, <1>4, <1>5, <1>6 DEF ClaimsHeld
<1>12. Phases' /\ MemAhead'
  BY <1>0, <1>5, <1>7 DEF Phases, MemAhead
<1>13. Known'
  BY <1>0, <1>1, <1>2, <1>4, <1>5, <1>6 DEF Known
<1> QED BY <1>9, <1>10, <1>11, <1>12, <1>13 DEF InTouch

\* Inserting under the state lock turns the claim into a list entry with its
\* observer, before anybody may reap.
LEMMA InsertKeeps ==
  ASSUME Reliable, CustodyKept, chan = "open", NEW c \in Caller, InsertAndArm(c)
  PROVE  OnDisk' /\ InTouch'
<1>0. BrainInv /\ InTouch /\ Trust /\ Listed /\ ClaimsHeld /\ Phases /\ AbortsQuiet /\ MemAhead
      /\ AfterExit /\ Known
  BY DEF CustodyKept, InTouch
<1>1. PICK u, i : u = op[c].uid /\ i = op[c].inc
  OBVIOUS
<1>2. /\ op[c].pc = "spawned" /\ u \in Uid /\ Free(i) /\ i \in Inc /\ obs[i].pc = "none"
      /\ sess[u].inc = i /\ ~sess[u].armed /\ sess[u].exit = "none" /\ i # 0 /\ reg[u] = 0
  <2>1. op[c].pc = "spawned" /\ reg[u] = 0
    BY <1>1 DEF InsertAndArm
  <2>2. u \in Uid /\ Free(i) /\ sess[u].inc = i /\ ~sess[u].armed
    BY <1>0, <1>1, <2>1, BrainTypes, ClaimsFree DEF ClaimsHeld
  <2> QED BY <1>0, <2>1, <2>2, TableFacts DEF Free
<1>3. PICK x : x = Req("arm_reap", u, i, c)
  OBVIOUS
<1>4. x.verb = "arm_reap" /\ x.inc = i /\ Asking' = Asking \cup {x}
  <2>1. x \in Request
    BY <1>0, <1>2, <1>3, BrainTypes, ReqType
  <2> QED BY <1>0, <1>1, <1>3, <2>1, ReqFields, SendSet DEF InsertAndArm
<1>5. /\ UNCHANGED <<sess, nextInc, phase, todo, memTomb, tombFile, backlog>>
      /\ Telling' = Telling
      /\ obs' = [obs EXCEPT ![i] = [pc |-> "waiting", uid |-> u]] /\ reg' = [reg EXCEPT ![u] = i]
      /\ regFile' = Live(reg')
  BY <1>1 DEF InsertAndArm, PersistRegistry, holderVars, Telling, Reliable
<1>6. op'[c].pc = "arming" /\ \A d \in Caller : d # c => op'[d] = op[d]
  BY <1>0, BrainTypes DEF InsertAndArm
<1>7. phase # "adopting"
  BY <1>0, <1>2 DEF Phases
<1>8. /\ reg'[u] = i /\ \A v \in Uid : v # u => reg'[v] = reg[v]
      /\ obs'[i].pc = "waiting" /\ obs'[i].uid = u /\ \A j \in Inc : j # i => obs'[j] = obs[j]
  BY <1>0, <1>2, <1>5, BrainTypes
<1>9. \A v \in Uid : v \in regFile' <=> v = u \/ reg[v] # 0
  BY <1>2, <1>5, <1>8 DEF Live
<1>10. OnDisk'
  <2>1. RightRequest(x)
    BY <1>2, <1>4 DEF RightRequest
  <2>2. FilesWritten
    BY <1>2, <1>5, <1>9 DEF FilesWritten
  <2> QED BY <1>4, <1>5, <2>1, <2>2, DiskStep
<1>11. Trust' /\ AbortsQuiet'
  BY <1>0, <1>2, <1>4, <1>5, <1>6, <1>8, AbortsArms DEF Trust, AbortsQuiet, Free
<1>12. ASSUME NEW v \in Uid, v # u, reg[v] # 0
       PROVE  reg[v] \in Inc /\ reg[v] # i /\ sess[v].inc = reg[v] /\ obs[reg[v]].pc \in {"waiting", "got"}
  BY <1>0, <1>2, <1>12, ListedLives
<1>13. Listed'
  <2>1. ASSUME NEW v \in Uid, reg'[v] # 0
        PROVE  /\ sess[v].inc = reg'[v] /\ sess[v].exit # "acked"
               /\ obs'[reg'[v]].pc \in {"waiting", "got"}
    BY <1>0, <1>2, <1>8, <1>12, <2>1 DEF Listed
  <2>2. ASSUME NEW j \in Inc, obs'[j].pc \in {"waiting", "got"}
        PROVE  reg'[obs'[j].uid] = j
    <3>1. CASE j = i
      BY <1>8, <3>1
    <3>2. CASE j # i
      <4>1. PICK v : v = obs[j].uid
        OBVIOUS
      <4>2. reg[v] = j /\ v \in Uid /\ j # 0
        BY <1>0, <1>8, <2>2, <3>2, <4>1, Watched, TableFacts DEF Listed
      <4> QED BY <1>2, <1>8, <3>2, <4>1, <4>2
    <3> QED BY <3>1, <3>2
  <2>3. ASSUME NEW m \in Asking, m.verb = "ack_exit"
        PROVE  m.inc \in Inc /\ obs'[m.inc].pc \in {"acking", "done"}
    BY <1>0, <1>2, <1>8, <2>3 DEF Listed
  <2> QED BY <1>4, <1>5, <2>1, <2>2, <2>3 DEF Listed
<1>14. ClaimsHeld'
  BY <1>0, <1>4, <1>5, <1>6 DEF ClaimsHeld
<1>15. Phases' /\ MemAhead'
  <2>1. \A v \in Uid : v \in regFile' => reg'[v] # 0
    BY <1>5 DEF Live
  <2> QED BY <1>0, <1>5, <1>7, <2>1 DEF Phases, MemAhead
<1>16. AfterExit'
  <2>1. ASSUME NEW j \in Inc, obs'[j].pc \in {"exited", "acking", "done"}, sess[obs'[j].uid].inc = j
        PROVE  memTomb[obs'[j].uid].inc = j /\ obs'[j].uid \notin regFile'
    <3>1. PICK v : v = obs[j].uid
      OBVIOUS
    <3>2. j # i /\ obs'[j] = obs[j] /\ v \in Uid
      BY <1>0, <1>8, <2>1, <3>1, Watched
    <3>3. memTomb[v].inc = j
      BY <1>0, <2>1, <3>1, <3>2 DEF AfterExit
    <3>4. v # u /\ reg[v] = 0
      BY <1>2, <1>12, <2>1, <3>1, <3>2
    <3> QED BY <1>9, <3>1, <3>2, <3>3, <3>4
  <2> QED BY <1>5, <2>1 DEF AfterExit
<1>17. Known'
  <2>1. ASSUME NEW v \in Uid, sess[v].inc # 0, sess[v].exit = "none", v # u
        PROVE  \/ phase = "booting"
               \/ reg'[v] # 0
               \/ todo[v].inc # 0
               \/ \E d \in Caller : op'[d].pc = "spawned" /\ op'[d].uid = v
               \/ \E g \in Telling : Claim(g) /\ g.uid = v
               \/ \E m \in Asking : m.verb = "abort_spawn" /\ m.uid = v /\ m.inc = sess[v].inc
    <3>1. CASE \E d \in Caller : op[d].pc = "spawned" /\ op[d].uid = v
      BY <1>1, <1>6, <2>1, <3>1
    <3> QED BY <1>0, <1>8, <2>1, <3>1 DEF Known
  <2> QED BY <1>2, <1>4, <1>5, <1>8, <2>1 DEF Known
<1> QED BY <1>10, <1>11, <1>13, <1>14, <1>15, <1>16, <1>17 DEF InTouch

-----------------------------------------------------------------------------
(* The channel reader and the exit observers.                              *)

\* The reader takes no claim from anybody, and turns a waiting observer into
\* one that got its exit.
LEMMA RouteKeeps ==
  ASSUME CustodyKept, chan = "open", RouteExit \/ DropReply
  PROVE  OnDisk' /\ InTouch'
<1>0. BrainInv /\ InTouch /\ Trust /\ Listed /\ ClaimsHeld /\ Phases /\ AbortsQuiet /\ MemAhead
      /\ AfterExit /\ Known
  BY DEF CustodyKept, InTouch
<1>1. PICK f : f = Head(toBrain)
  OBVIOUS
<1>2. /\ f \in Telling /\ Telling' \subseteq Telling
      /\ \A g \in Telling : g \in Telling' \/ g = f
  BY <1>0, <1>1, TakeSet DEF RouteExit, DropReply, ReplyTo
<1>3. ~Claim(f)
  BY <1>0, <1>1, BrainTypes DEF RouteExit, DropReply, ReplyTo, Claim
<1>4. /\ UNCHANGED <<sess, nextInc, phase, op, reg, todo, memTomb, tombFile, regFile, backlog>>
      /\ Asking' = Asking
  BY DEF RouteExit, DropReply, holderVars, brainVars, Asking
<1>5. \A j \in Inc : /\ obs'[j].uid = obs[j].uid
                     /\ \/ obs'[j].pc = obs[j].pc
                        \/ obs[j].pc = "waiting" /\ obs'[j].pc = "got"
  <2>1. CASE RouteExit
    <3>1. obs' = obs \/ \E i \in Inc : obs[i].pc = "waiting" /\ obs' = [obs EXCEPT ![i].pc = "got"]
      BY <1>0, <1>1, <1>2, <2>1, EventsFound DEF RouteExit
    <3> QED BY <1>0, <3>1, BrainTypes
  <2>2. CASE DropReply
    BY <2>2 DEF DropReply, brainVars
  <2> QED BY <2>1, <2>2
<1>6. OnDisk'
  <2>1. RightRequest(Req("forget", 0, 0, Nobody))
    BY ReqFields DEF RightRequest
  <2> QED BY <1>4, <2>1, DiskStep DEF FilesWritten
<1>7. Trust' /\ AbortsQuiet'
  BY <1>0, <1>2, <1>4, <1>5, AbortsArms DEF Trust, AbortsQuiet
<1>8. Listed'
  <2>1. ASSUME NEW u \in Uid, reg[u] # 0
        PROVE  /\ sess[u].inc = reg[u] /\ sess[u].exit # "acked"
               /\ obs'[reg[u]].pc \in {"waiting", "got"}
    BY <1>0, <1>5, <2>1, ListedLives
  <2> QED BY <1>0, <1>4, <1>5, <2>1 DEF Listed
<1>9. ClaimsHeld' /\ Phases' /\ MemAhead' /\ AfterExit'
  BY <1>0, <1>2, <1>4, <1>5 DEF ClaimsHeld, Phases, MemAhead, AfterExit
<1>10. Known'
  BY <1>0, <1>2, <1>3, <1>4 DEF Known
<1> QED BY <1>6, <1>7, <1>8, <1>9, <1>10 DEF InTouch

\* The exit is recorded in memory as it is taken off the list and the file.
LEMMA OnExitKeeps ==
  ASSUME Reliable, CustodyKept, chan = "open", NEW i \in Inc, OnExit(i)
  PROVE  OnDisk' /\ InTouch'
<1>0. BrainInv /\ InTouch /\ Trust /\ Listed /\ ClaimsHeld /\ Phases /\ AbortsQuiet /\ MemAhead
      /\ AfterExit /\ Known
  BY DEF CustodyKept, InTouch
<1>1. PICK u : u = obs[i].uid
  OBVIOUS
<1>2. /\ obs[i].pc = "got" /\ u \in Uid /\ reg[u] = i /\ i # 0 /\ sess[u].inc = i
      /\ sess[u].exit # "none" /\ phase # "booting"
  <2>1. obs[i].pc = "got"
    BY DEF OnExit
  <2>2. u \in Uid /\ reg[u] = i /\ child[i] = "reaped" /\ i # 0 /\ phase # "booting"
    BY <1>0, <1>1, <2>1, Watched, TableFacts, BootIsQuiet DEF Listed
  <2> QED BY <1>0, <2>1, <2>2, ListedLives, TableFacts
<1>3. /\ UNCHANGED <<sess, nextInc, phase, op, todo, tombFile, backlog>>
      /\ Asking' = Asking /\ Telling' = Telling
      /\ obs' = [obs EXCEPT ![i].pc = "exited"] /\ reg' = [reg EXCEPT ![u] = 0]
      /\ memTomb' = [memTomb EXCEPT ![u] = [kind |-> "exit", inc |-> i]]
      /\ regFile' = Live(reg')
  BY <1>1, <1>2 DEF OnExit, PersistRegistry, Delisted, ExitRecord, holderVars, Asking, Telling, Reliable
<1>4. /\ reg'[u] = 0 /\ \A v \in Uid : v # u => reg'[v] = reg[v]
      /\ obs'[i].pc = "exited" /\ obs'[i].uid = u /\ \A j \in Inc : j # i => obs'[j] = obs[j]
      /\ memTomb'[u].inc = i /\ \A v \in Uid : v # u => memTomb'[v] = memTomb[v]
  <2>1. memTomb \in [Uid -> [kind : {"none", "exit", "lost"}, inc : 0..MaxInc]]
    BY <1>0, BrainTypes DEF BrainTypeOK
  <2> QED BY <1>0, <1>1, <1>2, <1>3, <2>1, BrainTypes
<1>5. \A v \in Uid : v \in regFile' <=> v # u /\ reg[v] # 0
  BY <1>3, <1>4 DEF Live
<1>6. OnDisk'
  <2>1. RightRequest(Req("forget", 0, 0, Nobody))
    BY ReqFields DEF RightRequest
  <2> QED BY <1>3, <1>5, <2>1, DiskStep DEF FilesWritten
<1>7. \A v \in Uid : v # u /\ reg[v] # 0 =>
        reg[v] \in Inc /\ reg[v] # i /\ sess[v].inc = reg[v] /\ obs[reg[v]].pc \in {"waiting", "got"}
  BY <1>0, <1>1, ListedLives
<1>8. Trust' /\ AbortsQuiet'
  BY <1>0, <1>2, <1>3, <1>4, AbortsArms DEF Trust, AbortsQuiet
<1>9. Listed'
  <2>1. ASSUME NEW j \in Inc, obs'[j].pc \in {"waiting", "got"}
        PROVE  reg'[obs'[j].uid] = j
    <3>1. PICK v : v = obs[j].uid
      OBVIOUS
    <3>2. j # i /\ reg[v] = j /\ v \in Uid
      BY <1>0, <1>4, <2>1, <3>1, Watched DEF Listed
    <3> QED BY <1>2, <1>4, <3>1, <3>2
  <2>2. ASSUME NEW m \in Asking, m.verb = "ack_exit"
        PROVE  m.inc \in Inc /\ obs'[m.inc].pc \in {"acking", "done"}
    BY <1>0, <1>2, <1>4, <2>2 DEF Listed
  <2>3. ASSUME NEW v \in Uid, reg'[v] # 0
        PROVE  /\ sess[v].inc = reg'[v] /\ sess[v].exit # "acked"
               /\ obs'[reg'[v]].pc \in {"waiting", "got"}
    BY <1>0, <1>4, <1>7, <2>3 DEF Listed
  <2> QED BY <1>3, <2>1, <2>2, <2>3 DEF Listed
<1>10. ClaimsHeld'
  BY <1>0, <1>3 DEF ClaimsHeld
<1>11. Phases'
  BY <1>0, <1>3, <1>4 DEF Phases
<1>12. MemAhead'
  <2>1. tombFile[u].inc <= i
    BY <1>0, <1>2 DEF CustodyKept, OnDisk, Recorded
  <2>2. phase = "adopting" => u \notin backlog
    BY <1>0, <1>2 DEF Phases
  <2>3. ASSUME NEW v \in Uid
        PROVE  /\ tombFile[v].inc <= memTomb'[v].inc
               /\ memTomb'[v].inc # tombFile[v].inc => memTomb'[v].inc = sess[v].inc
               /\ memTomb'[v].inc # 0 /\ (v \in regFile' \/ (phase = "adopting" /\ v \in backlog))
                    => reg'[v] # 0 \/ (todo[v].inc # 0 /\ ~todo[v].settled)
    <3>1. CASE v = u
      BY <1>2, <1>4, <1>5, <2>1, <2>2, <3>1
    <3>2. CASE v # u
      BY <1>0, <1>2, <1>4, <1>5, <3>2 DEF MemAhead
    <3> QED BY <3>1, <3>2
  <2> QED BY <1>2, <1>3, <2>3 DEF MemAhead
<1>13. AfterExit'
  <2>1. ASSUME NEW j \in Inc, obs'[j].pc \in {"exited", "acking", "done"}, sess[obs'[j].uid].inc = j
        PROVE  memTomb'[obs'[j].uid].inc = j /\ obs'[j].uid \notin regFile'
    <3>1. CASE j = i
      BY <1>2, <1>4, <1>5, <3>1
    <3>2. CASE j # i
      <4>1. PICK v : v = obs[j].uid
        OBVIOUS
      <4>2. obs'[j] = obs[j] /\ v \in Uid /\ v # u
        BY <1>0, <1>2, <1>4, <2>1, <3>2, <4>1, Watched
      <4>3. memTomb[v].inc = j
        BY <1>0, <2>1, <4>1, <4>2 DEF AfterExit
      <4>4. reg[v] = 0
        BY <1>7, <2>1, <4>1, <4>2
      <4>5. obs'[j].uid = v /\ memTomb'[v] = memTomb[v]
        BY <1>4, <4>1, <4>2
      <4>6. v \notin regFile'
        BY <1>5, <4>2, <4>4
      <4> QED BY <4>3, <4>5, <4>6
    <3> QED BY <3>1, <3>2
  <2> QED BY <1>3, <2>1 DEF AfterExit
<1>14. Known'
  <2>1. \A v \in Uid : sess[v].exit = "none" => reg'[v] = reg[v]
    BY <1>2, <1>4
  <2> QED BY <1>0, <1>3, <2>1 DEF Known
<1> QED BY <1>6, <1>8, <1>9, <1>10, <1>11, <1>12, <1>13, <1>14 DEF InTouch

\* The checked save puts every tombstone on disk before the ack is sent; a save
\* that fails sends none.
LEMMA SettleKeeps ==
  ASSUME CustodyKept, chan = "open", NEW i \in Inc, Settle(i)
  PROVE  OnDisk' /\ InTouch'
<1>0. BrainInv /\ InTouch /\ Trust /\ Listed /\ ClaimsHeld /\ Phases /\ AbortsQuiet /\ MemAhead
      /\ AfterExit /\ Known
  BY DEF CustodyKept, InTouch
<1>1. PICK u : u = obs[i].uid
  OBVIOUS
<1>2. obs[i].pc = "exited" /\ u \in Uid /\ i < nextInc /\ phase # "booting"
  BY <1>0, <1>1, Watched, BootIsQuiet DEF Settle
<1>3. PICK x : x = Req("ack_exit", u, i, Observer)
  OBVIOUS
<1>4. x.verb = "ack_exit" /\ x.uid = u /\ x.inc = i /\ x.from = Observer /\ x \in Request
  <2>1. x \in Request
    BY <1>0, <1>2, <1>3, BrainTypes, ReqType
  <2> QED BY <1>3, <2>1, ReqFields
<1>5. /\ UNCHANGED <<sess, nextInc, phase, op, reg, todo, memTomb, regFile, backlog>>
      /\ Telling' = Telling
      /\ \/ /\ tombFile' = memTomb /\ Asking' = Asking \cup {x}
            /\ obs' = [obs EXCEPT ![i].pc = "acking"]
         \/ /\ tombFile' = tombFile /\ Asking' = Asking
            /\ obs' = [obs EXCEPT ![i].pc = "done"]
  <2>1. Send(x) => Asking' = Asking \cup {x}
    BY <1>0, <1>4, SendSet
  <2> QED BY <1>1, <1>3, <2>1 DEF Settle, SaveTombs, holderVars, Telling, Asking
<1>6. /\ \A j \in Inc : obs'[j].uid = obs[j].uid /\ (j # i => obs'[j] = obs[j])
      /\ obs'[i].pc \in {"acking", "done"}
  BY <1>0, <1>5, BrainTypes
<1>7. OnDisk'
  <2>1. CASE tombFile' = memTomb /\ Asking' = Asking \cup {x}
    <3>1. RightRequest(x)
      BY <1>0, <1>1, <1>2, <1>4, <1>5, <2>1 DEF RightRequest, AfterExit
    <3> QED BY <1>2, <1>5, <2>1, <3>1, DiskStep DEF FilesWritten
  <2>2. CASE tombFile' = tombFile /\ Asking' = Asking
    <3>1. RightRequest(Req("forget", 0, 0, Nobody))
      BY ReqFields DEF RightRequest
    <3> QED BY <1>5, <2>2, <3>1, DiskStep DEF FilesWritten
  <2> QED BY <1>5, <2>1, <2>2
<1>8. \A m \in Asking' : m \in Asking \/ (m = x /\ obs'[i].pc = "acking")
  BY <1>0, <1>5, BrainTypes
<1>9. Trust' /\ AbortsQuiet'
  BY <1>0, <1>2, <1>4, <1>5, <1>6, <1>8, AbortsArms DEF Trust, AbortsQuiet
<1>10. Listed'
  <2>1. ASSUME NEW m \in Asking', m.verb = "ack_exit"
        PROVE  m.inc \in Inc /\ obs'[m.inc].pc \in {"acking", "done"}
    BY <1>0, <1>4, <1>6, <1>8, <2>1 DEF Listed
  <2>2. ASSUME NEW v \in Uid, reg[v] # 0
        PROVE  /\ sess[v].inc = reg[v] /\ sess[v].exit # "acked"
               /\ obs'[reg[v]].pc \in {"waiting", "got"}
    BY <1>0, <1>2, <1>6, <2>2, ListedLives
  <2>3. ASSUME NEW j \in Inc, obs'[j].pc \in {"waiting", "got"}
        PROVE  reg[obs'[j].uid] = j
    BY <1>0, <1>6, <2>3 DEF Listed
  <2> QED BY <1>5, <2>1, <2>2, <2>3 DEF Listed
<1>11. ClaimsHeld' /\ Phases'
  BY <1>0, <1>4, <1>5, <1>8 DEF ClaimsHeld, Phases
<1>12. MemAhead'
  <2>1. ASSUME NEW v \in Uid
        PROVE  tombFile'[v].inc <= memTomb[v].inc /\ tombFile'[v].inc \in {tombFile[v].inc, memTomb[v].inc}
    BY <1>0, <1>5, TombFacts DEF MemAhead
  <2> QED BY <1>0, <1>2, <1>5, <2>1 DEF MemAhead
<1>13. AfterExit'
  BY <1>0, <1>2, <1>5, <1>6 DEF AfterExit
<1>14. Known'
  BY <1>0, <1>5, <1>8 DEF Known
<1> QED BY <1>7, <1>9, <1>10, <1>11, <1>12, <1>13, <1>14 DEF InTouch

\* A forget names a session whose exit was seen, so nobody has yet to adopt it.
LEMMA AckedKeeps ==
  ASSUME CustodyKept, chan = "open", NEW i \in Inc, Acked(i)
  PROVE  OnDisk' /\ InTouch'
<1>0. BrainInv /\ InTouch /\ Trust /\ Listed /\ ClaimsHeld /\ Phases /\ AbortsQuiet /\ MemAhead
      /\ AfterExit /\ Known
  BY DEF CustodyKept, InTouch
<1>1. PICK u, f : u = obs[i].uid /\ f = Head(toBrain)
  OBVIOUS
<1>2. obs[i].pc = "acking" /\ u \in Uid /\ i # 0
  BY <1>0, <1>1, Watched, TableFacts DEF Acked
<1>3. /\ f \in Telling /\ f.from = Observer /\ Telling' \subseteq Telling
      /\ \A g \in Telling : g \in Telling' \/ g = f
  BY <1>0, <1>1, TakeSet DEF Acked, ReplyTo
<1>4. PICK x : x = Req("forget", u, i, Nobody)
  OBVIOUS
<1>5. x.verb = "forget" /\ x.uid = u /\ x.inc = i /\ Asking' = Asking \cup {x}
  <2>1. x \in Request
    BY <1>0, <1>2, <1>4, BrainTypes, ReqType
  <2> QED BY <1>0, <1>1, <1>4, <2>1, ReqFields, SendSet DEF Acked
<1>6. /\ UNCHANGED <<sess, nextInc, phase, op, reg, todo, memTomb, tombFile, regFile, backlog>>
      /\ obs' = [obs EXCEPT ![i].pc = "done"]
  BY DEF Acked, holderVars
<1>7. ~Claim(f)
  BY <1>0, <1>3, BrainTypes DEF Claim
<1>8. /\ \A j \in Inc : obs'[j].uid = obs[j].uid /\ (j # i => obs'[j] = obs[j])
      /\ obs'[i].pc = "done"
  BY <1>0, <1>6, BrainTypes
<1>9. OnDisk'
  <2>1. RightRequest(x)
    BY <1>5 DEF RightRequest
  <2> QED BY <1>5, <1>6, <2>1, DiskStep DEF FilesWritten
<1>10. Trust' /\ AbortsQuiet'
  BY <1>0, <1>2, <1>3, <1>5, <1>6, <1>8, AbortsArms DEF Trust, AbortsQuiet
<1>11. Listed'
  <2>1. ASSUME NEW v \in Uid, reg[v] # 0
        PROVE  /\ sess[v].inc = reg[v] /\ sess[v].exit # "acked"
               /\ obs'[reg[v]].pc \in {"waiting", "got"}
    BY <1>0, <1>2, <1>8, <2>1, ListedLives
  <2>2. ASSUME NEW j \in Inc, obs'[j].pc \in {"waiting", "got"}
        PROVE  reg[obs'[j].uid] = j
    BY <1>0, <1>8, <2>2 DEF Listed
  <2>3. ASSUME NEW m \in Asking', m.verb = "ack_exit"
        PROVE  m.inc \in Inc /\ obs'[m.inc].pc \in {"acking", "done"}
    BY <1>0, <1>5, <1>8, <2>3 DEF Listed
  <2> QED BY <1>6, <2>1, <2>2, <2>3 DEF Listed
<1>12. ClaimsHeld'
  <2>1. todo[u].inc # i
    BY <1>0, <1>2, ClaimsFree DEF Free
  <2> QED BY <1>0, <1>2, <1>3, <1>5, <1>6, <2>1 DEF ClaimsHeld
<1>13. Phases' /\ MemAhead'
  BY <1>0, <1>6 DEF Phases, MemAhead
<1>14. AfterExit'
  BY <1>0, <1>2, <1>6, <1>8 DEF AfterExit
<1>15. Known'
  BY <1>0, <1>3, <1>5, <1>6, <1>7 DEF Known
<1> QED BY <1>9, <1>10, <1>11, <1>12, <1>13, <1>14, <1>15 DEF InTouch

-----------------------------------------------------------------------------
(* The boot thread.                                                        *)

\* The boot thread learns of every session the holder holds, and nothing is in
\* flight that could change it meanwhile.
LEMMA FetchKeeps ==
  ASSUME CustodyKept, chan = "open", FetchBoot
  PROVE  OnDisk' /\ InTouch'
<1>0. BrainInv /\ InTouch /\ Trust /\ Listed /\ ClaimsHeld /\ Phases /\ AbortsQuiet /\ MemAhead
      /\ AfterExit /\ Known /\ Recorded
  BY DEF CustodyKept, InTouch, OnDisk
<1>1. /\ UNCHANGED <<sess, nextInc, op, reg, obs, memTomb, tombFile, regFile>>
      /\ Asking' = Asking /\ Telling' = Telling /\ phase' = "adopting" /\ phase = "booting"
      /\ todo' = [u \in Uid |-> [inc |-> sess[u].inc, settled |-> sess[u].exit = "acked"]]
  BY DEF FetchBoot, Alive, tableVars, Asking, Telling
<1>2. /\ Asking = {} /\ Telling = {}
      /\ \A c \in Caller : op[c].pc = "idle"
      /\ \A u \in Uid : reg[u] = 0 /\ todo[u].inc = 0
      /\ \A i \in Inc : obs[i].pc = "none"
  BY <1>0, <1>1, BootIsQuiet
<1>3. \A u \in Uid : todo'[u].inc = sess[u].inc /\ (todo'[u].settled <=> sess[u].exit = "acked")
  BY <1>1
<1>4. OnDisk'
  <2>1. RightRequest(Req("forget", 0, 0, Nobody))
    BY ReqFields DEF RightRequest
  <2> QED BY <1>1, <2>1, DiskStep DEF FilesWritten
<1>5. Trust' /\ AbortsQuiet' /\ Listed' /\ AfterExit'
  BY <1>0, <1>1 DEF Trust, AbortsQuiet, Listed, AfterExit
<1>6. ClaimsHeld'
  BY <1>1, <1>2, <1>3 DEF ClaimsHeld
<1>7. Phases'
  BY <1>1, <1>2 DEF Phases
<1>8. MemAhead'
  <2>1. ASSUME NEW u \in Uid, memTomb[u].inc # 0, u \in regFile \/ u \in backlog'
        PROVE  todo'[u].inc # 0 /\ ~todo'[u].settled
    <3>1. u \in regFile /\ tombFile[u].inc # 0
      BY <1>0, <1>1, <2>1 DEF FetchBoot, MemAhead
    <3> QED BY <1>0, <1>3, <3>1 DEF Recorded
  <2> QED BY <1>0, <1>1, <2>1 DEF MemAhead
<1>9. Known'
  BY <1>1, <1>3 DEF Known
<1> QED BY <1>4, <1>5, <1>6, <1>7, <1>8, <1>9 DEF InTouch

\* A settled record needs nobody; it is forgotten once it is off the list of
\* what is to be adopted.
LEMMA AdoptForgetKeeps ==
  ASSUME CustodyKept, chan = "open", NEW u \in Uid, AdoptForget(u)
  PROVE  OnDisk' /\ InTouch'
<1>0. BrainInv /\ InTouch /\ Trust /\ Listed /\ ClaimsHeld /\ Phases /\ AbortsQuiet /\ MemAhead
      /\ AfterExit /\ Known
  BY DEF CustodyKept, InTouch
<1>1. PICK i : i = todo[u].inc
  OBVIOUS
<1>2. i \in Inc /\ i # 0 /\ todo[u].settled /\ sess[u].exit = "acked"
  <2>1. i # 0 /\ todo[u].settled
    BY <1>1 DEF AdoptForget, Reconcile
  <2> QED BY <1>0, <1>1, <2>1, ClaimsFree DEF Free, ClaimsHeld
<1>3. PICK x : x = Req("forget", u, i, Nobody)
  OBVIOUS
<1>4. x.verb = "forget" /\ x.uid = u /\ x.inc = i /\ Asking' = Asking \cup {x}
  <2>1. x \in Request
    BY <1>0, <1>2, <1>3, BrainTypes, ReqType
  <2> QED BY <1>0, <1>1, <1>3, <2>1, ReqFields, SendSet DEF AdoptForget
<1>5. /\ UNCHANGED <<sess, nextInc, phase, op, reg, obs, memTomb, tombFile, regFile, backlog>>
      /\ Telling' = Telling /\ todo' = [todo EXCEPT ![u] = NoRecord]
  BY DEF AdoptForget, Reconcile, holderVars, Telling
<1>6. todo'[u].inc = 0 /\ \A v \in Uid : v # u => todo'[v] = todo[v]
  <2>1. todo \in [Uid -> [inc : 0..MaxInc, settled : BOOLEAN]]
    BY <1>0, BrainTypes DEF BrainTypeOK
  <2> QED BY <1>5, <2>1 DEF NoRecord
<1>7. OnDisk'
  <2>1. RightRequest(x)
    BY <1>4 DEF RightRequest
  <2> QED BY <1>4, <1>5, <2>1, DiskStep DEF FilesWritten
<1>8. Trust' /\ AbortsQuiet' /\ Listed' /\ AfterExit'
  BY <1>0, <1>4, <1>5 DEF Trust, AbortsQuiet, Listed, AfterExit
<1>9. ClaimsHeld'
  <2>1. \A m \in Asking' : m.verb = "forget" => m.uid \in Uid /\ m.inc # 0 /\ todo'[m.uid].inc # m.inc
    <3>1. \A m \in Asking : m.uid \in Uid
      BY <1>0, TableFacts DEF Request
    <3> QED BY <1>0, <1>2, <1>4, <1>6, <3>1 DEF ClaimsHeld
  <2> QED BY <1>0, <1>5, <1>6, <2>1 DEF ClaimsHeld
<1>10. Phases' /\ MemAhead'
  BY <1>0, <1>2, <1>5, <1>6 DEF Phases, MemAhead
<1>11. Known'
  BY <1>0, <1>2, <1>4, <1>5, <1>6 DEF Known
<1> QED BY <1>7, <1>8, <1>9, <1>10, <1>11 DEF InTouch

\* An adopted session goes from the boot thread's list to the list of sessions.
LEMMA AdoptOneKeeps ==
  ASSUME CustodyKept, chan = "open", NEW u \in Uid, AdoptOne(u)
  PROVE  OnDisk' /\ InTouch'
<1>0. BrainInv /\ InTouch /\ Trust /\ Listed /\ ClaimsHeld /\ Phases /\ AbortsQuiet /\ MemAhead
      /\ AfterExit /\ Known
  BY DEF CustodyKept, InTouch
<1>1. PICK i : i = todo[u].inc
  OBVIOUS
<1>2. /\ i \in Inc /\ i # 0 /\ ~todo[u].settled /\ sess[u].exit # "acked" /\ sess[u].inc = i
      /\ Free(i) /\ obs[i].pc = "none"
  <2>1. i # 0 /\ ~todo[u].settled
    BY <1>1 DEF AdoptOne, Reconcile
  <2> QED BY <1>0, <1>1, <2>1, ClaimsFree DEF Free, ClaimsHeld
<1>3. PICK x : x = Req("arm_reap", u, i, Nobody)
  OBVIOUS
<1>4. x.verb = "arm_reap" /\ x.uid = u /\ x.inc = i /\ Asking' = Asking \cup {x}
  <2>1. x \in Request
    BY <1>0, <1>2, <1>3, BrainTypes, ReqType
  <2> QED BY <1>0, <1>1, <1>3, <2>1, ReqFields, SendSet DEF AdoptOne
<1>5. /\ UNCHANGED <<sess, nextInc, phase, op, memTomb, tombFile, regFile>>
      /\ Telling' = Telling /\ todo' = [todo EXCEPT ![u] = NoRecord] /\ backlog' = backlog \ {u}
      /\ obs' = [obs EXCEPT ![i] = [pc |-> "waiting", uid |-> u]] /\ reg' = [reg EXCEPT ![u] = i]
      /\ phase = "adopting"
  BY <1>1 DEF AdoptOne, Reconcile, Alive, holderVars, Telling
<1>6. /\ todo'[u].inc = 0 /\ \A v \in Uid : v # u => todo'[v] = todo[v]
      /\ reg'[u] = i /\ \A v \in Uid : v # u => reg'[v] = reg[v]
      /\ obs'[i].pc = "waiting" /\ obs'[i].uid = u /\ \A j \in Inc : j # i => obs'[j] = obs[j]
  <2>1. todo \in [Uid -> [inc : 0..MaxInc, settled : BOOLEAN]]
    BY <1>0, BrainTypes DEF BrainTypeOK
  <2> QED BY <1>0, <1>2, <1>5, <2>1, BrainTypes DEF NoRecord
<1>7. OnDisk'
  <2>1. RightRequest(x)
    BY <1>2, <1>4 DEF RightRequest
  <2> QED BY <1>4, <1>5, <2>1, DiskStep DEF FilesWritten
<1>8. Trust' /\ AbortsQuiet'
  BY <1>0, <1>2, <1>4, <1>5, <1>6, AbortsArms DEF Trust, AbortsQuiet, Free
<1>9. ASSUME NEW v \in Uid, v # u, reg[v] # 0
      PROVE  reg[v] \in Inc /\ reg[v] # i /\ sess[v].inc = reg[v] /\ sess[v].exit # "acked"
             /\ obs[reg[v]].pc \in {"waiting", "got"}
  BY <1>0, <1>2, <1>9, ListedLives
<1>10. Listed'
  <2>1. ASSUME NEW v \in Uid, reg'[v] # 0
        PROVE  /\ sess[v].inc = reg'[v] /\ sess[v].exit # "acked"
               /\ obs'[reg'[v]].pc \in {"waiting", "got"}
    <3>1. CASE v = u
      BY <1>2, <1>6, <3>1
    <3>2. CASE v # u
      BY <1>6, <1>9, <2>1, <3>2
    <3> QED BY <3>1, <3>2
  <2>2. ASSUME NEW j \in Inc, obs'[j].pc \in {"waiting", "got"}
        PROVE  reg'[obs'[j].uid] = j
    <3>1. CASE j = i
      BY <1>6, <3>1
    <3>2. CASE j # i
      <4>1. PICK v : v = obs[j].uid
        OBVIOUS
      <4>2. obs'[j].uid = v /\ reg[v] = j /\ v \in Uid /\ j # 0
        BY <1>0, <1>6, <2>2, <3>2, <4>1, Watched, TableFacts DEF Listed
      <4>3. v # u
        BY <1>0, <1>2, <3>2, <4>2, ListedLives
      <4> QED BY <1>6, <4>2, <4>3
    <3> QED BY <3>1, <3>2
  <2>3. ASSUME NEW m \in Asking', m.verb = "ack_exit"
        PROVE  m.inc \in Inc /\ obs'[m.inc].pc \in {"acking", "done"}
    BY <1>0, <1>2, <1>4, <1>6, <2>3 DEF Listed
  <2> QED BY <1>5, <2>1, <2>2, <2>3 DEF Listed
<1>11. ClaimsHeld'
  <2>1. \A m \in Asking' : m.verb = "forget" => m.inc # 0 /\ todo'[m.uid].inc # m.inc
    <3>1. \A m \in Asking : m.uid \in Uid
      BY <1>0, TableFacts DEF Request
    <3> QED BY <1>0, <1>4, <1>6, <3>1 DEF ClaimsHeld
  <2> QED BY <1>0, <1>5, <1>6, <2>1 DEF ClaimsHeld
<1>12. Phases'
  BY <1>0, <1>5, <1>6 DEF Phases
<1>13. MemAhead'
  BY <1>0, <1>2, <1>5, <1>6 DEF MemAhead
<1>14. AfterExit'
  <2>1. \A j \in Inc : obs'[j].pc \in {"exited", "acking", "done"} => j # i /\ obs'[j] = obs[j]
    BY <1>6
  <2> QED BY <1>0, <1>5, <2>1 DEF AfterExit
<1>15. Known'
  BY <1>0, <1>2, <1>4, <1>5, <1>6 DEF Known
<1> QED BY <1>7, <1>8, <1>10, <1>11, <1>12, <1>13, <1>14, <1>15 DEF InTouch

\* Declaring a session lost overwrites no recorded exit: what the file lists and
\* a tombstone names was adopted.
LEMMA AdoptDoneKeeps ==
  ASSUME Reliable, CustodyKept, chan = "open", AdoptDone
  PROVE  OnDisk' /\ InTouch' /\ \A u \in Uid : memTomb'[u].inc = memTomb[u].inc
<1>0. BrainInv /\ InTouch /\ Trust /\ Listed /\ ClaimsHeld /\ Phases /\ AbortsQuiet /\ MemAhead
      /\ AfterExit /\ Known
  BY DEF CustodyKept, InTouch
<1>1. /\ UNCHANGED <<sess, nextInc, op, reg, obs, todo>>
      /\ Asking' = Asking /\ Telling' = Telling /\ phase' = "restoring" /\ phase = "adopting"
  BY DEF AdoptDone, Alive, tableVars, Asking, Telling
<1>2. \A u \in Uid : todo[u].inc = 0
  BY DEF AdoptDone, NoRecord
<1>3. \A u \in Unadopted : u \in Uid /\ memTomb[u].inc = 0
  <2>1. backlog \subseteq Uid
    BY <1>0, BrainTypes DEF BrainTypeOK
  <2> QED BY <1>0, <1>1, <1>2, <2>1 DEF MemAhead, Unadopted
<1>4. /\ \A u \in Uid : memTomb'[u].inc = memTomb[u].inc
      /\ \/ UNCHANGED tombFile
         \/ tombFile' = memTomb'
      /\ \/ UNCHANGED regFile
         \/ regFile' = Live(reg)
  <2>1. CASE epoch > 1 /\ Unadopted # {}
    <3>1. /\ memTomb' = [u \in Uid |-> IF u \in Unadopted THEN [kind |-> "lost", inc |-> 0]
                                       ELSE memTomb[u]]
          /\ tombFile' = memTomb' \/ UNCHANGED tombFile
          /\ regFile' = Live(reg)
      BY <1>1, <2>1 DEF AdoptDone, PersistRegistry, Reliable
    <3> QED BY <1>3, <3>1
  <2>2. CASE ~(epoch > 1 /\ Unadopted # {})
    BY <2>2 DEF AdoptDone
  <2> QED BY <2>1, <2>2
<1>5. \A u \in Uid : tombFile'[u].inc \in {tombFile[u].inc, memTomb[u].inc}
  BY <1>4
<1>6. \A u \in Uid : u \in regFile' => u \in regFile \/ reg[u] # 0
  BY <1>4 DEF Live
<1>7. OnDisk'
  <2>1. RightRequest(Req("forget", 0, 0, Nobody))
    BY ReqFields DEF RightRequest
  <2>2. FilesWritten
    BY <1>1, <1>4, <1>5 DEF FilesWritten, Live
  <2> QED BY <1>1, <2>1, <2>2, DiskStep
<1>8. Trust' /\ AbortsQuiet' /\ Listed' /\ ClaimsHeld'
  BY <1>0, <1>1 DEF Trust, AbortsQuiet, Listed, ClaimsHeld
<1>9. Phases'
  BY <1>1, <1>2 DEF Phases
<1>10. MemAhead'
  <2>1. ASSUME NEW u \in Uid
        PROVE  /\ tombFile'[u].inc <= memTomb'[u].inc
               /\ memTomb'[u].inc # tombFile'[u].inc => memTomb'[u].inc = sess[u].inc
               /\ memTomb'[u].inc # 0 /\ u \in regFile' => reg[u] # 0
    <3>1. /\ tombFile[u].inc \in Nat /\ memTomb[u].inc \in Nat
          /\ tombFile[u].inc <= memTomb[u].inc
          /\ memTomb[u].inc # tombFile[u].inc => memTomb[u].inc = sess[u].inc
          /\ memTomb[u].inc # 0 /\ u \in regFile => reg[u] # 0
      BY <1>0, <1>1, <1>2, TombFacts DEF MemAhead
    <3> QED BY <1>4, <1>5, <1>6, <3>1
  <2> QED BY <1>1, <2>1 DEF MemAhead
<1>11. AfterExit'
  <2>1. ASSUME NEW j \in Inc, obs[j].pc \in {"exited", "acking", "done"}, sess[obs[j].uid].inc = j
        PROVE  memTomb'[obs[j].uid].inc = j /\ obs[j].uid \notin regFile'
    <3>1. PICK v : v = obs[j].uid
      OBVIOUS
    <3>2. v \in Uid /\ memTomb[v].inc = j /\ v \notin regFile
      BY <1>0, <2>1, <3>1, Watched DEF AfterExit
    <3>3. reg[v] = 0
      BY <1>0, <2>1, <3>1, <3>2, ListedLives
    <3> QED BY <1>4, <1>6, <3>1, <3>2, <3>3
  <2> QED BY <1>1, <2>1 DEF AfterExit
<1>12. Known'
  BY <1>0, <1>1 DEF Known
<1> QED BY <1>4, <1>7, <1>8, <1>9, <1>10, <1>11, <1>12 DEF InTouch

\* Restoring rewrites the registry file with what is listed.
LEMMA RestoreKeeps ==
  ASSUME Reliable, CustodyKept, chan = "open", RestoreDone \/ \E u \in Uid : RestoreSkip(u)
  PROVE  OnDisk' /\ InTouch'
<1>0. BrainInv /\ InTouch /\ Trust /\ Listed /\ ClaimsHeld /\ Phases /\ AbortsQuiet /\ MemAhead
      /\ AfterExit /\ Known
  BY DEF CustodyKept, InTouch
<1>1. /\ UNCHANGED <<sess, nextInc, op, reg, obs, todo, memTomb, tombFile>>
      /\ Asking' = Asking /\ Telling' = Telling
      /\ phase = "restoring" /\ phase' \in {"restoring", "serving"}
      /\ UNCHANGED regFile \/ regFile' = Live(reg)
  BY DEF RestoreDone, RestoreSkip, Alive, PersistRegistry, Reliable, tableVars, Asking, Telling
<1>2. \A u \in Uid : u \in regFile' => u \in regFile \/ reg[u] # 0
  BY <1>1 DEF Live
<1>3. OnDisk'
  <2>1. RightRequest(Req("forget", 0, 0, Nobody))
    BY ReqFields DEF RightRequest
  <2>2. FilesWritten
    BY <1>1 DEF FilesWritten, Live
  <2> QED BY <1>1, <2>1, <2>2, DiskStep
<1>4. Trust' /\ AbortsQuiet' /\ Listed' /\ ClaimsHeld'
  BY <1>0, <1>1 DEF Trust, AbortsQuiet, Listed, ClaimsHeld
<1>5. Phases'
  BY <1>0, <1>1 DEF Phases
<1>6. MemAhead'
  BY <1>0, <1>1, <1>2 DEF MemAhead
<1>7. AfterExit'
  <2>1. ASSUME NEW j \in Inc, obs[j].pc \in {"exited", "acking", "done"}, sess[obs[j].uid].inc = j
        PROVE  memTomb[obs[j].uid].inc = j /\ obs[j].uid \notin regFile'
    <3>1. PICK v : v = obs[j].uid
      OBVIOUS
    <3>2. v \in Uid /\ memTomb[v].inc = j /\ v \notin regFile
      BY <1>0, <2>1, <3>1, Watched DEF AfterExit
    <3>3. reg[v] = 0
      BY <1>0, <2>1, <3>1, <3>2, ListedLives
    <3> QED BY <1>2, <3>1, <3>2, <3>3
  <2> QED BY <1>1, <2>1 DEF AfterExit
<1>8. Known'
  BY <1>0, <1>1 DEF Known
<1> QED BY <1>3, <1>4, <1>5, <1>6, <1>7, <1>8 DEF InTouch

-----------------------------------------------------------------------------
(* The holder's handlers, whether the brain that asked lives or not.       *)

\* What a handler makes of the request m, as far as the brain can tell: the
\* request is gone, one session changes, by the verb, and the reply is there.
HandlerMove(m) ==
  /\ m \in Asking /\ m \in Request
  /\ Asking' \subseteq Asking /\ \A n \in Asking : n \in Asking' \/ n = m
  /\ \A v \in Uid : v # m.uid => sess'[v] = sess[v]
  /\ nextInc' >= nextInc
  /\ LET e == sess[m.uid]
         d == sess'[m.uid]
     IN
     \/ /\ d = e
        /\ m.verb = "abort_spawn" => e.inc # m.inc \/ e.inc = 0
     \/ /\ m.verb = "spawn"
        /\ e.inc = 0 /\ d.inc = nextInc /\ nextInc \in Inc /\ nextInc' > nextInc
        /\ ~d.armed /\ d.exit = "none"
        /\ chan = "open" => \E f \in Telling' : /\ f.verb = "spawn" /\ f.from = m.from
                                                /\ f.ok /\ f.uid = m.uid
     \/ /\ m.verb = "arm_reap"
        /\ e.inc = m.inc /\ e.inc # 0 /\ d.inc = e.inc /\ d.armed
        /\ d.exit = "acked" <=> e.exit = "acked"
        /\ d.exit = "none" => e.exit = "none"
     \/ /\ m.verb \in {"abort_spawn", "forget"}
        /\ e.inc = m.inc /\ e.inc # 0 /\ d.inc = 0 /\ ~d.armed /\ d.exit = "none"
        /\ m.verb = "forget" => e.exit = "acked"
     \/ /\ m.verb = "ack_exit"
        /\ e.inc = m.inc /\ e.inc # 0 /\ d.inc = e.inc /\ d.armed = e.armed
        /\ e.exit = "pending" /\ d.exit = "acked"
  /\ chan = "open" =>
       /\ Telling \subseteq Telling'
       /\ \A f \in Telling' : f \notin Telling =>
            \/ f.verb = "exit_event"
            \/ /\ f.verb = m.verb /\ f.uid = m.uid /\ f.from = m.from
               /\ f.verb = "spawn" /\ f.ok => sess'[f.uid].inc = f.inc /\ ~sess'[f.uid].armed
               /\ f.verb = "arm_reap" /\ ~f.ok => sess[m.uid].inc # m.inc \/ m.inc = 0

\* The request a handler takes.
LEMMA DispatchSet ==
  ASSUME BrainInv, NEW v, Dispatch(v), NEW m, m = Head(toHolder)
  PROVE  /\ m \in Asking /\ m \in Request /\ m.verb = v /\ m.uid \in Uid /\ m.inc \in 0..MaxInc
         /\ Asking' \subseteq Asking /\ \A n \in Asking : n \in Asking' \/ n = m
         /\ \A i \in 0..MaxInc, b \in BOOLEAN : Reply(m, i, b) \in Frame
<1>1. toHolder \in Seq(Request) /\ toHolder # <<>> /\ toHolder' = Tail(toHolder) /\ TypeOK
      /\ m.verb = v
  BY DEF BrainInv, TypeInv, TypeOK, Dispatch
<1>2. /\ m \in Asking /\ m \in Request
      /\ Asking' \subseteq Asking /\ \A n \in Asking : n \in Asking' \/ n = m
  BY <1>1, TailSet DEF Asking
<1>3. \A i \in 0..MaxInc, b \in BOOLEAN : Reply(m, i, b) \in Frame
  BY <1>1, DispatchType
<1> QED BY <1>1, <1>2, <1>3 DEF Request

\* Each handler makes such a move (dispatch and the handle_* it calls).
LEMMA HandlerMoves ==
  ASSUME BrainInv, HolderStep
  PROVE  \E m : HandlerMove(m)
<1>1. PICK m : m = Head(toHolder)
  OBVIOUS
<1>2. /\ TypeOK /\ sess \in [Uid -> Entry] /\ nextInc \in Nat /\ 0 \in 0..MaxInc
      /\ TRUE \in BOOLEAN /\ FALSE \in BOOLEAN
  BY TableFacts, BrainTypes DEF TypeInv
<1>3. \A i, b : /\ Reply(m, i, b).verb = m.verb /\ Reply(m, i, b).uid = m.uid
                /\ Reply(m, i, b).from = m.from /\ Reply(m, i, b).inc = i /\ Reply(m, i, b).ok = b
  BY DEF Reply
<1>4. \A i \in 0..MaxInc, b \in BOOLEAN :
        Reply(m, i, b) \in Frame /\ Push(<<Reply(m, i, b)>>) /\ chan = "open" =>
          Telling' = Telling \cup {Reply(m, i, b)}
  BY <1>2, PushSet
<1>5. CASE HandleSpawnOk
  <2>1. /\ Dispatch("spawn") /\ ~Held(m.uid) /\ nextInc <= MaxInc
        /\ sess' = [sess EXCEPT ![m.uid] = Spawned(nextInc)]
        /\ nextInc' = nextInc + 1
        /\ Push(<<Reply(m, nextInc, TRUE)>>)
    BY <1>1, <1>5 DEF HandleSpawnOk
  <2>2. nextInc \in Inc /\ nextInc \in 0..MaxInc /\ nextInc' > nextInc /\ nextInc' >= nextInc
    BY <1>2, <2>1, TableAssumption DEF TypeOK, Inc
  <2>3. /\ m \in Asking /\ m \in Request /\ m.verb = "spawn" /\ m.uid \in Uid
        /\ Asking' \subseteq Asking /\ \A n \in Asking : n \in Asking' \/ n = m
        /\ Reply(m, nextInc, TRUE) \in Frame
    BY <1>1, <1>2, <2>1, <2>2, DispatchSet
  <2>4. /\ sess[m.uid].inc = 0
        /\ sess'[m.uid].inc = nextInc /\ ~sess'[m.uid].armed /\ sess'[m.uid].exit = "none"
        /\ \A v \in Uid : v # m.uid => sess'[v] = sess[v]
    BY <1>2, <2>1, <2>3 DEF Held, Spawned, NoEntry
  <2>5. PICK f : f = Reply(m, nextInc, TRUE)
    OBVIOUS
  <2>6. /\ f.verb = m.verb /\ f.uid = m.uid /\ f.from = m.from /\ f.inc = nextInc /\ f.ok
        /\ chan = "open" => Telling' = Telling \cup {f}
    BY <1>2, <1>3, <1>4, <2>1, <2>2, <2>3, <2>5
  <2>7. HandlerMove(m)
    BY <1>2, <2>2, <2>3, <2>4, <2>6 DEF HandlerMove
  <2> QED BY <2>7
<1>6. CASE HandleSpawnErr \/ HandleSpawnTorn
  <2>1. /\ Dispatch("spawn") /\ UNCHANGED sess /\ nextInc' >= nextInc
        /\ Push(<<Reply(m, 0, FALSE)>>)
    BY <1>1, <1>2, <1>6 DEF HandleSpawnErr, HandleSpawnTorn, Refuse, holderVars
  <2>2. /\ m \in Asking /\ m \in Request /\ m.verb = "spawn"
        /\ Asking' \subseteq Asking /\ \A n \in Asking : n \in Asking' \/ n = m
        /\ Reply(m, 0, FALSE) \in Frame
    BY <1>1, <1>2, <2>1, DispatchSet
  <2>3. PICK f : f = Reply(m, 0, FALSE)
    OBVIOUS
  <2>4. /\ f.verb = m.verb /\ f.uid = m.uid /\ f.from = m.from /\ ~f.ok
        /\ chan = "open" => Telling' = Telling \cup {f}
    BY <1>2, <1>3, <1>4, <2>1, <2>2, <2>3
  <2>5. HandlerMove(m)
    BY <2>1, <2>2, <2>4 DEF HandlerMove
  <2> QED BY <2>5
<1>7. CASE HandleArmReap
  <2> DEFINE e == [sess[m.uid] EXCEPT !.armed = TRUE, !.ready = TRUE]
  <2>1. /\ Dispatch("arm_reap") /\ UNCHANGED nextInc
        /\ \/ ~Matches(m) /\ UNCHANGED sess /\ Push(<<Reply(m, 0, FALSE)>>)
           \/ /\ Matches(m) /\ e.exit = "none"
              /\ sess' = [sess EXCEPT ![m.uid] = Consumed(e)]
              /\ Push(<<Reply(m, m.inc, TRUE), ExitEvent(m.uid)>>)
           \/ /\ Matches(m)
              /\ sess' = [sess EXCEPT ![m.uid] = e]
              /\ \/ Push(<<Reply(m, m.inc, TRUE), ExitEvent(m.uid)>>)
                 \/ Push(<<Reply(m, m.inc, TRUE)>>)
    BY <1>1, <1>7 DEF HandleArmReap, Refuse, ConsumedByArm
  <2>2. /\ m \in Asking /\ m \in Request /\ m.verb = "arm_reap" /\ m.uid \in Uid /\ m.inc \in 0..MaxInc
        /\ Asking' \subseteq Asking /\ \A n \in Asking : n \in Asking' \/ n = m
        /\ Reply(m, 0, FALSE) \in Frame /\ Reply(m, m.inc, TRUE) \in Frame
    <3>1. /\ m \in Asking /\ m \in Request /\ m.verb = "arm_reap" /\ m.uid \in Uid /\ m.inc \in 0..MaxInc
          /\ Asking' \subseteq Asking /\ \A n \in Asking : n \in Asking' \/ n = m
          /\ \A i \in 0..MaxInc, b \in BOOLEAN : Reply(m, i, b) \in Frame
      BY <1>1, <2>1, DispatchSet
    <3> QED BY <1>2, <3>1
  <2>3. CASE ~Matches(m) /\ UNCHANGED sess /\ Push(<<Reply(m, 0, FALSE)>>)
    <3>1. PICK f : f = Reply(m, 0, FALSE)
      OBVIOUS
    <3>2. /\ f.verb = m.verb /\ f.uid = m.uid /\ f.from = m.from
          /\ chan = "open" => Telling' = Telling \cup {f}
      BY <1>2, <1>3, <1>4, <2>2, <2>3, <3>1
    <3>3. sess[m.uid].inc # m.inc \/ m.inc = 0
      BY <2>3 DEF Matches, Held
    <3>4. nextInc' >= nextInc
      BY <1>2, <2>1
    <3>5. HandlerMove(m)
      BY <2>2, <2>3, <3>2, <3>3, <3>4 DEF HandlerMove
    <3> QED BY <3>5
  <2>4. CASE /\ Matches(m)
             /\ (e.exit = "none" /\ sess' = [sess EXCEPT ![m.uid] = Consumed(e)])
                \/ sess' = [sess EXCEPT ![m.uid] = e]
             /\ \/ Push(<<Reply(m, m.inc, TRUE), ExitEvent(m.uid)>>)
                \/ Push(<<Reply(m, m.inc, TRUE)>>)
    <3>1. PICK f, g : f = Reply(m, m.inc, TRUE) /\ g = ExitEvent(m.uid)
      OBVIOUS
    <3>2. f \in Frame /\ g \in Frame /\ g.verb = "exit_event"
      BY <1>2, <2>2, <3>1, ExitEventType DEF ExitEvent
    <3>3. /\ f.verb = m.verb /\ f.uid = m.uid /\ f.from = m.from /\ f.ok
          /\ chan = "open" => Telling' = Telling \cup {f} \/ Telling' = Telling \cup {f, g}
      BY <1>2, <1>3, <2>4, <3>1, <3>2, PushSet
    <3>4. /\ sess[m.uid] \in Entry /\ sess[m.uid].inc = m.inc /\ m.inc # 0
          /\ sess'[m.uid] = e \/ (sess'[m.uid] = Consumed(e) /\ e.exit = "none")
          /\ \A v \in Uid : v # m.uid => sess'[v] = sess[v]
      BY <1>2, <2>2, <2>4 DEF Matches, Held
    <3>5. /\ e.inc = m.inc /\ e.armed /\ e.exit = sess[m.uid].exit
          /\ Consumed(e).inc = m.inc /\ Consumed(e).armed /\ Consumed(e).exit = "pending"
      BY <3>4 DEF Entry, Consumed
    <3> HIDE DEF e
    <3>6. /\ sess'[m.uid].inc = m.inc /\ sess'[m.uid].armed
          /\ sess'[m.uid].exit = "acked" <=> sess[m.uid].exit = "acked"
          /\ sess'[m.uid].exit = "none" => sess[m.uid].exit = "none"
      BY <3>4, <3>5
    <3>7. nextInc' >= nextInc
      BY <1>2, <2>1
    <3>8. chan = "open" =>
            /\ Telling \subseteq Telling'
            /\ \A h \in Telling' : h \in Telling \/ h = f \/ h = g
      BY <3>3
    <3>9. HandlerMove(m)
      BY <2>2, <3>2, <3>3, <3>4, <3>6, <3>7, <3>8 DEF HandlerMove
    <3> QED BY <3>9
  <2> QED BY <2>1, <2>3, <2>4
<1>8. CASE HandleAbortSpawn \/ HandleForget
  <2>1. /\ Dispatch("abort_spawn") \/ Dispatch("forget")
        /\ UNCHANGED nextInc
        /\ \/ /\ UNCHANGED sess /\ Push(<<Reply(m, 0, FALSE)>>)
              /\ Dispatch("abort_spawn") => ~Matches(m)
           \/ /\ Matches(m) /\ sess' = [sess EXCEPT ![m.uid] = NoEntry]
              /\ Push(<<Reply(m, m.inc, TRUE)>>)
              /\ Dispatch("forget") => sess[m.uid].exit = "acked"
    BY <1>1, <1>8 DEF HandleAbortSpawn, HandleForget, Refuse, Forgettable, Dispatch
  <2>2. /\ m \in Asking /\ m \in Request /\ m.verb \in {"abort_spawn", "forget"}
        /\ m.uid \in Uid /\ m.inc \in 0..MaxInc
        /\ Asking' \subseteq Asking /\ \A n \in Asking : n \in Asking' \/ n = m
        /\ \A i \in 0..MaxInc, b \in BOOLEAN : Reply(m, i, b) \in Frame
    BY <1>1, <2>1, DispatchSet
  <2>3. /\ m.verb = "abort_spawn" => Dispatch("abort_spawn")
        /\ m.verb = "forget" => Dispatch("forget")
    BY <1>1, <2>1 DEF Dispatch
  <2>4. nextInc' >= nextInc
    BY <1>2, <2>1
  <2>5. CASE /\ UNCHANGED sess /\ Push(<<Reply(m, 0, FALSE)>>)
             /\ Dispatch("abort_spawn") => ~Matches(m)
    <3>1. PICK f : f = Reply(m, 0, FALSE)
      OBVIOUS
    <3>2. /\ f.verb = m.verb /\ f.uid = m.uid /\ f.from = m.from
          /\ chan = "open" => Telling' = Telling \cup {f}
      BY <1>2, <1>3, <1>4, <2>2, <2>5, <3>1
    <3>3. m.verb = "abort_spawn" => sess[m.uid].inc # m.inc \/ sess[m.uid].inc = 0
      BY <2>3, <2>5 DEF Matches, Held
    <3>4. HandlerMove(m)
      BY <2>2, <2>4, <2>5, <3>2, <3>3 DEF HandlerMove
    <3> QED BY <3>4
  <2>6. CASE /\ Matches(m) /\ sess' = [sess EXCEPT ![m.uid] = NoEntry]
             /\ Push(<<Reply(m, m.inc, TRUE)>>)
             /\ Dispatch("forget") => sess[m.uid].exit = "acked"
    <3>1. PICK f : f = Reply(m, m.inc, TRUE)
      OBVIOUS
    <3>2. /\ f.verb = m.verb /\ f.uid = m.uid /\ f.from = m.from
          /\ chan = "open" => Telling' = Telling \cup {f}
      BY <1>2, <1>3, <1>4, <2>2, <2>6, <3>1
    <3>3. /\ sess[m.uid].inc = m.inc /\ sess[m.uid].inc # 0
          /\ sess'[m.uid].inc = 0 /\ ~sess'[m.uid].armed /\ sess'[m.uid].exit = "none"
          /\ m.verb = "forget" => sess[m.uid].exit = "acked"
          /\ \A v \in Uid : v # m.uid => sess'[v] = sess[v]
      BY <1>2, <2>2, <2>3, <2>6 DEF Matches, Held, NoEntry
    <3>4. HandlerMove(m)
      BY <2>2, <2>4, <3>2, <3>3 DEF HandlerMove
    <3> QED BY <3>4
  <2> QED BY <2>1, <2>5, <2>6
<1>9. CASE HandleAckExit
  <2>1. /\ Dispatch("ack_exit") /\ UNCHANGED nextInc
        /\ Push(<<Reply(m, m.inc, TRUE)>>)
        /\ \/ UNCHANGED sess
           \/ /\ Matches(m) /\ sess[m.uid].exit = "pending"
              /\ sess' = [sess EXCEPT ![m.uid].exit = "acked"]
    BY <1>1, <1>9 DEF HandleAckExit, Ackable
  <2>2. /\ m \in Asking /\ m \in Request /\ m.verb = "ack_exit"
        /\ m.uid \in Uid /\ m.inc \in 0..MaxInc
        /\ Asking' \subseteq Asking /\ \A n \in Asking : n \in Asking' \/ n = m
        /\ \A i \in 0..MaxInc, b \in BOOLEAN : Reply(m, i, b) \in Frame
    BY <1>1, <2>1, DispatchSet
  <2>3. PICK f : f = Reply(m, m.inc, TRUE)
    OBVIOUS
  <2>4. /\ f.verb = m.verb /\ f.uid = m.uid /\ f.from = m.from
        /\ chan = "open" => Telling' = Telling \cup {f}
    BY <1>2, <1>3, <1>4, <2>1, <2>2, <2>3
  <2>5. nextInc' >= nextInc
    BY <1>2, <2>1
  <2>6. CASE UNCHANGED sess
    <3>1. HandlerMove(m)
      BY <2>2, <2>4, <2>5, <2>6 DEF HandlerMove
    <3> QED BY <3>1
  <2>7. CASE /\ Matches(m) /\ sess[m.uid].exit = "pending"
             /\ sess' = [sess EXCEPT ![m.uid].exit = "acked"]
    <3>1. /\ sess[m.uid].inc = m.inc /\ sess[m.uid].inc # 0
          /\ sess'[m.uid].inc = sess[m.uid].inc /\ sess'[m.uid].armed = sess[m.uid].armed
          /\ sess[m.uid].exit = "pending" /\ sess'[m.uid].exit = "acked"
          /\ \A v \in Uid : v # m.uid => sess'[v] = sess[v]
      BY <1>2, <2>2, <2>7 DEF Matches, Held, Entry
    <3>2. HandlerMove(m)
      BY <2>2, <2>4, <2>5, <3>1 DEF HandlerMove
    <3> QED BY <3>2
  <2> QED BY <2>1, <2>6, <2>7
<1> QED BY <1>5, <1>6, <1>7, <1>8, <1>9 DEF HolderStep

\* Whatever handler runs, what the files and the requests in flight say stays
\* true: an abort kills nothing that is promised or recorded, an ack marks what
\* is on disk, a forget drops what is settled.
LEMMA ServeDisk ==
  ASSUME BrainInv, OnDisk, NEW m, HandlerMove(m), UNCHANGED <<tombFile, regFile>>, nextInc' \in Nat
  PROVE  OnDisk'
<1>0. AbortsSafe /\ AcksSafe /\ Recorded /\ Unpromised
  BY DEF OnDisk
<1>1. PICK u : u = m.uid
  OBVIOUS
<1>2. /\ u \in Uid /\ m \in Asking /\ Asking' \subseteq Asking
      /\ \A v \in Uid : v # u => sess'[v] = sess[v]
      /\ nextInc \in Nat /\ nextInc' >= nextInc /\ nextInc' \in Nat
      /\ \A n \in Asking : n.uid \in Uid
  BY <1>0, <1>1, TableFacts DEF HandlerMove, Request
<1>3. /\ tombFile[u].inc \in Nat /\ (tombFile[u].inc # 0 => tombFile[u].inc < nextInc)
      /\ sess[u].inc \in Nat
  BY <1>2, TombFacts, TableFacts
<1>4. \/ sess'[u] = sess[u]
      \/ /\ sess[u].inc = 0 /\ sess'[u].inc = nextInc /\ nextInc \in Inc
         /\ ~sess'[u].armed /\ sess'[u].exit = "none"
      \/ /\ m.verb = "arm_reap"
         /\ sess[u].inc = m.inc /\ m.inc # 0 /\ sess'[u].inc = m.inc
         /\ sess'[u].exit = "acked" <=> sess[u].exit = "acked"
      \/ /\ m.verb \in {"abort_spawn", "forget"}
         /\ sess[u].inc = m.inc /\ sess'[u].inc = 0 /\ ~sess'[u].armed /\ sess'[u].exit = "none"
         /\ m.verb = "forget" => sess[u].exit = "acked"
      \/ /\ m.verb = "ack_exit"
         /\ sess[u].inc = m.inc /\ m.inc # 0 /\ sess'[u].inc = m.inc /\ sess'[u].armed = sess[u].armed
  BY <1>1 DEF HandlerMove
<1>5. 0 \notin Inc
  BY TableFacts
<1>6. ASSUME NEW n \in Asking', n.verb = "abort_spawn"
      PROVE  /\ n.inc \in Inc /\ n.inc < nextInc'
             /\ sess'[n.uid].inc = n.inc =>
                  ~sess'[n.uid].armed /\ (n.uid \notin regFile \/ tombFile[n.uid].inc = 0)
  <2>1. PICK v \in Uid : v = n.uid
    BY <1>2
  <2>2. /\ n.inc \in Inc /\ n.inc < nextInc /\ n.inc \in Nat
        /\ sess[v].inc = n.inc => ~sess[v].armed /\ (v \notin regFile \/ tombFile[v].inc = 0)
        /\ m.verb = "arm_reap" => n.inc # m.inc
    BY <1>0, <1>2, <1>6, <2>1, TableFacts DEF AbortsSafe
  <2>3. n.inc < nextInc'
    BY <1>2, <2>2, TableFacts
  <2>4. CASE v # u
    BY <1>2, <2>1, <2>2, <2>3, <2>4
  <2>5. CASE v = u
    BY <1>2, <1>4, <1>5, <2>1, <2>2, <2>3, <2>5
  <2> QED BY <2>4, <2>5
<1>7. \A n, p \in Asking' : n.verb = "abort_spawn" /\ p.verb = "arm_reap" => n.inc # p.inc
  BY <1>0, <1>2 DEF AbortsSafe
<1>8. ASSUME NEW n \in Asking', n.verb = "ack_exit"
      PROVE  /\ n.inc \in Inc /\ n.inc < nextInc'
             /\ sess'[n.uid].inc = n.inc => tombFile[n.uid].inc = n.inc /\ n.uid \notin regFile
  <2>1. PICK v \in Uid : v = n.uid
    BY <1>2
  <2>2. /\ n.inc \in Inc /\ n.inc < nextInc /\ n.inc \in Nat
        /\ sess[v].inc = n.inc => tombFile[v].inc = n.inc /\ v \notin regFile
    BY <1>0, <1>2, <1>8, <2>1, TableFacts DEF AcksSafe
  <2>3. n.inc < nextInc'
    BY <1>2, <2>2
  <2>4. CASE v # u
    BY <1>2, <2>1, <2>2, <2>3, <2>4
  <2>5. CASE v = u
    BY <1>2, <1>4, <1>5, <2>1, <2>2, <2>3, <2>5
  <2> QED BY <2>4, <2>5
<1>9. ASSUME NEW v \in Uid
      PROVE  /\ sess'[v].exit = "acked" => tombFile[v].inc = sess'[v].inc
             /\ v \in regFile /\ tombFile[v].inc # 0 => sess'[v].inc # 0 /\ sess'[v].exit # "acked"
             /\ sess'[v].inc # 0 => tombFile[v].inc <= sess'[v].inc
             /\ sess'[v].inc = 0 => ~sess'[v].armed
  <2>1. /\ sess[v].exit = "acked" => tombFile[v].inc = sess[v].inc
        /\ v \in regFile /\ tombFile[v].inc # 0 => sess[v].inc # 0 /\ sess[v].exit # "acked"
        /\ sess[v].inc # 0 => tombFile[v].inc <= sess[v].inc
        /\ sess[v].inc = 0 => ~sess[v].armed
    BY <1>0 DEF Recorded, Unpromised
  <2>2. /\ m.verb = "ack_exit" /\ sess[u].inc = m.inc => tombFile[u].inc = m.inc /\ u \notin regFile
        /\ m.verb = "abort_spawn" /\ sess[u].inc = m.inc => u \notin regFile \/ tombFile[u].inc = 0
    BY <1>0, <1>1, <1>2 DEF AbortsSafe, AcksSafe
  <2>3. CASE v # u
    BY <1>2, <2>1, <2>3
  <2>4. CASE v = u
    BY <1>2, <1>3, <1>4, <1>5, <2>1, <2>2, <2>4
  <2> QED BY <2>3, <2>4
<1> QED BY <1>6, <1>7, <1>8, <1>9 DEF OnDisk, AbortsSafe, AcksSafe, Recorded, Unpromised

\* While the brain lives it keeps in touch: a listed or claimed session is named
\* by no abort, no ack and no forget, and it is told of every child it asked for.
LEMMA ServeTouch ==
  ASSUME CustodyKept, chan = "open", NEW m, HandlerMove(m), UNCHANGED <<brainVars, chan>>
  PROVE  InTouch'
<1>0. /\ BrainInv /\ InTouch /\ Trust /\ Listed /\ ClaimsHeld /\ Phases /\ AbortsQuiet /\ MemAhead
      /\ AfterExit /\ Known /\ AbortsSafe /\ Recorded
  BY DEF CustodyKept, InTouch, OnDisk
<1>1. PICK u, i : u = m.uid /\ i = m.inc
  OBVIOUS
<1>2. /\ u \in Uid /\ m \in Asking /\ Asking' \subseteq Asking /\ Telling \subseteq Telling'
      /\ \A n \in Asking : n \in Asking' \/ n = m
      /\ \A v \in Uid : v # u => sess'[v] = sess[v]
      /\ nextInc \in Nat
      /\ UNCHANGED <<phase, op, reg, obs, todo, backlog, memTomb, tombFile, regFile>>
  BY <1>0, <1>1, TableFacts DEF HandlerMove, Request, brainVars
<1>3. /\ 0 \notin Inc /\ sess[u].inc \in Nat /\ memTomb[u].inc \in Nat /\ tombFile[u].inc \in Nat
      /\ sess[u].exit # "none" => sess[u].armed
      /\ sess[u].inc # 0 => sess[u].inc \in Inc
      /\ sess[u].inc # 0 /\ child[sess[u].inc] = "reaped" => sess[u].exit # "none"
      /\ memTomb[u].inc # 0 => child[memTomb[u].inc] = "reaped"
  BY <1>0, <1>2, TombFacts, TableFacts
<1>4. \/ /\ sess'[u] = sess[u]
         /\ m.verb = "abort_spawn" => sess[u].inc # i \/ sess[u].inc = 0
      \/ /\ m.verb = "spawn"
         /\ sess[u].inc = 0 /\ sess'[u].inc = nextInc /\ nextInc \in Inc
         /\ ~sess'[u].armed /\ sess'[u].exit = "none"
         /\ \E f \in Telling' : f.verb = "spawn" /\ f.from = m.from /\ f.ok /\ f.uid = u
      \/ /\ m.verb = "arm_reap"
         /\ sess[u].inc = i /\ i # 0 /\ sess'[u].inc = i
         /\ sess'[u].exit = "acked" <=> sess[u].exit = "acked"
         /\ sess'[u].exit = "none" => sess[u].exit = "none"
      \/ /\ m.verb \in {"abort_spawn", "forget"}
         /\ sess[u].inc = i /\ i # 0 /\ sess'[u].inc = 0 /\ ~sess'[u].armed /\ sess'[u].exit = "none"
         /\ m.verb = "forget" => sess[u].exit = "acked"
      \/ /\ m.verb = "ack_exit"
         /\ sess[u].inc = i /\ i # 0 /\ sess'[u].inc = i /\ sess'[u].armed = sess[u].armed
         /\ sess[u].exit = "pending" /\ sess'[u].exit = "acked"
  BY <1>1 DEF HandlerMove
<1>5. \A f \in Telling' : f \notin Telling =>
        \/ f.verb = "exit_event"
        \/ /\ f.verb = m.verb /\ f.uid = u /\ f.from = m.from
           /\ f.verb = "spawn" /\ f.ok => sess'[f.uid].inc = f.inc /\ ~sess'[f.uid].armed
           /\ f.verb = "arm_reap" /\ ~f.ok => sess[u].inc # i \/ i = 0
  BY <1>1 DEF HandlerMove
<1>6. /\ m.verb = "abort_spawn" => i \in Inc /\ \A v \in Uid : reg[v] # i
      /\ m.verb = "abort_spawn" /\ sess[u].inc = i => ~sess[u].armed
      /\ m.verb = "arm_reap" => i \in Inc /\ obs[i].pc = "waiting" /\ reg[u] = i
      /\ m.verb = "ack_exit" => i \in Inc /\ obs[i].pc \in {"acking", "done"}
      /\ m.verb = "forget" => todo[u].inc # i
      /\ m.verb = "spawn" => m.from \in Caller
  BY <1>0, <1>1, <1>2, AbortsArms DEF Trust, Listed, ClaimsHeld, AbortsSafe
\* A session that is free or watched is touched by an arm_reap at most.
<1>7. ASSUME sess[u].inc # 0, \/ Free(sess[u].inc) /\ (~sess[u].armed \/ todo[u].inc = sess[u].inc)
                              \/ reg[u] = sess[u].inc
      PROVE  \/ sess'[u] = sess[u]
             \/ /\ m.verb = "arm_reap" /\ reg[u] = sess[u].inc
                /\ sess'[u].inc = sess[u].inc
                /\ sess'[u].exit = "acked" <=> sess[u].exit = "acked"
  <2>1. CASE reg[u] = sess[u].inc
    <3>1. sess[u].exit # "acked" /\ obs[sess[u].inc].pc \in {"waiting", "got"}
      BY <1>0, <1>2, <1>7, <2>1, ListedLives
    <3> QED BY <1>2, <1>4, <1>6, <1>7, <2>1, <3>1
  <2>2. CASE Free(sess[u].inc) /\ (~sess[u].armed \/ todo[u].inc = sess[u].inc)
    <3>1. /\ obs[sess[u].inc].pc = "none"
          /\ m.verb = "abort_spawn" => i # sess[u].inc
      BY <1>1, <1>2, <2>2 DEF Free
    <3> QED BY <1>3, <1>4, <1>6, <1>7, <2>2, <3>1
  <2> QED BY <1>7, <2>1, <2>2
<1>8. Trust'
  <2>1. ASSUME NEW f \in Telling', f.verb = "arm_reap", f.from \in Caller
        PROVE  f.ok
    <3>1. CASE f \in Telling
      BY <1>0, <2>1, <3>1 DEF Trust
    <3>2. CASE f \notin Telling
      <4>1. m.verb = "arm_reap" /\ (~f.ok => sess[u].inc # i \/ i = 0)
        BY <1>5, <2>1, <3>2
      <4>2. sess[u].inc = i /\ i # 0
        BY <1>0, <1>2, <1>3, <1>6, <4>1, ListedLives
      <4> QED BY <4>1, <4>2
    <3> QED BY <3>1, <3>2
  <2> QED BY <1>0, <1>2, <2>1 DEF Trust
<1>9. Listed'
  <2>1. ASSUME NEW v \in Uid, reg[v] # 0
        PROVE  /\ sess'[v].inc = reg[v] /\ sess'[v].exit # "acked"
               /\ obs[reg[v]].pc \in {"waiting", "got"}
    <3>1. sess[v].inc = reg[v] /\ sess[v].exit # "acked" /\ obs[reg[v]].pc \in {"waiting", "got"}
      BY <1>0, <2>1, ListedLives
    <3> QED BY <1>2, <1>7, <2>1, <3>1
  <2> QED BY <1>0, <1>2, <2>1 DEF Listed
<1>10. ASSUME NEW v \in Uid, sess[v].inc # 0, Free(sess[v].inc), ~sess[v].armed \/ todo[v].inc = sess[v].inc
       PROVE  sess'[v] = sess[v]
  <2>1. CASE v # u
    BY <1>2, <2>1
  <2>2. CASE v = u
    <3>1. reg[u] # sess[u].inc
      BY <1>0, <1>2, <1>10, <2>2, ListedLives DEF Free
    <3> QED BY <1>7, <1>10, <2>2, <3>1
  <2> QED BY <2>1, <2>2
<1>11. ClaimsHeld'
  <2>1. ASSUME NEW f \in Telling', Claim(f)
        PROVE  sess'[f.uid].inc = f.inc /\ ~sess'[f.uid].armed
    <3>1. CASE f \in Telling
      <4>1. PICK v : v = f.uid
        OBVIOUS
      <4>2. v \in Uid /\ Free(f.inc) /\ sess[v].inc = f.inc /\ ~sess[v].armed /\ f.inc # 0
        BY <1>0, <2>1, <3>1, <4>1, ClaimsFree, TableFacts DEF ClaimsHeld, Frame, Free
      <4>3. sess'[v] = sess[v]
        BY <1>10, <4>2
      <4> QED BY <4>1, <4>2, <4>3
    <3>2. CASE f \notin Telling
      BY <1>5, <2>1, <3>2 DEF Claim
    <3> QED BY <3>1, <3>2
  <2>2. ASSUME NEW c \in Caller, op[c].pc = "spawned"
        PROVE  sess'[op[c].uid].inc = op[c].inc /\ ~sess'[op[c].uid].armed
    <3>1. PICK v, j : v = op[c].uid /\ j = op[c].inc
      OBVIOUS
    <3>2. v \in Uid /\ Free(j) /\ sess[v].inc = j /\ ~sess[v].armed /\ j # 0
      BY <1>0, <2>2, <3>1, ClaimsFree, TableFacts, BrainTypes DEF ClaimsHeld, Free
    <3>3. sess'[v] = sess[v]
      BY <1>10, <3>2
    <3> QED BY <3>1, <3>2, <3>3
  <2>3. ASSUME NEW v \in Uid, todo[v].inc # 0
        PROVE  sess'[v].inc = todo[v].inc /\ (todo[v].settled <=> sess'[v].exit = "acked")
    <3>1. Free(todo[v].inc) /\ sess[v].inc = todo[v].inc /\ (todo[v].settled <=> sess[v].exit = "acked")
      BY <1>0, <2>3, ClaimsFree DEF ClaimsHeld
    <3>2. sess'[v] = sess[v]
      BY <1>10, <2>3, <3>1
    <3> QED BY <3>1, <3>2
  <2>4. \A n \in Asking' : n.verb = "forget" => n.inc # 0 /\ todo[n.uid].inc # n.inc
    BY <1>0, <1>2 DEF ClaimsHeld
  <2> QED BY <1>2, <2>1, <2>2, <2>3, <2>4 DEF ClaimsHeld
<1>12. Phases' /\ AbortsQuiet'
  BY <1>0, <1>2 DEF Phases, AbortsQuiet
<1>13. MemAhead'
  <2>1. ASSUME NEW v \in Uid, memTomb[v].inc # tombFile[v].inc
        PROVE  memTomb[v].inc = sess'[v].inc
    <3>1. memTomb[v].inc = sess[v].inc /\ tombFile[v].inc <= memTomb[v].inc
      BY <1>0, <2>1 DEF MemAhead
    <3>2. CASE v = u
      <4>1. memTomb[u].inc # 0
        BY <1>3, <2>1, <3>1, <3>2
      <4>2. sess[u].exit # "none" /\ sess[u].armed
        BY <1>3, <3>1, <3>2, <4>1
      <4>3. sess[u].exit # "acked"
        BY <1>0, <2>1, <3>1, <3>2 DEF Recorded
      <4> QED BY <1>4, <1>6, <3>1, <3>2, <4>1, <4>2, <4>3
    <3> QED BY <1>2, <3>1, <3>2
  <2> QED BY <1>0, <1>2, <2>1 DEF MemAhead
<1>14. AfterExit'
  <2>1. ASSUME NEW j \in Inc, obs[j].pc \in {"exited", "acking", "done"}, sess'[obs[j].uid].inc = j
        PROVE  sess[obs[j].uid].inc = j
    <3>1. PICK v : v = obs[j].uid
      OBVIOUS
    <3>2. v \in Uid /\ j < nextInc /\ j # 0 /\ j \in Nat
      BY <1>0, <2>1, <3>1, Watched, TableFacts
    <3> QED BY <1>2, <1>4, <2>1, <3>1, <3>2
  <2> QED BY <1>0, <1>2, <2>1 DEF AfterExit
<1>15. Known'
  <2>1. ASSUME NEW v \in Uid, sess'[v].inc # 0, sess'[v].exit = "none"
        PROVE  \/ phase = "booting"
               \/ reg[v] # 0
               \/ todo[v].inc # 0
               \/ \E c \in Caller : op[c].pc = "spawned" /\ op[c].uid = v
               \/ \E f \in Telling' : Claim(f) /\ f.uid = v
               \/ \E n \in Asking' : n.verb = "abort_spawn" /\ n.uid = v /\ n.inc = sess'[v].inc
    <3>1. CASE v = u /\ m.verb = "spawn" /\ sess[u].inc = 0
      BY <1>3, <1>4, <1>6, <2>1, <3>1 DEF Claim
    <3>2. CASE sess'[v].inc = sess[v].inc /\ sess[v].exit = "none"
      <4>1. ASSUME NEW n \in Asking, n.verb = "abort_spawn", n.uid = v, n.inc = sess[v].inc
            PROVE  n \in Asking'
        BY <1>1, <1>2, <1>4, <2>1, <3>2, <4>1
      <4> QED BY <1>0, <1>2, <2>1, <3>2, <4>1 DEF Known
    <3>3. v = u \/ sess'[v] = sess[v]
      BY <1>2
    <3> QED BY <1>3, <1>4, <2>1, <3>1, <3>2, <3>3
  <2> QED BY <1>2, <2>1 DEF Known
<1> QED BY <1>8, <1>9, <1>11, <1>12, <1>13, <1>14, <1>15 DEF InTouch


-----------------------------------------------------------------------------
(* Steps nobody asked for.                                                 *)

\* A child exits or the poll loop sees it: no session is gained, lost, promised
\* or settled, and all the brain may hear of it is an exit event.
LoopMove ==
  /\ UNCHANGED <<brainVars, nextInc, toHolder, chan>>
  /\ \A v \in Uid : /\ sess'[v].inc = sess[v].inc /\ sess'[v].armed = sess[v].armed
                    /\ sess'[v].exit = "acked" <=> sess[v].exit = "acked"
                    /\ sess'[v].exit = "none" => sess[v].exit = "none"
  /\ chan = "open" => /\ Telling \subseteq Telling'
                      /\ \A f \in Telling' : f \in Telling \/ f.verb = "exit_event"

\* The poll loop and the kernel make such moves.
LEMMA LoopMoves ==
  ASSUME BrainInv, (\E u \in Uid : SeeExitStep(u)) \/ (\E i \in Inc : ExitStep(i))
  PROVE  LoopMove
<1>0. TypeOK /\ sess \in [Uid -> Entry]
  BY TableFacts DEF BrainInv, TypeInv
<1>1. CASE \E i \in Inc : ExitStep(i)
  BY <1>1 DEF ExitStep, ChildExits, LoopMove, Telling
<1>2. ASSUME NEW u \in Uid, SeeExitStep(u)
      PROVE  LoopMove
  <2>1. /\ sess[u].exit = "none"
        /\ UNCHANGED <<brainVars, nextInc, toHolder, chan>>
        /\ \/ sess' = [sess EXCEPT ![u] = Consumed(sess[u])]
           \/ sess' = [sess EXCEPT ![u].latched = TRUE]
        /\ Push(<<ExitEvent(u)>>) \/ UNCHANGED toBrain
    BY <1>2 DEF SeeExitStep, SeeExit
  <2>2. sess[u] \in Entry
    BY <1>0
  <2>3. \A v \in Uid : v # u => sess'[v] = sess[v]
    BY <1>0, <2>1
  <2>4. /\ sess'[u].inc = sess[u].inc /\ sess'[u].armed = sess[u].armed
        /\ sess'[u].exit # "acked"
    BY <1>0, <2>1, <2>2 DEF Consumed, Entry
  <2>5. ExitEvent(u) \in Frame /\ ExitEvent(u).verb = "exit_event"
    BY <2>2 DEF ExitEvent, Frame, Entry
  <2>6. chan = "open" => Telling' = Telling \cup {ExitEvent(u)} \/ Telling' = Telling
    BY <1>0, <2>1, <2>5, PushSet DEF Telling
  <2> QED BY <2>1, <2>3, <2>4, <2>5, <2>6 DEF LoopMove
<1> QED BY <1>1, <1>2

\* They leave what the files and the requests say as it is, ...
LEMMA LoopDisk ==
  ASSUME BrainInv, OnDisk, LoopMove
  PROVE  OnDisk'
<1>0. /\ AbortsSafe /\ AcksSafe /\ Recorded /\ Unpromised
      /\ UNCHANGED <<tombFile, regFile, nextInc>> /\ Asking' = Asking
      /\ \A n \in Asking : n.uid \in Uid
  BY TableFacts DEF OnDisk, LoopMove, Asking, brainVars, Request
<1>1. AbortsSafe' /\ AcksSafe'
  BY <1>0 DEF AbortsSafe, AcksSafe, LoopMove
<1>2. Recorded' /\ Unpromised'
  BY <1>0 DEF Recorded, Unpromised, LoopMove
<1> QED BY <1>1, <1>2 DEF OnDisk

\* ... and what the brain knows.
LEMMA LoopTouch ==
  ASSUME CustodyKept, chan = "open", LoopMove
  PROVE  InTouch'
<1>0. /\ BrainInv /\ InTouch /\ Trust /\ Listed /\ ClaimsHeld /\ Phases /\ AbortsQuiet /\ MemAhead
      /\ AfterExit /\ Known
      /\ UNCHANGED <<phase, op, reg, obs, todo, backlog, memTomb, tombFile, regFile, nextInc>>
      /\ Asking' = Asking /\ Telling \subseteq Telling'
      /\ \A f \in Telling' : f \in Telling \/ f.verb = "exit_event"
  BY DEF CustodyKept, InTouch, LoopMove, Asking, brainVars
<1>1. Trust'
  BY <1>0 DEF Trust
<1>2. Listed'
  BY <1>0 DEF Listed, LoopMove
<1>3. ClaimsHeld'
  <2>1. ASSUME NEW f \in Telling', Claim(f)
        PROVE  sess'[f.uid].inc = f.inc /\ ~sess'[f.uid].armed
    <3>1. f \in Telling /\ f.uid \in Uid
      BY <1>0, <2>1, TableFacts DEF Claim, Frame
    <3> QED BY <1>0, <2>1, <3>1 DEF ClaimsHeld, LoopMove
  <2>2. ASSUME NEW c \in Caller, op[c].pc = "spawned"
        PROVE  sess'[op[c].uid].inc = op[c].inc /\ ~sess'[op[c].uid].armed
    BY <1>0, <2>2, BrainTypes DEF ClaimsHeld, LoopMove
  <2> QED BY <1>0, <2>1, <2>2 DEF ClaimsHeld, LoopMove
<1>4. Phases' /\ AbortsQuiet'
  BY <1>0 DEF Phases, AbortsQuiet
<1>5. MemAhead'
  BY <1>0 DEF MemAhead, LoopMove
<1>6. AfterExit'
  <2>1. \A i \in Inc : obs[i].pc # "none" => obs[i].uid \in Uid
    BY <1>0, Watched
  <2> QED BY <1>0, <2>1 DEF AfterExit, LoopMove
<1>7. Known'
  <2>1. ASSUME NEW v \in Uid, sess'[v].inc # 0, sess'[v].exit = "none"
        PROVE  sess[v].inc # 0 /\ sess[v].exit = "none" /\ sess'[v].inc = sess[v].inc
    BY <2>1 DEF LoopMove
  <2> QED BY <1>0, <2>1 DEF Known
<1> QED BY <1>1, <1>2, <1>3, <1>4, <1>5, <1>6, <1>7 DEF InTouch

\* A generation ends: the files and the holder's table stay, what was asked is
\* read or lost.
LEMMA EndDisk ==
  ASSUME OnDisk, UNCHANGED <<sess, nextInc, tombFile, regFile>>, Asking' \subseteq Asking
  PROVE  OnDisk'
  BY DEF OnDisk, AbortsSafe, AcksSafe, Recorded, Unpromised

\* The next one starts from the files, and knows that it has yet to look.
LEMMA UpKeeps ==
  ASSUME CustodyKept, BrainUp
  PROVE  OnDisk' /\ InTouch'
<1>0. /\ BrainInv /\ OnDisk /\ Recorded /\ sess \in [Uid -> Entry]
      /\ Pristine /\ toHolder = <<>> /\ toBrain = <<>>
  BY TableFacts DEF CustodyKept, OnDisk, BrainInv, EventInv, CustodyInv, Gone, BrainUp, Serve, OnlyOpenTalks
<1>1. /\ UNCHANGED <<op, reg, obs, todo, backlog, tombFile, regFile, nextInc>>
      /\ phase' = "booting" /\ memTomb' = tombFile
      /\ toHolder' = <<>> /\ toBrain' = <<>>
      /\ sess' = [u \in Uid |-> Unready(sess[u])]
  BY <1>0 DEF BrainUp, Serve
<1>2. Elements(<<>>) = {}
  <2>1. 1..Len(<<>>) = {}
    OBVIOUS
  <2> QED BY <2>1 DEF Elements
<1>3. Asking' = {} /\ Telling' = {} /\ Asking = {}
  BY <1>0, <1>1, <1>2 DEF Asking, Telling
<1>4. \A u \in Uid : /\ sess'[u].inc = sess[u].inc /\ sess'[u].armed = sess[u].armed
                     /\ sess'[u].exit = sess[u].exit
  BY <1>0, <1>1 DEF Unready, Entry
<1>5. OnDisk'
  BY <1>0, <1>1, <1>3, <1>4 DEF OnDisk, AbortsSafe, AcksSafe, Recorded, Unpromised
<1>6. /\ \A c \in Caller : op'[c].pc = "idle"
      /\ \A u \in Uid : reg'[u] = 0 /\ todo'[u].inc = 0
      /\ \A i \in Inc : obs'[i].pc = "none"
  BY <1>0, <1>1 DEF Pristine, Idle, Unwatched, NoRecord
<1>7. \A u \in Uid : tombFile[u].inc \in Nat
  BY <1>0, TombFacts
<1>8. Trust' /\ Listed' /\ ClaimsHeld' /\ Phases' /\ AbortsQuiet'
  BY <1>1, <1>3, <1>6 DEF Trust, Listed, ClaimsHeld, Phases, AbortsQuiet
<1>9. MemAhead' /\ AfterExit' /\ Known'
  BY <1>1, <1>3, <1>6, <1>7 DEF MemAhead, AfterExit, Known
<1> QED BY <1>5, <1>8, <1>9 DEF InTouch

-----------------------------------------------------------------------------
(* The invariant.                                                          *)

\* It holds at the start, whatever the registry file lists.
LEMMA KeptStart ==
  ASSUME BrainInit
  PROVE  CustodyKept
<1>1. BrainInv
  BY BrainStart
<1>2. /\ toHolder = <<>> /\ chan # "open"
      /\ sess = [u \in Uid |-> NoEntry] /\ tombFile = [u \in Uid |-> NoTomb]
  BY DEF BrainInit, Init
<1>3. Asking = {}
  <2>1. 1..Len(<<>>) = {}
    OBVIOUS
  <2> QED BY <1>2, <2>1 DEF Asking, Elements
<1>4. \A u \in Uid : /\ sess[u].inc = 0 /\ sess[u].exit = "none" /\ ~sess[u].armed
                     /\ tombFile[u].inc = 0
  BY <1>2 DEF NoEntry, NoTomb
<1>5. OnDisk
  BY <1>3, <1>4 DEF OnDisk, AbortsSafe, AcksSafe, Recorded, Unpromised
<1> QED BY <1>1, <1>2, <1>5 DEF CustodyKept

\* With nothing failing but the two, neither timeouts nor the ways around a
\* failed adoption are taken, and no observer is missing.
LEMMA NotTaken ==
  ASSUME Reliable
  PROVE  /\ \A c \in Caller : ~OpTimeout(c)
         /\ \A i \in Inc : ~AckTimeout(i)
         /\ \A u \in Uid : ~AdoptSkip(u) /\ ~AdoptAbort(u)
         /\ ~StopAll
  BY DEF Reliable, OpTimeout, AckTimeout, AdoptSkip, AdoptAbort, StopAll

\* Every step of a living brain, or of the holder that listens to it.
LEMMA KeptOpen ==
  ASSUME Reliable, CustodyKept, chan = "open", OpenStep, nextInc' \in Nat
  PROVE  OnDisk' /\ InTouch'
<1>0. BrainInv /\ OnDisk /\ InTouch
  BY DEF CustodyKept
<1>1. CASE HolderStep
  <2>1. PICK m : HandlerMove(m)
    BY <1>0, <1>1, HandlerMoves
  <2>2. UNCHANGED <<brainVars, chan>>
    BY <1>1 DEF HolderStep, HandleSpawnOk, HandleSpawnErr, HandleSpawnTorn, HandleArmReap,
           HandleAbortSpawn, HandleAckExit, HandleForget, holderVars
  <2>3. UNCHANGED <<tombFile, regFile>>
    BY <2>2 DEF brainVars
  <2> QED BY <1>0, <2>1, <2>2, <2>3, ServeDisk, ServeTouch
<1>2. CASE (\E u \in Uid : SeeExitStep(u)) \/ (\E i \in Inc : ExitStep(i))
  BY <1>0, <1>2, LoopMoves, LoopDisk, LoopTouch
<1>3. ASSUME NEW i \in Inc, ObserverStep(i) \/ AckTimeout(i)
      PROVE  OnDisk' /\ InTouch'
  BY <1>3, NotTaken, OnExitKeeps, SettleKeeps, AckedKeeps DEF ObserverStep
<1>4. CASE BootStep
  <2>1. CASE FetchBoot
    BY <2>1, FetchKeeps
  <2>2. CASE AdoptDone
    BY <2>2, AdoptDoneKeeps
  <2>3. CASE RestoreDone \/ \E u \in Uid : RestoreSkip(u)
    BY <2>3, RestoreKeeps
  <2>4. ASSUME NEW u \in Uid, AdoptForget(u) \/ AdoptOne(u)
        PROVE  OnDisk' /\ InTouch'
    BY <2>4, AdoptForgetKeeps, AdoptOneKeeps
  <2> QED BY <1>4, <2>1, <2>2, <2>3, <2>4, NotTaken DEF BootStep
<1>5. CASE RouteExit \/ DropReply
  BY <1>5, RouteKeeps
<1>6. ASSUME NEW c \in Caller, CallerStep(c) \/ OpTimeout(c) \/ \E u \in Uid : StartOp(c, u)
      PROVE  OnDisk' /\ InTouch'
  <2>1. ~RemoveUnarmed(c)
    BY <1>0 DEF InTouch, Trust, RemoveUnarmed
  <2>2. CASE SpawnReply(c) \/ ArmReply(c)
    BY <2>2, ReplyKeepsTouch
  <2>3. CASE DropPending(c)
    BY <2>3, DropKeeps
  <2>4. CASE InsertAndArm(c)
    BY <2>4, InsertKeeps
  <2>5. ASSUME NEW u \in Uid, StartOp(c, u)
        PROVE  OnDisk' /\ InTouch'
    BY <2>5, StartKeeps
  <2> QED BY <1>6, <2>1, <2>2, <2>3, <2>4, <2>5, NotTaken DEF CallerStep
<1> QED BY <1>1, <1>2, <1>3, <1>4, <1>5, <1>6 DEF OpenStep

\* What the end of a brain does, and what the holder does until the next one.
LEMMA KeptDead ==
  ASSUME Reliable, BrainInv, OnDisk, chan = "open" => InTouch, BrainNext, ~(OpenStep /\ chan = "open"), ~BrainUp, nextInc' \in Nat
  PROVE  OnDisk'
<1>1. CASE HolderStep
  <2>1. PICK m : HandlerMove(m)
    BY <1>1, HandlerMoves
  <2>2. UNCHANGED <<tombFile, regFile>>
    BY <1>1 DEF HolderStep, brainVars
  <2> QED BY <2>1, <2>2, ServeDisk
<1>2. CASE (\E u \in Uid : SeeExitStep(u)) \/ (\E i \in Inc : ExitStep(i))
  BY <1>2, LoopMoves, LoopDisk
<1>3. Elements(<<>>) = {}
  <2>1. 1..Len(<<>>) = {}
    OBVIOUS
  <2> QED BY <2>1 DEF Elements
<1>4. CASE EofStep
  <2>1. UNCHANGED <<sess, nextInc, tombFile, regFile>> /\ toHolder' = <<>>
    BY <1>4 DEF EofStep, BrainEof, brainVars, BrainInv
  <2>2. Asking' = {}
    BY <1>3, <2>1 DEF Asking
  <2> QED BY <2>1, <2>2, EndDisk
<1>5. CASE BrainCrash
  <2>1. CASE UNCHANGED <<tombFile, regFile>>
    <3>1. /\ UNCHANGED <<sess, nextInc, tombFile, regFile>>
          /\ UNCHANGED toHolder \/ toHolder' = <<>>
      BY <1>5, <2>1 DEF BrainCrash, BrainDies, WatchdogKill
    <3>2. Asking' = Asking \/ Asking' = {}
      BY <1>3, <3>1 DEF Asking
    <3> QED BY <3>1, <3>2, EndDisk
  <2>2. CASE WatchdogKill /\ chan = "open" /\ phase # "booting" /\ PersistBeforeExit
    <3>1. UNCHANGED sess /\ toHolder' = <<>>
      BY <2>2 DEF WatchdogKill
    <3>2. Asking' = {}
      BY <1>3, <3>1 DEF Asking
    <3>3. regFile' = Live(reg) /\ tombFile' \in {tombFile, memTomb}
      BY <2>2 DEF PersistBeforeExit, Reliable
    <3>4. Listed /\ MemAhead
      BY <2>2 DEF InTouch
    <3>5. ASSUME NEW u \in Uid
          PROVE  /\ sess[u].exit = "acked" => tombFile'[u].inc = sess[u].inc
                 /\ u \in Live(reg) => sess[u].inc # 0 /\ sess[u].exit # "acked"
                 /\ sess[u].inc # 0 => tombFile'[u].inc <= sess[u].inc
      <4>1. /\ memTomb[u].inc # tombFile[u].inc => memTomb[u].inc = sess[u].inc
            /\ tombFile'[u] \in {tombFile[u], memTomb[u]}
        BY <3>3, <3>4 DEF MemAhead
      <4>2. sess[u].inc \in Nat
        BY TableAssumption DEF BrainInv, TypeInv, TypeOK, Entry
      <4>3. /\ sess[u].exit = "acked" => tombFile[u].inc = sess[u].inc
            /\ sess[u].inc # 0 => tombFile[u].inc <= sess[u].inc
        BY DEF OnDisk, Recorded
      <4>4. u \in Live(reg) => sess[u].inc # 0 /\ sess[u].exit # "acked"
        BY <3>4 DEF Listed, Live
      <4> QED BY <4>1, <4>2, <4>3, <4>4
    <3>6. Recorded'
      BY <3>1, <3>3, <3>5 DEF Recorded
    <3>7. Unpromised'
      BY <3>1 DEF OnDisk, Unpromised
    <3> QED BY <3>2, <3>6, <3>7 DEF OnDisk, AbortsSafe, AcksSafe
  <2> QED BY <1>5, <2>1, <2>2 DEF BrainCrash
<1>6. chan = "open" \/ HolderStep \/ (\E u \in Uid : SeeExitStep(u)) \/ (\E i \in Inc : ExitStep(i))
        \/ EofStep \/ BrainUp \/ BrainCrash \/ StopAll
  BY DEF BrainNext, ObserverStep, OnExit, Settle, Acked, AckTimeout,
         BootStep, FetchBoot, AdoptDone, RestoreDone, AdoptForget, AdoptSkip, AdoptAbort,
         AdoptOne, RestoreSkip, Reconcile, Alive, RouteExit, DropReply, ReplyTo, CallerStep, SpawnReply,
         DropPending, InsertAndArm, ArmReply, RemoveUnarmed, OpTimeout, StartOp
<1>7. chan = "open" => EofStep \/ BrainUp \/ BrainCrash \/ StopAll
  BY DEF BrainNext, OpenStep
<1> QED BY <1>1, <1>2, <1>4, <1>5, <1>6, <1>7, NotTaken

\* Every step keeps the invariant.
LEMMA KeptStep ==
  ASSUME Reliable, CustodyKept, [BrainNext]_vars
  PROVE  CustodyKept'
<1>0. BrainInv /\ OnDisk /\ BrainInv'
  BY BrainStep DEF CustodyKept
<1>1. nextInc' \in Nat
  BY <1>0, TableAssumption DEF BrainInv, TypeInv, TypeOK
<1>2. CASE BrainNext
  <2>1. CASE OpenStep /\ chan = "open"
    BY <1>0, <1>1, <2>1, KeptOpen DEF CustodyKept
  <2>2. CASE BrainUp
    BY <1>0, <2>2, UpKeeps DEF CustodyKept
  <2>3. CASE ~(OpenStep /\ chan = "open") /\ ~BrainUp
    BY <1>0, <1>1, <1>2, <2>3, KeptDead, OpenOrUp DEF CustodyKept
  <2> QED BY <2>1, <2>2, <2>3
<1>3. CASE UNCHANGED vars
  <2>1. /\ UNCHANGED <<sess, nextInc, chan, phase, op, reg, obs, todo, backlog, memTomb, tombFile, regFile>>
        /\ Asking' = Asking /\ Telling' = Telling
    BY <1>3 DEF vars, Asking, Telling
  <2>2. OnDisk'
    BY <1>0, <2>1, EndDisk
  <2>3. ASSUME chan = "open"
        PROVE  InTouch'
    <3>1. InTouch
      BY <2>3 DEF CustodyKept
    <3>2. Trust' /\ Listed' /\ ClaimsHeld' /\ Phases'
      BY <2>1, <3>1 DEF InTouch, Trust, Listed, ClaimsHeld, Phases
    <3>3. AbortsQuiet' /\ MemAhead' /\ AfterExit' /\ Known'
      BY <2>1, <3>1 DEF InTouch, AbortsQuiet, MemAhead, AfterExit, Known
    <3> QED BY <3>2, <3>3 DEF InTouch
  <2> QED BY <1>0, <2>1, <2>2, <2>3 DEF CustodyKept
<1> QED BY <1>2, <1>3

\* The invariant the theorems below rest on.
LEMMA KeptInvariant == Reliable => (BrainSpec => []CustodyKept)
<1>1. BrainInit => CustodyKept
  BY KeptStart
<1> SUFFICES ASSUME Reliable
             PROVE  BrainSpec => []CustodyKept
  OBVIOUS
<1>2. CustodyKept /\ [BrainNext]_vars => CustodyKept'
  BY KeptStep
<1> QED BY <1>1, <1>2, PTL DEF BrainSpec

-----------------------------------------------------------------------------
(* The tombstone file.                                                     *)

\* The file changes only while a brain lives, to what is in memory: the exits
\* it gains are those of sessions the holder holds, promised and exited.
LEMMA TombWrites ==
  ASSUME Reliable, CustodyKept, [BrainNext]_vars
  PROVE  /\ \A u \in Uid : tombFile'[u].inc \in Nat /\ tombFile'[u].inc >= tombFile[u].inc
         /\ tombFile' # tombFile => UNCHANGED <<sess, child>>
         /\ \A u \in Uid : tombFile'[u].inc # tombFile[u].inc =>
              /\ sess[u].inc # 0 /\ tombFile'[u].inc = sess[u].inc
              /\ sess[u].exit # "none" /\ sess[u].armed
<1>0. BrainInv
  BY DEF CustodyKept
<1>1. \A u \in Uid : tombFile[u].inc \in Nat /\ memTomb[u].inc \in Nat
  BY <1>0, TombFacts
<1>2. CASE tombFile' = tombFile
  BY <1>1, <1>2
<1>k. \/ UNCHANGED <<regFile, tombFile>>
      \/ WatchdogKill /\ chan = "open" /\ PersistBeforeExit
      \/ ~BrainCrash
  BY DEF BrainCrash
<1>3. CASE \/ AdoptDone
           \/ \E i \in Inc : Settle(i)
           \/ WatchdogKill /\ chan = "open" /\ PersistBeforeExit
  <2>1. chan = "open" /\ UNCHANGED <<sess, child>>
    BY <1>3 DEF AdoptDone, Alive, Settle, WatchdogKill, holderVars, tableVars
  <2>2. \/ tombFile' \in {tombFile, memTomb}
        \/ /\ tombFile' = memTomb'
           /\ \A u \in Uid : memTomb'[u].inc = memTomb[u].inc
    BY <1>3, <2>1, AdoptDoneKeeps DEF AdoptDone, Settle, SaveTombs, PersistBeforeExit
  <2>4. ASSUME NEW u \in Uid, tombFile'[u].inc # tombFile[u].inc
        PROVE  /\ tombFile'[u].inc = memTomb[u].inc
               /\ sess[u].inc # 0 /\ memTomb[u].inc = sess[u].inc
               /\ sess[u].exit # "none" /\ sess[u].armed
    <3>1. tombFile'[u].inc = memTomb[u].inc
      BY <2>2, <2>4
    <3>2. tombFile[u].inc <= memTomb[u].inc /\ memTomb[u].inc = sess[u].inc
      BY <2>1, <2>4, <3>1 DEF CustodyKept, InTouch, MemAhead
    <3>3. sess[u].inc # 0
      BY <1>1, <2>4, <3>1, <3>2
    <3>4. child[sess[u].inc] = "reaped"
      BY <1>0, <3>2, <3>3, TombFacts
    <3> QED BY <1>0, <3>1, <3>2, <3>3, <3>4, TableFacts
  <2>5. ASSUME NEW u \in Uid
        PROVE  tombFile'[u].inc \in Nat /\ tombFile'[u].inc >= tombFile[u].inc
    <3>1. tombFile[u].inc <= memTomb[u].inc
      BY <2>1 DEF CustodyKept, InTouch, MemAhead
    <3> QED BY <1>1, <2>2, <3>1
  <2> QED BY <2>1, <2>4, <2>5
<1>4. CASE StopAll
  BY <1>4, NotTaken
<1>5. \/ tombFile' = tombFile \/ AdoptDone \/ StopAll \/ \E i \in Inc : Settle(i)
      \/ WatchdogKill /\ chan = "open" /\ PersistBeforeExit
  BY <1>k DEF vars, brainVars, tableVars, BrainNext, HolderStep, EofStep, BrainUp, SeeExitStep, ExitStep,
         ObserverStep, OnExit, Acked, AckTimeout, BootStep, FetchBoot, RestoreDone,
         AdoptForget, AdoptSkip, AdoptAbort, AdoptOne, RestoreSkip, RouteExit, DropReply,
         CallerStep, SpawnReply, DropPending, InsertAndArm, ArmReply, RemoveUnarmed, OpTimeout, StartOp
<1> QED BY <1>2, <1>3, <1>4, <1>5

-----------------------------------------------------------------------------
(* The theorems.                                                           *)

\* While a brain is alive its list of sessions and the holder's table agree,
\* entry by entry and observer by observer, whatever crashes came before and
\* whatever is in flight (start_session, adopt_at_boot, handle_session_exit).
THEOREM RegistryMatchesHolderSafe == Reliable => (BrainSpec => []RegistryMatchesHolder)
<1>1. ASSUME CustodyKept
      PROVE  RegistryMatchesHolder
  <2>1. ASSUME chan = "open"
        PROVE  BrainInv /\ Listed
    BY <1>1, <2>1 DEF CustodyKept, InTouch
  <2>2. ASSUME chan = "open", NEW u \in Uid, reg[u] # 0
        PROVE  /\ sess[u].inc = reg[u]
               /\ obs[reg[u]].pc \in {"waiting", "got"} /\ obs[reg[u]].uid = u
    BY <2>1, <2>2, ListedLives
  <2>3. chan = "open" => \A i \in Inc : obs[i].pc \in {"waiting", "got"} => reg[obs[i].uid] = i
    BY <2>1 DEF Listed
  <2> QED BY <2>2, <2>3 DEF RegistryMatchesHolder
<1>2. CustodyKept => RegistryMatchesHolder
  BY <1>1
<1> QED BY <1>2, KeptInvariant, PTL

\* Once a boot has adopted what the holder held, every live child is listed,
\* being started, or named by an abort on its way to the holder.
THEOREM HeldAreKnownSafe == Reliable => (BrainSpec => []HeldAreKnown)
<1>1. ASSUME CustodyKept, chan = "open", phase \in {"restoring", "serving"},
             NEW u \in Uid, Held(u), sess[u].exit = "none"
      PROVE  \/ reg[u] = sess[u].inc
             \/ \E c \in Caller : op[c].pc # "idle" /\ op[c].uid = u
             \/ \E k \in 1..Len(toHolder) : /\ toHolder[k].verb = "abort_spawn"
                                            /\ toHolder[k].inc = sess[u].inc
  <2>1. BrainInv /\ InTouch /\ Listed /\ Known /\ Phases
    BY <1>1 DEF CustodyKept, InTouch
  <2>2. todo[u].inc = 0
    BY <1>1, <2>1 DEF Phases
  <2>3. CASE reg[u] # 0
    BY <1>1, <2>1, <2>3, ListedLives
  <2>4. ASSUME NEW f \in Telling, Claim(f), f.uid = u
        PROVE  f.from \in Caller /\ op[f.from].pc # "idle" /\ op[f.from].uid = u
    BY <1>1, <2>1, <2>4, FramesAsked DEF Claim
  <2>5. ASSUME NEW m \in Asking, m.verb = "abort_spawn", m.inc = sess[u].inc
        PROVE  \E k \in 1..Len(toHolder) : /\ toHolder[k].verb = "abort_spawn"
                                           /\ toHolder[k].inc = sess[u].inc
    BY <2>5 DEF Asking, Elements
  <2>6. \/ reg[u] # 0
        \/ \E c \in Caller : op[c].pc = "spawned" /\ op[c].uid = u
        \/ \E f \in Telling : Claim(f) /\ f.uid = u
        \/ \E m \in Asking : m.verb = "abort_spawn" /\ m.inc = sess[u].inc
    BY <1>1, <2>1, <2>2 DEF Known, Held
  <2>7. CASE \E c \in Caller : op[c].pc = "spawned" /\ op[c].uid = u
    BY <2>7
  <2>8. CASE \E f \in Telling : Claim(f) /\ f.uid = u
    BY <2>4, <2>8
  <2>9. CASE \E m \in Asking : m.verb = "abort_spawn" /\ m.inc = sess[u].inc
    BY <2>5, <2>9
  <2> QED BY <2>3, <2>6, <2>7, <2>8, <2>9
<1>2. CustodyKept => HeldAreKnown
  BY <1>1 DEF HeldAreKnown
<1> QED BY <1>2, KeptInvariant, PTL

\* A tombstone on disk that tells of an exit is replaced only by that of a later
\* incarnation: no boot, crash or failed write turns it into "lost"
\* (adopt_at_boot, save of the tombstones, handle_session_exit).
THEOREM TruthNotLostSafe == Reliable => (BrainSpec => TruthNotLost)
<1> SUFFICES ASSUME Reliable
             PROVE  BrainSpec => TruthNotLost
  OBVIOUS
<1>1. ASSUME CustodyKept, [BrainNext]_vars, NEW u \in Uid, tombFile[u].inc # 0
      PROVE  tombFile'[u].kind = "exit" /\ tombFile'[u].inc >= tombFile[u].inc
  <2>1. /\ tombFile'[u].inc \in Nat /\ tombFile'[u].inc >= tombFile[u].inc
        /\ tombFile[u].inc \in Nat
    BY <1>1, TombWrites, TombFacts DEF CustodyKept
  <2>2. TombTrue(tombFile[u])'
    BY <1>1, KeptStep DEF CustodyKept, BrainInv, TombsTrue
  <2> QED BY <1>1, <2>1, <2>2 DEF TombTrue
<1>2. CustodyKept /\ [BrainNext]_vars =>
        [\A u \in Uid : tombFile[u].inc # 0 => /\ tombFile'[u].kind = "exit"
                                               /\ tombFile'[u].inc >= tombFile[u].inc]_vars
  BY <1>1
<1> QED BY <1>2, KeptInvariant, PTL DEF BrainSpec, TruthNotLost

-----------------------------------------------------------------------------
(* The two processes implement SessionCustody.                             *)

\* What the abstract specification sees.
Lives     == [i \in Inc |-> LifeOf(i)]
Owners    == [u \in Uid |-> sess[u].inc]
Promises  == {u \in Uid : sess[u].armed}
Recordeds == [u \in Uid |-> tombFile[u].inc]
Seen      == <<Lives, Owners, Promises, Recordeds>>

\* Its variables and its steps, in these terms.
LEMMA AbstractView ==
  /\ Abstract!custodyVars = Seen
  /\ Abstract!Init <=> /\ Lives = [i \in Inc |-> "none"] /\ Owners = [u \in Uid |-> 0]
                       /\ Promises = {} /\ Recordeds = [u \in Uid |-> 0]
  BY DEF Abstract!custodyVars, Abstract!Init, Abstract!Inc, Seen, Lives, Owners, Promises, Recordeds, Inc

\* The life of an incarnation, by its child and by whether it is held.
LEMMA LifeTable ==
  ASSUME TypeOK, NEW i \in Inc
  PROVE  /\ child[i] = "unborn" => LifeOf(i) = "none"
         /\ child[i] = "running" => LifeOf(i) = "running"
         /\ child[i] = "zombie" => LifeOf(i) = "exited"
         /\ child[i] = "reaped" /\ (\E u \in Uid : sess[u].inc = i) => LifeOf(i) = "exited"
         /\ child[i] = "reaped" /\ ~(\E u \in Uid : sess[u].inc = i) => LifeOf(i) = "gone"
  BY DEF LifeOf

\* A life changes only with its child or its holder.
LEMMA LifeSame ==
  ASSUME NEW i \in Inc, child'[i] = child[i],
         (\E u \in Uid : sess'[u].inc = i) <=> (\E u \in Uid : sess[u].inc = i)
  PROVE  LifeOf(i)' = LifeOf(i)
  BY DEF LifeOf

\* Nothing the abstract specification sees has changed.
LEMMA Unseen ==
  ASSUME TypeOK, TypeOK', UNCHANGED tombFile,
         \A u \in Uid : sess'[u].inc = sess[u].inc /\ sess'[u].armed = sess[u].armed,
         \A i \in Inc : \/ child'[i] = child[i]
                        \/ /\ child[i] = "zombie" /\ child'[i] = "reaped"
                           /\ \E u \in Uid : sess[u].inc = i
  PROVE  UNCHANGED Seen
<1>1. ASSUME NEW i \in Inc
      PROVE  LifeOf(i)' = LifeOf(i)
  <2>1. (\E u \in Uid : sess'[u].inc = i) <=> (\E u \in Uid : sess[u].inc = i)
    OBVIOUS
  <2>2. CASE child'[i] = child[i]
    BY <2>1, <2>2, LifeSame
  <2>3. CASE child'[i] # child[i]
    <3>1. LifeOf(i) = "exited"
      BY <2>3, LifeTable
    <3>2. LifeOf(i)' = "exited"
      BY <2>1, <2>3 DEF LifeOf
    <3> QED BY <3>1, <3>2
  <2> QED BY <2>2, <2>3
<1>2. Lives' = Lives
  BY <1>1 DEF Lives
<1> QED BY <1>2 DEF Seen, Owners, Promises, Recordeds

\* One life changes.
LEMMA OneLife ==
  ASSUME NEW i \in Inc, \A j \in Inc : j # i => LifeOf(j)' = LifeOf(j)
  PROVE  Lives' = [Lives EXCEPT ![i] = LifeOf(i)']
  BY DEF Lives

\* A child is started.
LEMMA MapsStart ==
  ASSUME NEW u \in Uid, NEW i \in Inc, Owners[u] = 0, Lives[i] = "none",
         Lives' = [Lives EXCEPT ![i] = "running"], Owners' = [Owners EXCEPT ![u] = i],
         UNCHANGED <<Promises, Recordeds>>
  PROVE  Abstract!Next
<1>1. Abstract!Inc = Inc
  BY DEF Abstract!Inc, Inc
<1> QED BY <1>1 DEF Abstract!Next, Abstract!Start, Abstract!Owned, Abstract!Exited, Lives, Owners, Promises, Recordeds

\* A child that could not be held.
LEMMA MapsStillBorn ==
  ASSUME NEW i \in Inc, Lives[i] = "none", Lives' = [Lives EXCEPT ![i] = "gone"],
         UNCHANGED <<Owners, Promises, Recordeds>>
  PROVE  Abstract!Next
<1>1. Abstract!Inc = Inc
  BY DEF Abstract!Inc, Inc
<1> QED BY <1>1 DEF Abstract!Next, Abstract!StillBorn, Abstract!Owned, Abstract!Exited, Lives, Owners, Promises, Recordeds

\* A child exits.
LEMMA MapsExit ==
  ASSUME NEW i \in Inc, Lives[i] = "running", Lives' = [Lives EXCEPT ![i] = "exited"],
         UNCHANGED <<Owners, Promises, Recordeds>>
  PROVE  Abstract!Next
<1>1. Abstract!Inc = Inc
  BY DEF Abstract!Inc, Inc
<1> QED BY <1>1 DEF Abstract!Next, Abstract!Exit, Abstract!Owned, Abstract!Exited, Lives, Owners, Promises, Recordeds

\* A session is promised.
LEMMA MapsPromise ==
  ASSUME NEW u \in Uid, Owners[u] # 0, Promises' = Promises \cup {u},
         UNCHANGED <<Lives, Owners, Recordeds>>
  PROVE  Abstract!Next
<1>1. Abstract!Inc = Inc
  BY DEF Abstract!Inc, Inc
<1> QED BY <1>1 DEF Abstract!Next, Abstract!Promise, Abstract!Owned, Abstract!Exited, Lives, Owners, Promises, Recordeds

\* A recorded exit lets its session go.
LEMMA MapsRelease ==
  ASSUME NEW u \in Uid, Owners[u] # 0, Lives[Owners[u]] = "exited", Recordeds[u] = Owners[u],
         Lives' = [Lives EXCEPT ![Owners[u]] = "gone"], Owners' = [Owners EXCEPT ![u] = 0],
         Promises' = Promises \ {u}, UNCHANGED Recordeds
  PROVE  Abstract!Next
<1>1. Abstract!Inc = Inc
  BY DEF Abstract!Inc, Inc
<1> QED BY <1>1 DEF Abstract!Next, Abstract!Release, Abstract!Owned, Abstract!Exited, Lives, Owners, Promises, Recordeds

\* A session that was not promised is killed.
LEMMA MapsAbandon ==
  ASSUME NEW u \in Uid, Owners[u] # 0, u \notin Promises,
         Lives' = [Lives EXCEPT ![Owners[u]] = "gone"], Owners' = [Owners EXCEPT ![u] = 0],
         UNCHANGED <<Promises, Recordeds>>
  PROVE  Abstract!Next
<1>1. Abstract!Inc = Inc
  BY DEF Abstract!Inc, Inc
<1> QED BY <1>1 DEF Abstract!Next, Abstract!Abandon, Abstract!Owned, Abstract!Exited, Lives, Owners, Promises, Recordeds

\* The tombstone file is written.
LEMMA MapsRecord ==
  ASSUME NEW S \in SUBSET Uid,
         \A u \in S : Owners[u] # 0 /\ Lives[Owners[u]] = "exited" /\ u \in Promises,
         Recordeds' = [u \in Uid |-> IF u \in S THEN Owners[u] ELSE Recordeds[u]],
         UNCHANGED <<Lives, Owners, Promises>>
  PROVE  Abstract!Next
<1>1. Abstract!Inc = Inc
  BY DEF Abstract!Inc, Inc
<1> QED BY <1>1 DEF Abstract!Next, Abstract!Record, Abstract!Owned, Abstract!Exited, Lives, Owners, Promises, Recordeds

\* A new child is started for a uid that holds none, or never held (handle_spawn).
LEMMA SpawnMaps ==
  ASSUME BrainInv, OnDisk, TypeOK', HandleSpawnOk \/ HandleSpawnTorn, UNCHANGED brainVars
  PROVE  Abstract!Next
<1>1. PICK u, i : u = Head(toHolder).uid /\ i = nextInc
  OBVIOUS
<1>2. /\ TypeOK /\ CustodyInv /\ u \in Uid /\ sess \in [Uid -> Entry] /\ child \in [Inc -> {"unborn", "running", "zombie", "reaped"}]
      /\ sess[u].inc = 0 /\ UNCHANGED tombFile
  BY <1>1, DispatchType, TableFacts DEF BrainInv, TypeInv, EventInv, TypeOK, HandleSpawnOk, HandleSpawnTorn, Held, brainVars
<1>3. i \in Inc /\ i # 0 /\ child[i] = "unborn"
  BY <1>1, <1>2, TableAssumption DEF TypeOK, Inc, CustodyInv, Fresh, HandleSpawnOk, HandleSpawnTorn
<1>4. \A v \in Uid : sess[v].inc # i
  BY <1>1, <1>3, TableFacts
<1>5. LifeOf(i) = "none" /\ Lives[i] = "none" /\ Owners[u] = 0
  BY <1>2, <1>3, LifeTable DEF Lives, Owners
<1>6. CASE HandleSpawnOk
  <2>1. /\ sess' = [sess EXCEPT ![u] = Spawned(i)] /\ child' = [child EXCEPT ![i] = "running"]
    BY <1>1, <1>6 DEF HandleSpawnOk
  <2>2. Spawned(i).inc = i /\ ~Spawned(i).armed /\ ~sess[u].armed
    BY <1>2 DEF Spawned, NoEntry, OnDisk, Unpromised
  <2>3. LifeOf(i)' = "running"
    BY <1>2, <1>3, <2>1 DEF LifeOf
  <2>4. ASSUME NEW j \in Inc, j # i
        PROVE  LifeOf(j)' = LifeOf(j)
    <3>1. child'[j] = child[j]
      BY <1>2, <1>3, <2>1, <2>4
    <3>2. (\E v \in Uid : sess'[v].inc = j) <=> (\E v \in Uid : sess[v].inc = j)
      <4>1. \A v \in Uid : v # u => sess'[v] = sess[v]
        BY <1>2, <2>1
      <4>2. sess'[u].inc = i /\ j # 0
        BY <1>2, <2>1, <2>2, TableFacts
      <4> QED BY <1>2, <2>4, <4>1, <4>2
    <3> QED BY <3>1, <3>2, LifeSame
  <2>5. Lives' = [Lives EXCEPT ![i] = "running"]
    BY <1>3, <2>3, <2>4, OneLife
  <2>6. Owners' = [Owners EXCEPT ![u] = i]
    BY <1>2, <2>1, <2>2 DEF Owners
  <2>7. UNCHANGED <<Promises, Recordeds>>
    BY <1>2, <2>1, <2>2 DEF Promises, Recordeds
  <2> QED BY <1>2, <1>3, <1>5, <2>5, <2>6, <2>7, MapsStart
<1>7. CASE HandleSpawnTorn
  <2>1. UNCHANGED sess /\ child' = [child EXCEPT ![i] = "reaped"]
    BY <1>1, <1>7 DEF HandleSpawnTorn
  <2>2. LifeOf(i)' = "gone"
    BY <1>2, <1>3, <1>4, <2>1 DEF LifeOf
  <2>3. \A j \in Inc : j # i => LifeOf(j)' = LifeOf(j)
    BY <1>2, <2>1, LifeSame
  <2>4. Lives' = [Lives EXCEPT ![i] = "gone"]
    BY <1>3, <2>2, <2>3, OneLife
  <2>5. UNCHANGED <<Owners, Promises, Recordeds>>
    BY <1>2, <2>1 DEF Owners, Promises, Recordeds
  <2> QED BY <1>3, <1>5, <2>4, <2>5, MapsStillBorn
<1> QED BY <1>6, <1>7

\* A session goes: its uid holds nothing any more, and the others keep theirs.
LEMMA GoneLife ==
  ASSUME BrainInv, NEW u \in Uid, sess[u].inc # 0, sess' = [sess EXCEPT ![u] = NoEntry],
         child'[sess[u].inc] = "reaped", \A i \in Inc : i # sess[u].inc => child'[i] = child[i]
  PROVE  /\ Lives' = [Lives EXCEPT ![Owners[u]] = "gone"]
         /\ Owners' = [Owners EXCEPT ![u] = 0]
         /\ Promises' = Promises \ {u}
<1>1. /\ sess \in [Uid -> Entry] /\ sess[u].inc \in Inc /\ NoEntry.inc = 0 /\ ~NoEntry.armed
      /\ 0 \notin Inc /\ \A v \in Uid : sess[v].inc = sess[u].inc => v = u
  BY TableFacts DEF NoEntry
<1>2. PICK i \in Inc : i = sess[u].inc
  BY <1>1
<1>3. \A v \in Uid : v # u => sess'[v] = sess[v]
  BY <1>1
<1>4. sess'[u].inc = 0
  BY <1>1
<1>5. LifeOf(i)' = "gone"
  <2>1. child'[i] = "reaped" /\ ~\E v \in Uid : sess'[v].inc = i
    BY <1>1, <1>2, <1>3, <1>4
  <2> QED BY <2>1 DEF LifeOf
<1>6. ASSUME NEW j \in Inc, j # i
      PROVE  LifeOf(j)' = LifeOf(j)
  <2>1. child'[j] = child[j] /\ ((\E v \in Uid : sess'[v].inc = j) <=> (\E v \in Uid : sess[v].inc = j))
    BY <1>1, <1>2, <1>3, <1>4, <1>6
  <2> QED BY <2>1, LifeSame
<1>7. Lives' = [Lives EXCEPT ![i] = "gone"]
  BY <1>5, <1>6, OneLife
<1>8. Owners[u] = i
  BY <1>2 DEF Owners
<1> QED BY <1>1, <1>7, <1>8 DEF Owners, Promises

\* An abort kills a session nobody was promised, a forget lets a recorded exit
\* go, an arm_reap promises (handle_abort_spawn, handle_forget, handle_arm_reap).
LEMMA ServeMaps ==
  ASSUME BrainInv, OnDisk, TypeOK', HolderStep
  PROVE  Abstract!Next \/ UNCHANGED Seen
<1>1. PICK m, u : m = Head(toHolder) /\ u = m.uid
  OBVIOUS
<1>2. /\ TypeOK /\ CustodyInv /\ sess \in [Uid -> Entry]
      /\ child \in [Inc -> {"unborn", "running", "zombie", "reaped"}]
      /\ UNCHANGED tombFile
  BY TableFacts DEF BrainInv, TypeInv, EventInv, TypeOK, HolderStep, brainVars
<1>3. CASE HandleSpawnOk \/ HandleSpawnTorn
  BY <1>3, SpawnMaps DEF HolderStep
<1>4. CASE HandleSpawnErr
  <2>1. UNCHANGED <<sess, child>>
    BY <1>4 DEF HandleSpawnErr, holderVars
  <2> QED BY <1>2, <2>1, Unseen
<1>5. CASE HandleArmReap
  <2>1. u \in Uid
    BY <1>1, <1>2, <1>5, DispatchType DEF HandleArmReap
  <2>2. CASE UNCHANGED <<sess, child>>
    BY <1>2, <2>2, Unseen
  <2>3. CASE Matches(m) /\ ~UNCHANGED <<sess, child>>
    <3>1. PICK e : e = [sess[u] EXCEPT !.armed = TRUE, !.ready = TRUE]
      OBVIOUS
    <3>2. /\ sess[u].inc # 0 /\ sess[u].inc = m.inc /\ sess[u] \in Entry
          /\ e.inc = m.inc /\ e.armed /\ e.latched = sess[u].latched /\ e.exit = sess[u].exit
      BY <1>1, <1>2, <2>1, <2>3, <3>1 DEF Matches, Held, Entry
    <3>3. \/ /\ e.latched /\ sess' = [sess EXCEPT ![u] = Consumed(e)]
             /\ child' = [child EXCEPT ![m.inc] = "reaped"]
          \/ sess' = [sess EXCEPT ![u] = e] /\ UNCHANGED child
      BY <1>1, <1>5, <2>3, <3>1 DEF HandleArmReap, ConsumedByArm
    <3>4. /\ \A v \in Uid : v # u => sess'[v] = sess[v]
          /\ sess'[u].inc = sess[u].inc /\ sess'[u].armed
      <4>1. Consumed(e).inc = e.inc /\ Consumed(e).armed = e.armed
        BY <3>1, <3>2 DEF Consumed, Entry
      <4> QED BY <1>2, <2>1, <3>2, <3>3, <4>1
    <3>5. /\ m.inc \in Inc
          /\ sess[u].latched => child[m.inc] = "zombie"
      BY <1>2, <2>1, <3>2, TableFacts DEF CustodyInv, LatchedSound
    <3>6. ASSUME NEW i \in Inc
          PROVE  LifeOf(i)' = LifeOf(i)
      <4>1. (\E v \in Uid : sess'[v].inc = i) <=> (\E v \in Uid : sess[v].inc = i)
        BY <2>1, <3>4
      <4>2. CASE child'[i] = child[i]
        BY <4>1, <4>2, LifeSame
      <4>3. CASE child'[i] # child[i]
        <5>1. i = m.inc /\ child[i] = "zombie" /\ child'[i] = "reaped" /\ sess'[u].inc = i
          BY <1>2, <3>2, <3>3, <3>4, <3>5, <4>3
        <5> QED BY <1>2, <2>1, <5>1, LifeTable DEF LifeOf
      <4> QED BY <4>2, <4>3
    <3>7. UNCHANGED <<Lives, Owners, Recordeds>> /\ Promises' = Promises \cup {u} /\ Owners[u] # 0
      BY <1>2, <2>1, <3>2, <3>4, <3>6 DEF Lives, Owners, Recordeds, Promises
    <3> QED BY <2>1, <3>7, MapsPromise
  <2> QED BY <1>1, <1>5, <2>2, <2>3 DEF HandleArmReap
<1>6. CASE HandleAbortSpawn
  <2>1. CASE UNCHANGED <<sess, child>>
    BY <1>2, <2>1, Unseen
  <2>2. CASE Matches(m) /\ sess' = [sess EXCEPT ![u] = NoEntry]
                        /\ child' = [child EXCEPT ![m.inc] = "reaped"]
    <3>1. /\ m \in Asking /\ m.verb = "abort_spawn" /\ u \in Uid
          /\ sess[u].inc # 0 /\ sess[u].inc = m.inc /\ m.inc \in Inc
      BY <1>1, <1>6, <2>2, DispatchSet, TableFacts DEF HandleAbortSpawn, Matches, Held
    <3>2. ~sess[u].armed
      BY <1>1, <3>1 DEF OnDisk, AbortsSafe
    <3>3. /\ Lives' = [Lives EXCEPT ![Owners[u]] = "gone"] /\ Owners' = [Owners EXCEPT ![u] = 0]
          /\ Promises' = Promises \ {u}
      BY <1>2, <2>2, <3>1, GoneLife
    <3>4. Owners[u] # 0 /\ u \notin Promises /\ UNCHANGED Recordeds
      BY <1>2, <3>1, <3>2 DEF Owners, Promises, Recordeds
    <3>5. Promises' = Promises
      BY <3>3, <3>4
    <3> QED BY <3>1, <3>3, <3>4, <3>5, MapsAbandon
  <2> QED BY <1>1, <1>6, <2>1, <2>2 DEF HandleAbortSpawn
<1>7. CASE HandleAckExit
  <2>1. UNCHANGED child /\ (sess' = sess \/ sess' = [sess EXCEPT ![u].exit = "acked"])
    BY <1>1, <1>7 DEF HandleAckExit
  <2>2. \A v \in Uid : sess'[v].inc = sess[v].inc /\ sess'[v].armed = sess[v].armed
    BY <1>2, <2>1 DEF Entry
  <2> QED BY <1>2, <2>1, <2>2, Unseen
<1>8. CASE HandleForget
  <2>1. CASE UNCHANGED sess
    <3>1. UNCHANGED child
      BY <1>8 DEF HandleForget
    <3> QED BY <1>2, <2>1, <3>1, Unseen
  <2>2. CASE Forgettable(m) /\ sess' = [sess EXCEPT ![u] = NoEntry]
    <3>1. u \in Uid /\ sess[u].inc # 0 /\ sess[u].exit = "acked" /\ UNCHANGED child
      BY <1>1, <1>8, <2>2, DispatchSet DEF HandleForget, Forgettable, Matches, Held
    <3>2. sess[u].inc \in Inc /\ child[sess[u].inc] = "reaped" /\ tombFile[u].inc = sess[u].inc
      BY <3>1, TableFacts DEF OnDisk, Recorded
    <3>3. /\ Lives' = [Lives EXCEPT ![Owners[u]] = "gone"] /\ Owners' = [Owners EXCEPT ![u] = 0]
          /\ Promises' = Promises \ {u}
      BY <2>2, <3>1, <3>2, GoneLife
    <3>4. LifeOf(sess[u].inc) = "exited"
      BY <1>2, <3>1, <3>2, LifeTable
    <3>5. /\ Owners[u] # 0 /\ Lives[Owners[u]] = "exited" /\ Recordeds[u] = Owners[u]
          /\ UNCHANGED Recordeds
      BY <1>2, <3>1, <3>2, <3>4 DEF Owners, Recordeds, Lives
    <3> QED BY <3>1, <3>3, <3>5, MapsRelease
  <2> QED BY <1>1, <1>8, <2>1, <2>2 DEF HandleForget
<1> QED BY <1>3, <1>4, <1>5, <1>6, <1>7, <1>8 DEF HolderStep

\* A child exits, and the poll loop sees it.
LEMMA LoopMaps ==
  ASSUME BrainInv, TypeOK', (\E u \in Uid : SeeExitStep(u)) \/ (\E i \in Inc : ExitStep(i))
  PROVE  Abstract!Next \/ UNCHANGED Seen
<1>0. /\ LoopMove /\ UNCHANGED tombFile
      /\ TypeOK /\ sess \in [Uid -> Entry]
      /\ child \in [Inc -> {"unborn", "running", "zombie", "reaped"}]
  BY LoopMoves, TableFacts DEF LoopMove, brainVars, BrainInv, TypeInv, TypeOK
<1>1. ASSUME NEW i \in Inc, ExitStep(i)
      PROVE  Abstract!Next
  <2>1. UNCHANGED sess /\ child[i] = "running" /\ child' = [child EXCEPT ![i] = "zombie"]
    BY <1>1 DEF ExitStep, ChildExits
  <2>2. LifeOf(i) = "running"
    BY <1>0, <2>1, LifeTable
  <2>3. LifeOf(i)' = "exited"
    BY <1>0, <2>1 DEF LifeOf
  <2>4. \A j \in Inc : j # i => LifeOf(j)' = LifeOf(j)
    BY <1>0, <2>1, LifeSame
  <2>5. Lives[i] = "running" /\ Lives' = [Lives EXCEPT ![i] = "exited"]
    BY <2>2, <2>3, <2>4, OneLife DEF Lives
  <2>6. UNCHANGED <<Owners, Promises, Recordeds>>
    BY <1>0, <2>1 DEF Owners, Promises, Recordeds
  <2> QED BY <2>5, <2>6, MapsExit
<1>2. ASSUME NEW u \in Uid, SeeExitStep(u)
      PROVE  UNCHANGED Seen
  <2>1. /\ child[sess[u].inc] = "zombie"
        /\ UNCHANGED child \/ child' = [child EXCEPT ![sess[u].inc] = "reaped"]
    BY <1>2 DEF SeeExitStep, SeeExit
  <2>2. \A i \in Inc : \/ child'[i] = child[i]
                       \/ /\ child[i] = "zombie" /\ child'[i] = "reaped"
                          /\ \E v \in Uid : sess[v].inc = i
    BY <1>0, <2>1
  <2>3. \A v \in Uid : sess'[v].inc = sess[v].inc /\ sess'[v].armed = sess[v].armed
    BY <1>0 DEF LoopMove
  <2> QED BY <1>0, <2>2, <2>3, Unseen
<1> QED BY <1>1, <1>2

\* A write of the tombstone file records the exits of held, promised sessions.
LEMMA WriteMaps ==
  ASSUME Reliable, CustodyKept, [BrainNext]_vars, TypeOK', tombFile' # tombFile
  PROVE  Abstract!Next
<1> DEFINE S == {u \in Uid : tombFile'[u].inc # tombFile[u].inc}
<1>1. /\ BrainInv /\ TypeOK /\ UNCHANGED <<sess, child>>
      /\ \A u \in S : /\ sess[u].inc # 0 /\ tombFile'[u].inc = sess[u].inc
                      /\ sess[u].exit # "none" /\ sess[u].armed
  BY TombWrites DEF CustodyKept, BrainInv, TypeInv
<1>2. \A i \in Inc : LifeOf(i)' = LifeOf(i)
  BY <1>1, LifeSame
<1>3. UNCHANGED <<Lives, Owners, Promises>>
  BY <1>1, <1>2 DEF Lives, Owners, Promises
<1>4. ASSUME NEW u \in S
      PROVE  Owners[u] # 0 /\ Lives[Owners[u]] = "exited" /\ u \in Promises
  <2>1. u \in Uid /\ sess[u].inc \in Inc /\ child[sess[u].inc] = "reaped"
    BY <1>1, <1>4, TableFacts
  <2>2. LifeOf(sess[u].inc) = "exited"
    BY <1>1, <2>1, LifeTable
  <2> QED BY <1>1, <1>4, <2>1, <2>2 DEF Owners, Lives, Promises
<1>5. Recordeds' = [u \in Uid |-> IF u \in S THEN Owners[u] ELSE Recordeds[u]]
  <2>1. \A u \in Uid : tombFile'[u].inc = IF u \in S THEN sess[u].inc ELSE tombFile[u].inc
    BY <1>1
  <2> HIDE DEF S
  <2> QED BY <2>1 DEF Recordeds, Owners
<1>6. S \in SUBSET Uid
  OBVIOUS
<1> HIDE DEF S
<1> QED BY <1>3, <1>4, <1>5, <1>6, MapsRecord

\* Every step of the two processes is a step of the specification, or none.
LEMMA StepMaps ==
  ASSUME Reliable, CustodyKept, [BrainNext]_vars
  PROVE  Abstract!Next \/ UNCHANGED Seen
<1>0. BrainInv /\ OnDisk /\ TypeOK /\ TypeOK' /\ sess \in [Uid -> Entry]
  BY KeptStep, TableFacts DEF CustodyKept, BrainInv, TypeInv
<1>1. CASE HolderStep
  BY <1>0, <1>1, ServeMaps
<1>2. CASE (\E u \in Uid : SeeExitStep(u)) \/ (\E i \in Inc : ExitStep(i))
  BY <1>0, <1>2, LoopMaps
<1>3. CASE tombFile' # tombFile
  BY <1>0, <1>3, WriteMaps
<1>4. CASE tombFile' = tombFile /\ UNCHANGED child
           /\ \A u \in Uid : sess'[u].inc = sess[u].inc /\ sess'[u].armed = sess[u].armed
  BY <1>0, <1>4, Unseen
<1>5. CASE BrainUp
  <2>1. \A u \in Uid : Unready(sess[u]).inc = sess[u].inc /\ Unready(sess[u]).armed = sess[u].armed
    BY <1>0 DEF Unready, Entry
  <2> QED BY <1>4, <1>5, <2>1 DEF BrainUp, Serve
<1>6. CASE EofStep \/ BrainCrash
  <2>1. UNCHANGED <<sess, child>>
    BY <1>0, <1>6 DEF EofStep, BrainEof, BrainCrash, BrainDies, WatchdogKill, BrainInv
  <2> QED BY <1>3, <1>4, <2>1
<1>7. \/ HolderStep \/ (\E u \in Uid : SeeExitStep(u)) \/ (\E i \in Inc : ExitStep(i))
      \/ BrainUp \/ EofStep \/ BrainCrash \/ StopAll \/ UNCHANGED <<sess, child>>
  BY DEF vars, tableVars, holderVars, BrainNext, ObserverStep, OnExit, Settle, Acked, AckTimeout,
         BootStep, FetchBoot, AdoptDone, RestoreDone, AdoptForget, AdoptSkip, AdoptAbort, AdoptOne,
         RestoreSkip, RouteExit, DropReply, CallerStep, SpawnReply, DropPending, InsertAndArm,
         ArmReply, RemoveUnarmed, OpTimeout, StartOp
<1> QED BY <1>1, <1>2, <1>3, <1>4, <1>5, <1>6, <1>7, NotTaken

\* The holder and its brains implement SessionCustody: across any crash of any
\* brain a promised session ends only by the exit of its own child, and is let
\* go only when that exit is on disk (start_session, adopt_at_boot, the exit
\* observer's settle, and the holder's handlers, in every interleaving).
THEOREM CustodyImplemented == Reliable => (BrainSpec => KeepsCustody)
<1> SUFFICES ASSUME Reliable
             PROVE  BrainSpec => Abstract!Spec
  BY DEF KeepsCustody
<1>1. BrainInit => Abstract!Init
  <2>1. ASSUME BrainInit
        PROVE  Abstract!Init
    <3>1. TypeOK
      BY <2>1, TypeInit DEF BrainInit
    <3>2. \A i \in Inc : LifeOf(i) = "none"
      BY <2>1, <3>1, LifeTable DEF BrainInit, Init
    <3>3. Lives = [i \in Inc |-> "none"]
      BY <3>2 DEF Lives
    <3>4. Owners = [u \in Uid |-> 0] /\ Promises = {} /\ Recordeds = [u \in Uid |-> 0]
      BY <2>1 DEF BrainInit, Init, NoEntry, NoTomb, Owners, Promises, Recordeds
    <3> QED BY <3>3, <3>4, AbstractView
  <2> QED BY <2>1
<1>2. CustodyKept /\ [BrainNext]_vars => [Abstract!Next]_(Abstract!custodyVars)
  <2>1. UNCHANGED Seen => UNCHANGED Abstract!custodyVars
    BY DEF Abstract!custodyVars, Seen, Lives, Owners, Promises, Recordeds
  <2> QED BY <2>1, StepMaps
<1> QED BY <1>1, <1>2, KeptInvariant, PTL DEF BrainSpec, Abstract!Spec
===============================================================================
