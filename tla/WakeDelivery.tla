---------------------------- MODULE WakeDelivery ----------------------------
(***************************************************************************)
(* How one session is woken for its unread chat messages                   *)
(* (messaging/delivery.rs): the durable queue of wake batches, the native  *)
(* notification queue (notifications.rs) and the consumer in the agent's   *)
(* MCP server that submits its events (mcp_server/notifications.py).       *)
(*                                                                         *)
(* A key is a message that may wake the session; the keys of TaskKeys are  *)
(* hits of a task subscription, whose authority may be unknown for a while *)
(* ("deferred").  A wake is the batch and the native event of one id; ids  *)
(* are numbered in the order in which batches enter the queue.  The        *)
(* daemon's delivery gate lets one tick or RPC at a time at the queue; the *)
(* consumer is another process and comes in between any two of its steps.  *)
(***************************************************************************)
EXTENDS Naturals, FiniteSets, FiniteSetsExt

CONSTANTS
  Keys,         \* the messages
  TaskKeys,     \* those that are hits of a task subscription
  MaxWakes,     \* bound on the wakes ever made
  Troubles,     \* the kinds of misfortune that may happen
  MaxTrouble,   \* bound on their number
  HistoryTail   \* HISTORY_TAIL: the newest batches are kept as history

ASSUME WakeAssumption ==
  /\ TaskKeys \subseteq Keys
  /\ MaxWakes \in Nat /\ MaxTrouble \in Nat /\ HistoryTail \in Nat

VARIABLES
  msg,        \* what the session has done with each message
  dnd,        \* its preference: no wakes at all
  file,       \* the wake queue on disk, a batch per wake
  made,       \* how many wakes there have been
  gate,       \* the tick or RPC that holds the delivery gate
  native,     \* the native event of each wake
  consumer,   \* is a consumer running
  trouble,    \* misfortunes so far
  sent,       \* history: submissions of each wake that reached the agent's client
  handed,     \* history: keys an expired latch handed to a successor
  gaps,       \* history: keys that were unread while dnd was on
  hidden      \* history: keys a read added to a wake not known to be out

vars == <<msg, dnd, file, made, gate, native, consumer, trouble,
          sent, handed, gaps, hidden>>
history == <<sent, handed, gaps, hidden>>

Wakes == 1 .. MaxWakes

-----------------------------------------------------------------------------
(* The queue. *)

\* "at" is delivered_at, or settled_at when there is none: 0 unset, 1 now,
\* 2 LATCH_HORIZON_SECS ago, 3 HISTORY_HORIZON_SECS ago.
NoBatch == [ids |-> {}, status |-> "none", checked |-> {}, coalesced |-> {},
            sealed |-> FALSE, released |-> FALSE, at |-> 0]
NewBatch(ids) == [NoBatch EXCEPT !.ids = ids, !.status = "pending"]
NoEvent == [status |-> "none", text |-> {}, old |-> FALSE]
Hint(text) == [status |-> "pending", text |-> text, old |-> FALSE]
NoGate == [pc |-> "idle", want |-> {}, deferred |-> {},
           q |-> [w \in Wakes |-> NoBatch]]

WakeInit ==
  /\ msg = [k \in Keys |-> "none"]
  /\ dnd = FALSE
  /\ file = [w \in Wakes |-> NoBatch]
  /\ made = 0
  /\ gate = NoGate
  /\ native = [w \in Wakes |-> NoEvent]
  /\ consumer = FALSE
  /\ trouble = 0
  /\ sent = [w \in Wakes |-> 0]
  /\ handed = {} /\ gaps = {} /\ hidden = {}

Present(q) == {w \in Wakes : q[w].status # "none"}
Made(q) == Max({made} \cup Present(q))
Covered(q) == UNION {q[w].ids : w \in Wakes}
Frozen(b, D) == b.ids \cap D # {}
SettledHistory(b) == b.released /\ b.status \in {"confirmed", "cancelled"}
Delivered(b) == b.status \in {"confirmed", "submitted_unverified", "uncertain"}
Active(b, want) == (b.ids \cap want) \ b.checked # {}
Text(b, want) == (b.ids \cap want) \ b.checked

\* The keys the session wants to be woken for.  A deferred key is not one of
\* them, but its batch is left alone.
Unread == {k \in Keys : msg[k] \in {"unread", "fetched"}}
Intents(D) == IF dnd THEN {} ELSE Unread \ D

NativeStatus(e) ==
  CASE e.status = "observed"   -> "confirmed"
    [] e.status = "submitted"  -> "submitted_unverified"
    [] e.status = "pending"    -> "native_pending"
    [] e.status = "submitting" -> "submitting"
    [] e.status = "cancelled"  -> "cancelled"
    [] OTHER                   -> "uncertain"

\* A batch is over when everything in it was fetched or is not wanted.
Settle(q, want, D) ==
  [w \in Wakes |->
    [q[w] EXCEPT !.released = @ \/ /\ w \in Present(q)
                                   /\ ~Frozen(q[w], D)
                                   /\ ~Active(q[w], want)]]

\* New keys join the open batch, or make one.
Collect(q, want, D) ==
  LET s    == Settle(q, want, D)
      new  == want \ Covered(s)
      open == {w \in Present(s) : /\ ~Frozen(s[w], D) /\ ~s[w].released
                                  /\ ~s[w].sealed /\ s[w].status # "cancelled"}
  IN  CASE new = {} -> s
        [] new # {} /\ open # {} ->
             [s EXCEPT ![Min(open)].ids = @ \cup new,
                       ![Min(open)].coalesced =
                          IF s[Min(open)].status = "pending" THEN @ ELSE @ \cup new]
        [] OTHER     -> [s EXCEPT ![made + 1] = NewBatch(new)]

\* The latch of a delivered wake, and what its batch absorbed in vain.
Latched(b, D) == ~Frozen(b, D) /\ ~b.released /\ Delivered(b)
Orphans(b, D) == IF Latched(b, D) /\ b.at >= 2 THEN b.coalesced \ b.checked ELSE {}
\* Mutants: the absorbed keys stay listed; the horizon is not waited for; the
\* absorbed keys are not handed on.
MutantExpireKeepsCoalesced(q, D) ==
  [w \in Wakes |-> IF Latched(q[w], D) /\ q[w].at >= 2
                   THEN [q[w] EXCEPT !.ids = @ \ Orphans(q[w], D),
                                     !.released = TRUE, !.sealed = TRUE]
                   ELSE IF Latched(q[w], D) THEN [q[w] EXCEPT !.at = 1] ELSE q[w]]
MutantExpireAtOnce(q, D) ==
  [w \in Wakes |-> IF Latched(q[w], D) /\ q[w].at >= 1
                   THEN [q[w] EXCEPT !.ids = @ \ q[w].coalesced, !.coalesced = {},
                                     !.released = TRUE, !.sealed = TRUE]
                   ELSE IF Latched(q[w], D) THEN [q[w] EXCEPT !.at = 1] ELSE q[w]]
MutantExpireKeepsIds(q, D) ==
  [w \in Wakes |-> IF Latched(q[w], D) /\ q[w].at >= 2
                   THEN [q[w] EXCEPT !.released = TRUE, !.sealed = TRUE]
                   ELSE IF Latched(q[w], D) THEN [q[w] EXCEPT !.at = 1] ELSE q[w]]
ExpireLatches(q, D) ==
  [w \in Wakes |->
     CASE Latched(q[w], D) /\ q[w].at = 0 -> [q[w] EXCEPT !.at = 1]
       [] Latched(q[w], D) /\ q[w].at >= 2 ->
            [q[w] EXCEPT !.ids = @ \ Orphans(q[w], D),
                         !.coalesced = @ \ Orphans(q[w], D),
                         !.released = TRUE, !.sealed = TRUE]
       [] OTHER -> q[w]]

\* Settled history nobody needs for deduplication goes after a day.
\* Mutant: age alone decides.
MutantNeeded(b, want) == FALSE
Needed(b, want) == (b.ids \cup b.coalesced) \cap want # {}
CompactHistory(q, want, D) ==
  LET tail == {w \in Present(q) :
                 Cardinality({v \in Present(q) : v > w}) < HistoryTail}
      idle == {w \in Present(q) \ tail :
                 SettledHistory(q[w]) /\ ~Frozen(q[w], D) /\ ~Needed(q[w], want)}
  IN  [w \in Wakes |->
         CASE w \in idle /\ q[w].at = 0 -> [q[w] EXCEPT !.at = 1]
           [] w \in idle /\ q[w].at = 3 -> NoBatch
           [] OTHER                     -> q[w]]

\* Wanted keys leave a batch that was never published and is frozen now.
SplitUnpublished(q, want, D) ==
  LET part(w) == Text(q[w], want)
      mixed == {w \in Present(q) :
                  /\ Frozen(q[w], D) /\ ~q[w].released
                  /\ q[w].status = "pending" /\ native[w].status = "none"
                  /\ part(w) # {}}
      source(w) == {m \in mixed : w = Made(q) + Cardinality({v \in mixed : v <= m})}
  IN  [w \in Wakes |->
         IF w \in mixed
         THEN [q[w] EXCEPT !.ids = @ \ part(w), !.coalesced = @ \ part(w)]
         ELSE IF source(w) # {} THEN NewBatch(part(Min(source(w)))) ELSE q[w]]

\* A page that supplied the messages S.
ReadBoundary(q, S, want, D) ==
  LET c == Collect(q, want, D)
      read(w) == c[w].ids \cap S \cap want
  IN  Settle([w \in Wakes |->
                [c[w] EXCEPT !.checked = @ \cup read(w),
                             !.sealed = @ \/ read(w) # {}]], want, D)

-----------------------------------------------------------------------------
(* The holder of the gate.  Every RPC reconciles, a tick reconciles and      *)
(* delivers.  Only the native queue is shared with the consumer, so what     *)
(* the holder does to it between two checkpoints is one step.                *)

Misfortune(kind) ==
  kind \in Troubles /\ trouble < MaxTrouble /\ trouble' = trouble + 1
Room == made + Cardinality(TaskKeys) + 1 <= MaxWakes

\* An event nobody has claimed is rewritten, or retracted when no key of its
\* batch is wanted any more.
Updated(e, b, want) ==
  IF e.status # "pending" THEN e
  ELSE IF Active(b, want) THEN [e EXCEPT !.text = Text(b, want)]
  ELSE [e EXCEPT !.status = "cancelled"]

ReconciledStatus(e, b, want) ==
  CASE e.status # "none" -> NativeStatus(e)
    [] e.status = "none" /\ b.status = "pending" /\ ~Active(b, want) -> "cancelled"
    [] OTHER -> b.status

\* load, defer_task_keys, split, the first checkpoint, settle, and the events
\* of the batches.
Reconcile(q, want, D, then) ==
  \E s \in {SplitUnpublished(q, want, D)} : \E t \in {Settle(s, want, D)} :
    LET visited == {w \in Present(t) : ~Frozen(t[w], D) /\ ~SettledHistory(t[w])}
    IN  /\ file' = s
        /\ made' = Made(s)
        /\ native' = [w \in Wakes |->
                        IF w \in visited THEN Updated(native[w], t[w], want) ELSE native[w]]
        /\ gate' = [pc |-> then, want |-> want, deferred |-> D,
                    q |-> [w \in Wakes |->
                             IF w \in visited
                             THEN [t[w] EXCEPT !.status = ReconciledStatus(native'[w], t[w], want)]
                             ELSE t[w]]]

\* A tick or RPC that ends after the first checkpoint.
ReconcileStops(D) ==
  /\ gate.pc = "idle" /\ Room
  /\ Misfortune("crash")
  /\ file' = SplitUnpublished(file, Intents(D), D)
  /\ made' = Made(file')
  /\ UNCHANGED <<msg, dnd, gate, native, consumer, history>>

\* A batch with an event takes its status from there, and its delivery time.
Refreshed(b, e) ==
  LET r == [b EXCEPT !.status = NativeStatus(e)]
  IN  IF Delivered(r) /\ r.at = 0 THEN [r EXCEPT !.at = 1] ELSE r

\* Only the first open batch may be published; its successors wait.
Live(q) == {w \in Present(q) : ~Frozen(q[w], gate.deferred)}
Due(q) ==
  LET open == {w \in Live(q) : ~q[w].released /\ q[w].status # "cancelled"}
  IN  {w \in open : /\ w = Min(open) /\ q[w].status = "pending"
                    /\ native[w].status = "none"}

\* The queue once the batches V of it have been visited.
Visited(q, V) ==
  [w \in Wakes |->
    IF w \in V \cap Live(q) /\ ~SettledHistory(q[w]) /\ native[w].status # "none"
    THEN Refreshed(q[w], native[w]) ELSE q[w]]

\* A visit to every batch, in order, of the queue the third checkpoint saved.
\* Just before a publication there is one more checkpoint; the publication may
\* fail, and the session may have been replaced since the tick looked at it.
Visit(q) ==
  \/ \E w \in Due(q) :
       /\ file' = Visited(q, 1 .. w - 1)
       /\ native' = [native EXCEPT ![w] = Hint(Text(q[w], gate.want))]
       /\ gate' = [gate EXCEPT !.pc = "save", !.q =
                     [Visited(q, Wakes) EXCEPT ![w].status = "native_pending"]]
       /\ UNCHANGED trouble
  \/ /\ IF Due(q) = {} THEN UNCHANGED trouble ELSE Misfortune("replaced")
     /\ file' = q
     /\ gate' = [gate EXCEPT !.pc = "save", !.q = Visited(q, Wakes)]
     /\ UNCHANGED native
  \/ /\ Misfortune("crash")
     /\ \E w \in Due(q) : file' = Visited(q, 1 .. w - 1)
     /\ gate' = NoGate
     /\ UNCHANGED native

\* The rest of a tick: the second checkpoint, expire, collect, compact, the
\* third, and the visits.
Deliver ==
  /\ gate.pc = "deliver"
  /\ \E x \in {ExpireLatches(gate.q, gate.deferred)} :
     \E c \in {Collect(x, gate.want, gate.deferred)} :
     \E q \in {CompactHistory(c, gate.want, gate.deferred)} :
       made' = Made(q) /\ Visit(q)
  /\ handed' = handed \cup UNION {Orphans(gate.q[w], gate.deferred) : w \in Wakes}
  /\ UNCHANGED <<msg, dnd, consumer, sent, gaps, hidden>>

\* The last checkpoint.
Save ==
  /\ gate.pc = "save"
  /\ file' = gate.q
  /\ gate' = NoGate
  /\ UNCHANGED <<msg, dnd, made, native, consumer, trouble, history>>

Tick(D) ==
  /\ gate.pc = "idle" /\ Room
  /\ Reconcile(file, Intents(D), D, "deliver")
  /\ UNCHANGED <<msg, dnd, consumer, trouble, history>>

\* A failed checkpoint ends a tick or RPC; a crash ends the daemon with it.
GateLost ==
  /\ gate.pc # "idle"
  /\ Misfortune("crash")
  /\ gate' = NoGate
  /\ UNCHANGED <<msg, dnd, file, made, native, consumer, history>>

-----------------------------------------------------------------------------
(* The session's RPCs and the messages that reach it. *)

Arrive(k) ==
  /\ msg[k] = "none"
  /\ msg' = [msg EXCEPT ![k] = "unread"]
  /\ gaps' = IF dnd THEN gaps \cup {k} ELSE gaps
  /\ UNCHANGED <<dnd, file, made, gate, native, consumer, trouble, sent, handed, hidden>>

\* Wakes the consumer has taken though the queue still calls them pending.
Unnoticed == {w \in Wakes : file[w].status = "pending"
                            /\ native[w].status \notin {"none", "pending", "cancelled"}}

\* messaging.read supplies a page; messaging.mark_read, or the receipt of a
\* page, moves the read cursor.
ReadPage(S, D) ==
  /\ gate.pc = "idle" /\ Room
  /\ S \subseteq {k \in Keys : msg[k] = "unread"} /\ S # {}
  /\ msg' = [k \in Keys |-> IF k \in S THEN "fetched" ELSE msg[k]]
  /\ \E q \in {ReadBoundary(file, S, Intents(D), D)} :
       /\ Reconcile(q, Intents(D), D, "save")
       /\ hidden' = hidden \cup UNION {q[w].ids \ Covered(file) : w \in Unnoticed}
  /\ UNCHANGED <<dnd, consumer, trouble, sent, handed, gaps>>

MarkRead(S, D) ==
  /\ gate.pc = "idle" /\ Room
  /\ S \subseteq Unread /\ S # {}
  /\ msg' = [k \in Keys |-> IF k \in S THEN "read" ELSE msg[k]]
  /\ Reconcile(file, Intents(D) \ S, D, "save")
  /\ UNCHANGED <<dnd, consumer, trouble, history>>

\* Neither is undone when the wake queue cannot be saved.
ReadUnsaved(S, to) ==
  /\ gate.pc = "idle"
  /\ S \subseteq {k \in Keys : msg[k] = "unread"} /\ S # {}
  /\ Misfortune("crash")
  /\ msg' = [k \in Keys |-> IF k \in S THEN to ELSE msg[k]]
  /\ UNCHANGED <<dnd, file, made, gate, native, consumer, history>>

\* messaging.follow: do not disturb, on or off.
SetDnd(D) ==
  /\ gate.pc = "idle" /\ Room
  /\ Misfortune("dnd")
  /\ dnd' = ~dnd
  /\ gaps' = gaps \cup Unread
  /\ Reconcile(file, IF dnd THEN Unread \ D ELSE {}, D, "save")
  /\ UNCHANGED <<msg, consumer, sent, handed, hidden>>

-----------------------------------------------------------------------------
(* The consumer, and time. *)

SetEvent(w, status) ==
  native' = [native EXCEPT ![w].status = status, ![w].old = FALSE]

\* It takes the consumer lock and cannot know what became of an open claim.
\* Mutant: the claim is taken back and submitted again.
MutantConsumerStart ==
  /\ ~consumer
  /\ consumer' = TRUE
  /\ native' = [w \in Wakes |->
                  IF native[w].status = "submitting"
                  THEN [native[w] EXCEPT !.status = "pending"] ELSE native[w]]
  /\ UNCHANGED <<msg, dnd, file, made, gate, trouble, history>>
ConsumerStart ==
  /\ ~consumer
  /\ consumer' = TRUE
  /\ native' = [w \in Wakes |->
                  IF native[w].status = "submitting"
                  THEN [native[w] EXCEPT !.status = "uncertain", !.old = FALSE]
                  ELSE native[w]]
  /\ UNCHANGED <<msg, dnd, file, made, gate, trouble, history>>

Claim(w) ==
  /\ consumer
  /\ \A v \in Wakes : native[v].status # "submitting"
  /\ native[w].status = "pending"
  /\ SetEvent(w, "submitting")
  /\ UNCHANGED <<msg, dnd, file, made, gate, consumer, trouble, history>>

\* The frame has gone to the agent's client.
Submission(w) ==
  /\ sent' = [sent EXCEPT ![w] = @ + 1]
  /\ UNCHANGED <<handed, gaps, hidden>>

\* The adapter returns, or it fails in a way that leaves open whether the frame
\* has gone.
Submit(w) ==
  /\ consumer /\ native[w].status = "submitting"
  /\ \/ SetEvent(w, "submitted") /\ Submission(w) /\ UNCHANGED trouble
     \/ /\ SetEvent(w, "uncertain") /\ Misfortune("consumer")
        /\ Submission(w) \/ UNCHANGED history
  /\ UNCHANGED <<msg, dnd, file, made, gate, consumer>>

\* NotSubmitted: certain that nothing was sent.
NotSubmitted(w) ==
  /\ consumer /\ native[w].status = "submitting"
  /\ Misfortune("consumer")
  /\ SetEvent(w, "pending")
  /\ UNCHANGED <<msg, dnd, file, made, gate, consumer, history>>

\* A consumer with an open claim may die before the send or after it.
ConsumerDies ==
  /\ consumer
  /\ Misfortune("consumer")
  /\ consumer' = FALSE
  /\ \/ \E w \in Wakes : native[w].status = "submitting" /\ Submission(w)
     \/ UNCHANGED history
  /\ UNCHANGED <<msg, dnd, file, made, gate, native>>

\* The marker turns up in the transcript, where only a frame that went puts it.
Observe(w) ==
  /\ consumer
  /\ sent[w] > 0
  /\ native[w].status \in {"submitted", "uncertain"}
  /\ SetEvent(w, "observed")
  /\ UNCHANGED <<msg, dnd, file, made, gate, consumer, trouble, history>>

\* Rotation retires a receipt that nobody confirmed for a day.
RetireStale(w) ==
  /\ native[w].status \in {"submitted", "uncertain"} /\ native[w].old
  /\ SetEvent(w, "cancelled")
  /\ UNCHANGED <<msg, dnd, file, made, gate, consumer, trouble, history>>

\* LATCH_HORIZON_SECS pass since a delivery.
Minutes(w) ==
  /\ gate.pc = "idle"
  /\ file[w].at = 1 /\ ~file[w].released
  /\ file' = [file EXCEPT ![w].at = 2]
  /\ UNCHANGED <<msg, dnd, made, gate, native, consumer, trouble, history>>

\* A day passes, in which ticks have run: no delivered wake is still latched.
Day ==
  /\ gate.pc = "idle"
  /\ Misfortune("day")
  /\ \A w \in Wakes :
       native[w].status \in {"submitting", "submitted", "uncertain", "observed"}
         => file[w].released \/ file[w].status = "none"
  /\ file' = [w \in Wakes |-> IF file[w].at = 0 THEN file[w]
                              ELSE [file[w] EXCEPT !.at = 3]]
  /\ native' = [w \in Wakes |-> IF native[w].status = "none" THEN native[w]
                                ELSE [native[w] EXCEPT !.old = TRUE]]
  /\ UNCHANGED <<msg, dnd, made, gate, consumer, history>>

-----------------------------------------------------------------------------
WakeNext ==
  \/ Deliver \/ Save
  \/ GateLost
  \/ \E D \in SUBSET TaskKeys :
       \/ Tick(D) \/ ReconcileStops(D) \/ SetDnd(D)
       \/ \E S \in SUBSET Keys : ReadPage(S, D) \/ MarkRead(S, D)
  \/ \E S \in SUBSET Keys, to \in {"fetched", "read"} : ReadUnsaved(S, to)
  \/ \E k \in Keys : Arrive(k)
  \/ ConsumerStart \/ ConsumerDies
  \/ \E w \in Wakes : \/ Claim(w) \/ Submit(w) \/ NotSubmitted(w)
                      \/ Observe(w) \/ RetireStale(w) \/ Minutes(w)
  \/ Day

WakeSpec == WakeInit /\ [][WakeNext]_vars

\* The gate is given back, ticks come again and again and in the end find
\* every authority known; a consumer is restarted and works; time passes.
FairWakes ==
  /\ WakeSpec
  /\ WF_vars(Deliver \/ Save)
  /\ SF_vars(Tick({}))
  /\ WF_vars(ConsumerStart \/ \E w \in Wakes : Claim(w) \/ Submit(w))
  /\ SF_vars(\E w \in Wakes : Minutes(w))

-----------------------------------------------------------------------------
\* Batches, events and the gate have the shape the code gives them: what a
\* batch coalesced is part of it (Batch.coalesced of Batch.ids).
BatchOK(b) ==
  /\ b.ids \subseteq Keys /\ b.coalesced \subseteq b.ids /\ b.checked \subseteq Keys
  /\ b.status \in {"none", "pending", "native_pending", "submitting",
                   "submitted_unverified", "uncertain", "confirmed", "cancelled"}
  /\ b.sealed \in BOOLEAN /\ b.released \in BOOLEAN /\ b.at \in 0 .. 3
WakeTypeOK ==
  /\ msg \in [Keys -> {"none", "unread", "fetched", "read"}]
  /\ dnd \in BOOLEAN /\ consumer \in BOOLEAN
  /\ made \in 0 .. MaxWakes /\ trouble \in 0 .. MaxTrouble
  /\ \A w \in Wakes : BatchOK(file[w]) /\ BatchOK(gate.q[w])
  /\ native \in [Wakes -> [status : {"none", "pending", "submitting", "submitted",
                                     "uncertain", "observed", "cancelled"},
                           text : SUBSET Keys, old : BOOLEAN]]
  /\ gate.pc \in {"idle", "deliver", "save"}

\* No wake is submitted to the agent twice, whatever of the daemon and the
\* consumer dies or fails in between: an event claimed by a consumer that is
\* gone is uncertain, never pending again.
SentOnce == \A w \in Wakes : sent[w] <= 1

\* The wakes whose submitted text counted a message.
Told(k) == {w \in Wakes : sent[w] > 0 /\ k \in native[w].text}

\* No message is announced by two wakes, though batches are split, expired,
\* compacted and rebuilt from a file that may be older than the events: except
\* one that an expired latch handed to a successor, and one that was unread
\* during a do-not-disturb gap.
ToldOnce ==
  \A k \in Keys : Cardinality(Told(k)) > 1 => k \in handed \cup gaps

\* A wake that has an event, is not past its latch horizon and counts a
\* message that the session has not looked at and that no successor got.
Awaiting(w) ==
  /\ native[w].status \notin {"none", "cancelled"}
  /\ file[w].at < 2
  /\ \E k \in native[w].text : msg[k] = "unread" /\ k \notin gaps \cup handed

\* While one wake waits for the session no second one is published (the latch
\* and "a successor waits"), even when the daemon ends between publishing and
\* saving; a batch with a key of a task, which may be of unknown authority for
\* a while and freeze it, may overtake or be overtaken.
QuietWhileLatched ==
  \A v, w \in Wakes :
    Awaiting(v) /\ Awaiting(w) /\ v # w =>
      (file[v].ids \cup file[w].ids) \cap TaskKeys # {}

\* The price of SentOnce: a wake whose claim ended without a send is uncertain,
\* and nothing sends it again.  The messages its text counts stay covered by
\* its batch, but for those that its batch has to hand to a successor.
Lost(k) ==
  \E w \in Wakes :
    /\ native[w].status = "uncertain" /\ sent[w] = 0
    /\ k \in native[w].text /\ k \in file[w].ids \ file[w].coalesced

\* Every unread message is looked at or announced by a wake that went to the
\* agent's client in the end, across crashes of the daemon and of the consumer;
\* not one that a gap cancelled, nor one that messaging.read added to a wake it
\* did not know was out, nor one lost with an ambiguous send that sent nothing.
EveryMessageIsTold ==
  \A k \in Keys :
    msg[k] = "unread" ~>
      msg[k] # "unread" \/ Told(k) # {} \/ k \in gaps \cup hidden \/ Lost(k)
=============================================================================
