------------------------ MODULE WakeDeliveryProofs ------------------------
(***************************************************************************)
(* For any messages, any number of wakes, any authority of tasks at any    *)
(* tick, and any number and mixture of crashes, failures and gaps: no wake *)
(* is submitted to the agent twice, no message is counted by two submitted *)
(* wakes, and no second wake waits for the session beside a first.         *)
(* SentOnce rests on the native events and the consumer alone.  The other  *)
(* two rest on one invariant (Good) of the queue on disk and of the gate's *)
(* copy alike, so that it does not matter from which of the two a later    *)
(* step goes on.                                                           *)
(***************************************************************************)
EXTENDS WakeDelivery, FiniteSetTheorems, WellFoundedInduction, TLAPS

Statuses == {"none", "pending", "submitting", "submitted", "uncertain",
             "observed", "cancelled"}

\* The events are records of three fields, whatever text one has.
EventShape ==
  /\ native = [w \in Wakes |-> native[w]]
  /\ \A w \in Wakes :
       /\ native[w] = [status |-> native[w].status, text |-> native[w].text,
                       old |-> native[w].old]
       /\ native[w].status \in Statuses

\* An event that may still be claimed, or is claimed by the running consumer,
\* has not been submitted.
UnsentBefore ==
  \A w \in Wakes :
    /\ sent[w] \in 0 .. 1
    /\ native[w].status \in {"none", "pending"} => sent[w] = 0
    /\ native[w].status = "submitting" /\ consumer => sent[w] = 0

SendInv ==
  /\ EventShape
  /\ sent = [w \in Wakes |-> sent[w]]
  /\ consumer \in BOOLEAN
  /\ UnsentBefore

\* What the daemon's steps do to the events: each keeps its status, is
\* retracted before it was claimed, or is published where there was none.
Daemonic ==
  /\ EventShape'
  /\ \A w \in Wakes :
       \/ native'[w].status = native[w].status
       \/ native[w].status = "pending" /\ native'[w].status = "cancelled"
       \/ native[w].status = "none" /\ native'[w].status = "pending"
  /\ UNCHANGED <<consumer, sent>>

\* Such a step breaks nothing.
LEMMA DaemonicKeeps == SendInv /\ Daemonic => SendInv'
<1> SUFFICES ASSUME SendInv, Daemonic PROVE SendInv'
  OBVIOUS
<1>1. EventShape' /\ (sent = [w \in Wakes |-> sent[w]])' /\ (consumer \in BOOLEAN)'
  BY DEF SendInv, Daemonic
<1>2. ASSUME NEW w \in Wakes
      PROVE  /\ sent'[w] \in 0 .. 1
             /\ native'[w].status \in {"none", "pending"} => sent'[w] = 0
             /\ native'[w].status = "submitting" /\ consumer' => sent'[w] = 0
  BY DEF SendInv, UnsentBefore, Daemonic
<1> QED BY <1>1, <1>2 DEF SendInv, UnsentBefore

\* The events after a rewrite or retraction of those nobody has claimed.
LEMMA ReconcileIsDaemonic ==
  ASSUME EventShape, NEW STATE q, NEW STATE want, NEW D, NEW then,
         Reconcile(q, want, D, then), UNCHANGED <<consumer, sent>>
  PROVE  Daemonic
<1>1. PICK s \in {SplitUnpublished(q, want, D)} : \E t \in {Settle(s, want, D)} :
        LET visited == {w \in Present(t) : ~Frozen(t[w], D) /\ ~SettledHistory(t[w])}
        IN  native' = [w \in Wakes |->
                        IF w \in visited THEN Updated(native[w], t[w], want) ELSE native[w]]
  BY DEF Reconcile
<1>2. PICK t \in {Settle(s, want, D)} :
        LET visited == {w \in Present(t) : ~Frozen(t[w], D) /\ ~SettledHistory(t[w])}
        IN  native' = [w \in Wakes |->
                        IF w \in visited THEN Updated(native[w], t[w], want) ELSE native[w]]
  BY <1>1
<1> DEFINE visited == {w \in Present(t) : ~Frozen(t[w], D) /\ ~SettledHistory(t[w])}
<1>3. native' = [w \in Wakes |->
                  IF w \in visited THEN Updated(native[w], t[w], want) ELSE native[w]]
  BY <1>2
<1> HIDE DEF visited
<1>4. ASSUME NEW w \in Wakes
      PROVE  \/ native'[w] = native[w]
             \/ /\ native[w].status = "pending"
                /\ \/ native'[w] = [native[w] EXCEPT !.text = Text(t[w], want)]
                   \/ native'[w] = [native[w] EXCEPT !.status = "cancelled"]
  <2>1. CASE w \in visited
    BY <1>3, <2>1 DEF Updated
  <2>2. CASE w \notin visited
    BY <1>3, <2>2
  <2> QED BY <2>1, <2>2
<1>5. ASSUME NEW w \in Wakes
      PROVE  /\ native'[w] = [status |-> native'[w].status, text |-> native'[w].text,
                              old |-> native'[w].old]
             /\ native'[w].status \in Statuses
             /\ \/ native'[w].status = native[w].status
                \/ native[w].status = "pending" /\ native'[w].status = "cancelled"
  <2> DEFINE e == native[w]
  <2>0. e = [status |-> e.status, text |-> e.text, old |-> e.old] /\ e.status \in Statuses
    BY DEF EventShape
  <2>1. CASE native'[w] = e
    BY <2>0, <2>1
  <2>2. CASE e.status = "pending" /\ native'[w] = [e EXCEPT !.text = Text(t[w], want)]
    <3> DEFINE x == Text(t[w], want)
    <3> HIDE DEF e, x
    <3>1. native'[w] = [status |-> e.status, text |-> x, old |-> e.old]
      BY <2>0, <2>2 DEF x
    <3> QED BY <2>0, <3>1, <2>2 DEF Statuses, e
  <2>3. CASE e.status = "pending" /\ native'[w] = [e EXCEPT !.status = "cancelled"]
    <3> HIDE DEF e
    <3>1. native'[w] = [status |-> "cancelled", text |-> e.text, old |-> e.old]
      BY <2>0, <2>3
    <3> QED BY <3>1, <2>3 DEF Statuses, e
  <2> QED BY <1>4, <2>1, <2>2, <2>3
<1>6. native' = [w \in Wakes |-> native'[w]]
  BY <1>3
<1> QED BY <1>5, <1>6 DEF Daemonic, EventShape

\* The delivering half of a tick publishes one event where there was none.
LEMMA DeliverIsDaemonic ==
  ASSUME EventShape, Deliver
  PROVE  Daemonic
<1>1. UNCHANGED <<consumer, sent>>
  BY DEF Deliver
<1>2. PICK q : Visit(q)
  BY DEF Deliver
<1>3. \/ \E w \in Due(q) : native' = [native EXCEPT ![w] = Hint(Text(q[w], gate.want))]
      \/ UNCHANGED native
  BY <1>2 DEF Visit
<1>4. CASE UNCHANGED native
  BY <1>1, <1>4 DEF Daemonic, EventShape
<1>5. ASSUME NEW w \in Due(q), native' = [native EXCEPT ![w] = Hint(Text(q[w], gate.want))]
      PROVE  Daemonic
  <2> DEFINE x == Text(q[w], gate.want)
  <2>1. w \in Wakes /\ native[w].status = "none"
    BY DEF Due, Live, Present
  <2> HIDE DEF x
  <2>2. native' = [v \in Wakes |->
                    IF v = w THEN [status |-> "pending", text |-> x, old |-> FALSE]
                    ELSE native[v]]
    BY <1>5 DEF EventShape, Hint, x
  <2> QED BY <1>1, <2>1, <2>2 DEF Daemonic, EventShape, Statuses
<1> QED BY <1>3, <1>4, <1>5

\* One event changes its status, and the consumer is there: what Claim, Submit,
\* NotSubmitted and Observe do to it.
LEMMA EventStep ==
  ASSUME SendInv, NEW w \in Wakes, NEW to \in Statuses, SetEvent(w, to)
  PROVE  /\ EventShape'
         /\ \A v \in Wakes : native'[v].status = IF v = w THEN to ELSE native[v].status
<1> DEFINE e == native[w]
<1>1. e = [status |-> e.status, text |-> e.text, old |-> e.old]
  BY DEF SendInv, EventShape
<1>2. native' = [v \in Wakes |-> IF v = w THEN native'[w] ELSE native[v]]
  BY DEF SetEvent, SendInv, EventShape
<1>3. \E x, y : native'[w] = [status |-> to, text |-> x, old |-> y]
  <2>1. native'[w] = [e EXCEPT !.status = to, !.old = FALSE]
    BY DEF SetEvent, SendInv, EventShape
  <2> HIDE DEF e
  <2> QED BY <1>1, <2>1
<1> QED BY <1>2, <1>3 DEF SendInv, EventShape

\* The consumer's own steps.
LEMMA ConsumerKeeps ==
  ASSUME SendInv,
         \/ ConsumerStart \/ ConsumerDies
         \/ \E w \in Wakes : Claim(w) \/ Submit(w) \/ NotSubmitted(w)
                          \/ Observe(w) \/ RetireStale(w)
  PROVE  SendInv'
<1>1. CASE ConsumerStart
  <2>1. ASSUME NEW w \in Wakes
        PROVE  /\ native'[w] = [status |-> native'[w].status,
                                text |-> native'[w].text, old |-> native'[w].old]
               /\ \/ native'[w].status = native[w].status /\ native[w].status # "submitting"
                  \/ native'[w].status = "uncertain"
    <3> DEFINE e == native[w]
    <3>1. e = [status |-> e.status, text |-> e.text, old |-> e.old]
      BY DEF SendInv, EventShape
    <3>2. native'[w] = IF e.status = "submitting"
                       THEN [e EXCEPT !.status = "uncertain", !.old = FALSE] ELSE e
      BY <1>1 DEF ConsumerStart
    <3> HIDE DEF e
    <3>3. \/ native'[w] = e /\ e.status # "submitting"
          \/ native'[w] = [status |-> "uncertain", text |-> e.text, old |-> FALSE]
      BY <3>1, <3>2
    <3> QED BY <3>1, <3>3 DEF e
  <2>2. EventShape'
    BY <1>1, <2>1 DEF ConsumerStart, SendInv, EventShape, Statuses
  <2> QED BY <1>1, <2>1, <2>2 DEF ConsumerStart, SendInv, UnsentBefore, history
<1>2. CASE ConsumerDies
  <2>1. EventShape' /\ consumer' = FALSE
    BY <1>2 DEF ConsumerDies, SendInv, EventShape
  <2>2. CASE UNCHANGED sent
    BY <1>2, <2>1, <2>2 DEF ConsumerDies, SendInv, UnsentBefore
  <2>3. ASSUME NEW w \in Wakes, native[w].status = "submitting",
               sent' = [sent EXCEPT ![w] = @ + 1]
        PROVE  SendInv'
    <3>1. sent[w] = 0
      BY <1>2, <2>3 DEF ConsumerDies, SendInv, UnsentBefore
    <3>2. sent' = [v \in Wakes |-> IF v = w THEN 1 ELSE sent[v]]
      BY <2>3, <3>1 DEF SendInv
    <3>3. sent' = [v \in Wakes |-> sent'[v]]
      BY <3>2
    <3>4. ASSUME NEW v \in Wakes
          PROVE  /\ sent'[v] \in 0 .. 1
                 /\ native[v].status \in {"none", "pending"} => sent'[v] = 0
      <4>1. CASE v = w
        BY <2>3, <3>2, <4>1
      <4>2. CASE v # w
        BY <3>2, <4>2 DEF SendInv, UnsentBefore
      <4> QED BY <4>1, <4>2
    <3>5. UNCHANGED native
      BY <1>2 DEF ConsumerDies
    <3> QED BY <2>1, <3>3, <3>4, <3>5 DEF SendInv, UnsentBefore
  <2> QED BY <1>2, <2>2, <2>3 DEF ConsumerDies, Submission, history
<1>3. ASSUME NEW w \in Wakes, Claim(w) \/ NotSubmitted(w)
      PROVE  SendInv'
  <2>1. PICK to \in {"submitting", "pending"} : SetEvent(w, to)
    BY <1>3 DEF Claim, NotSubmitted
  <2>2. to \in Statuses
    BY DEF Statuses
  <2>3. /\ EventShape'
        /\ \A v \in Wakes : native'[v].status = IF v = w THEN to ELSE native[v].status
    BY <2>1, <2>2, EventStep
  <2>4. consumer /\ sent[w] = 0 /\ UNCHANGED <<consumer, sent>>
    BY <1>3 DEF Claim, NotSubmitted, SendInv, UnsentBefore, history
  <2> QED BY <2>3, <2>4 DEF SendInv, UnsentBefore
<1>4. ASSUME NEW w \in Wakes, Submit(w)
      PROVE  SendInv'
  <2>1. PICK to \in {"submitted", "uncertain"} : SetEvent(w, to)
    BY <1>4 DEF Submit
  <2>2. to \in Statuses
    BY DEF Statuses
  <2>3. /\ EventShape'
        /\ \A v \in Wakes : native'[v].status = IF v = w THEN to ELSE native[v].status
    BY <2>1, <2>2, EventStep
  <2>4. sent[w] = 0 /\ UNCHANGED consumer
    BY <1>4 DEF Submit, SendInv, UnsentBefore
  <2>5. \/ sent' = [v \in Wakes |-> IF v = w THEN 1 ELSE sent[v]]
        \/ sent' = sent
    BY <1>4, <2>4 DEF Submit, Submission, SendInv, history
  <2> QED BY <2>3, <2>4, <2>5 DEF SendInv, UnsentBefore
<1>5. ASSUME NEW w \in Wakes, Observe(w) \/ RetireStale(w)
      PROVE  SendInv'
  <2>1. PICK to \in {"observed", "cancelled"} : SetEvent(w, to)
    BY <1>5 DEF Observe, RetireStale
  <2>2. to \in Statuses
    BY DEF Statuses
  <2>3. /\ EventShape'
        /\ \A v \in Wakes : native'[v].status = IF v = w THEN to ELSE native[v].status
    BY <2>1, <2>2, EventStep
  <2>4. UNCHANGED <<consumer, sent>>
    BY <1>5 DEF Observe, RetireStale, history
  <2> QED BY <2>3, <2>4 DEF SendInv, UnsentBefore
<1> QED BY <1>1, <1>2, <1>3, <1>4, <1>5

\* Every step of the system keeps SendInv.
LEMMA SendStep == SendInv /\ [WakeNext]_vars => SendInv'
<1> SUFFICES ASSUME SendInv, [WakeNext]_vars PROVE SendInv'
  OBVIOUS
<1>0. EventShape
  BY DEF SendInv
<1>1. CASE Deliver
  BY <1>0, <1>1, DeliverIsDaemonic, DaemonicKeeps
<1>2. ASSUME UNCHANGED <<native, consumer, sent>> PROVE SendInv'
  BY <1>2 DEF SendInv, EventShape, UnsentBefore
<1>3. CASE Save \/ GateLost
  BY <1>2, <1>3 DEF Save, GateLost, history
<1>4. ASSUME NEW D \in SUBSET TaskKeys, Tick(D) PROVE SendInv'
  <2>1. Reconcile(file, Intents(D), D, "deliver") /\ UNCHANGED <<consumer, sent>>
    BY <1>4 DEF Tick, history
  <2> QED BY <1>0, <2>1, ReconcileIsDaemonic, DaemonicKeeps
<1>5. ASSUME NEW D \in SUBSET TaskKeys, ReconcileStops(D) PROVE SendInv'
  BY <1>2, <1>5 DEF ReconcileStops, history
<1>6. ASSUME NEW D \in SUBSET TaskKeys, SetDnd(D) PROVE SendInv'
  <2> DEFINE want == IF dnd THEN Unread \ D ELSE {}
  <2>1. Reconcile(file, want, D, "save") /\ UNCHANGED <<consumer, sent>>
    BY <1>6 DEF SetDnd
  <2> QED BY <1>0, <2>1, ReconcileIsDaemonic, DaemonicKeeps
<1>7. ASSUME NEW D \in SUBSET TaskKeys, NEW S \in SUBSET Keys, ReadPage(S, D)
      PROVE  SendInv'
  <2>1. UNCHANGED <<consumer, sent>>
    BY <1>7 DEF ReadPage
  <2>2. PICK q : Reconcile(q, Intents(D), D, "save")
    BY <1>7 DEF ReadPage
  <2> QED BY <1>0, <2>1, <2>2, ReconcileIsDaemonic, DaemonicKeeps
<1>8. ASSUME NEW D \in SUBSET TaskKeys, NEW S \in SUBSET Keys, MarkRead(S, D)
      PROVE  SendInv'
  <2>1. Reconcile(file, Intents(D) \ S, D, "save") /\ UNCHANGED <<consumer, sent>>
    BY <1>8 DEF MarkRead, history
  <2> QED BY <1>0, <2>1, ReconcileIsDaemonic, DaemonicKeeps
<1>9. ASSUME NEW S \in SUBSET Keys, NEW to \in {"fetched", "read"}, ReadUnsaved(S, to)
      PROVE  SendInv'
  BY <1>2, <1>9 DEF ReadUnsaved, history
<1>10. ASSUME NEW k \in Keys, Arrive(k) PROVE SendInv'
  BY <1>2, <1>10 DEF Arrive
<1>11. CASE \/ ConsumerStart \/ ConsumerDies
            \/ \E w \in Wakes : Claim(w) \/ Submit(w) \/ NotSubmitted(w)
                             \/ Observe(w) \/ RetireStale(w)
  BY <1>11, ConsumerKeeps
<1>12. ASSUME NEW w \in Wakes, Minutes(w) PROVE SendInv'
  BY <1>2, <1>12 DEF Minutes, history
<1>13. CASE Day
  <2>1. UNCHANGED <<consumer, sent>>
    BY <1>13 DEF Day, history
  <2>2. native' = [w \in Wakes |-> native'[w]]
    BY <1>13 DEF Day
  <2>3. ASSUME NEW w \in Wakes
        PROVE  /\ native'[w] = [status |-> native'[w].status,
                                text |-> native'[w].text, old |-> native'[w].old]
               /\ native'[w].status = native[w].status
    <3> DEFINE e == native[w]
    <3>1. e = [status |-> e.status, text |-> e.text, old |-> e.old]
      BY <1>0 DEF EventShape
    <3>2. native'[w] = IF e.status = "none" THEN e ELSE [e EXCEPT !.old = TRUE]
      BY <1>13 DEF Day
    <3> HIDE DEF e
    <3>3. \/ native'[w] = e
          \/ native'[w] = [status |-> e.status, text |-> e.text, old |-> TRUE]
      BY <3>1, <3>2
    <3> QED BY <3>1, <3>3 DEF e
  <2>4. Daemonic
    BY <1>0, <2>1, <2>2, <2>3 DEF Daemonic, EventShape
  <2> QED BY <2>4, DaemonicKeeps
<1>14. CASE UNCHANGED vars
  BY <1>2, <1>14 DEF vars
<1> QED
  BY <1>1, <1>3, <1>4, <1>5, <1>6, <1>7, <1>8, <1>9, <1>10, <1>11, <1>12, <1>13,
     <1>14
  DEF WakeNext

LEMMA SendStart == WakeInit => SendInv
<1> SUFFICES ASSUME WakeInit PROVE SendInv
  OBVIOUS
<1>1. \A w \in Wakes : /\ native[w] = [status |-> "none", text |-> {}, old |-> FALSE]
                       /\ sent[w] = 0
  BY DEF WakeInit, NoEvent
<1>2. EventShape
  BY <1>1 DEF WakeInit, EventShape, Statuses
<1>3. consumer \in BOOLEAN /\ sent = [w \in Wakes |-> sent[w]]
  BY DEF WakeInit
<1> QED BY <1>1, <1>2, <1>3 DEF SendInv, UnsentBefore

\* No wake is submitted to the agent twice, whatever dies, fails or is restored
\* on the daemon's side: a claimed event is never pending again unless its
\* sender knows that nothing was sent.
THEOREM SentSafe == WakeSpec => []SentOnce
<1>1. SendInv => SentOnce
  BY DEF SendInv, UnsentBefore, SentOnce
<1> QED BY <1>1, SendStart, SendStep, PTL DEF WakeSpec


-----------------------------------------------------------------------------
(* The order of the wakes: least and greatest members of sets of numbers.    *)

\* A set of natural numbers has a least member, which Min is.
LEMMA MinIsMember ==
  ASSUME NEW S, S \subseteq Nat, S # {}
  PROVE  Min(S) \in S /\ \A y \in S : Min(S) =< y
<1>1. PICK x \in S : \A y \in S : ~ (<<y, x>> \in OpToRel(<, Nat))
  BY NatLessThanWellFounded, WFMin, Zenon
<1>2. \A y \in S : x =< y
  <2> TAKE y \in S
  <2>1. x \in Nat /\ y \in Nat
    OBVIOUS
  <2>2. ~ (y < x)
    BY <1>1, <2>1 DEF OpToRel
  <2> QED BY <2>1, <2>2
<1> QED BY <1>2 DEF Min

\* So has one that is bounded a greatest.
LEMMA MaxIsMember ==
  ASSUME NEW S, S \subseteq Nat, S # {}, NEW n \in Nat, \A y \in S : y =< n
  PROVE  Max(S) \in S /\ \A y \in S : y =< Max(S)
<1> DEFINE T == {n - y : y \in S}
<1>1. T \subseteq Nat /\ T # {}
  <2>1. \A y \in S : n - y \in Nat
    OBVIOUS
  <2>2. PICK y \in S : TRUE
    OBVIOUS
  <2>3. n - y \in T
    OBVIOUS
  <2> QED BY <2>1, <2>3
<1>2. Min(T) \in T /\ \A y \in T : Min(T) =< y
  BY <1>1, MinIsMember
<1>3. PICK x \in S : Min(T) = n - x
  BY <1>2
<1>4. \A y \in S : x >= y
  <2> TAKE y \in S
  <2>1. n - x =< n - y
    BY <1>2, <1>3
  <2> QED BY <2>1
<1>5. \E z \in S : \A y \in S : z >= y
  BY <1>4
<1>6. Max(S) \in S /\ \A y \in S : Max(S) >= y
  BY <1>5 DEF Max
<1> QED BY <1>6

\* The wakes there are after a step are those before and those in its queue.
LEMMA MadeBounds ==
  ASSUME WakeAssumption, made \in 0 .. MaxWakes, NEW q
  PROVE  /\ Made(q) \in 0 .. MaxWakes
         /\ made =< Made(q)
         /\ \A w \in Present(q) : w =< Made(q)
<1> DEFINE S == {made} \cup Present(q)
<1>1. S \subseteq Nat /\ S # {} /\ MaxWakes \in Nat /\ \A y \in S : y =< MaxWakes
  BY DEF WakeAssumption, Present, Wakes
<1>2. Max(S) \in S /\ \A y \in S : y =< Max(S)
  BY <1>1, MaxIsMember
<1>3. S \subseteq 0 .. MaxWakes
  BY DEF WakeAssumption, Present, Wakes
<1> QED BY <1>2, <1>3 DEF Made


-----------------------------------------------------------------------------
(* Queues of batches, and what the pure parts of delivery.rs do to one.      *)

BatchStatuses == {"none", "pending", "native_pending", "submitting",
                  "submitted_unverified", "uncertain", "confirmed", "cancelled"}
Batch == [ids : SUBSET Keys, status : BatchStatuses, checked : SUBSET Keys,
          coalesced : SUBSET Keys, sealed : BOOLEAN, released : BOOLEAN, at : 0 .. 3]
Queue == {q \in [Wakes -> Batch] : \A w \in Wakes : q[w].coalesced \subseteq q[w].ids}

LEMMA NoBatchFacts ==
  /\ NoBatch \in Batch
  /\ NoBatch.ids = {} /\ NoBatch.status = "none" /\ NoBatch.checked = {}
  /\ NoBatch.coalesced = {} /\ NoBatch.released = FALSE /\ NoBatch.at = 0
  BY DEF NoBatch, Batch, BatchStatuses

LEMMA NewBatchFacts ==
  ASSUME NEW i \in SUBSET Keys
  PROVE  /\ NewBatch(i) \in Batch
         /\ NewBatch(i).ids = i /\ NewBatch(i).status = "pending"
         /\ NewBatch(i).checked = {} /\ NewBatch(i).coalesced = {}
         /\ NewBatch(i).released = FALSE /\ NewBatch(i).at = 0
<1>1. NewBatch(i) = [ids |-> i, status |-> "pending", checked |-> {}, coalesced |-> {},
                     sealed |-> FALSE, released |-> FALSE, at |-> 0]
  <2> DEFINE n == NoBatch
  <2>1. n = [ids |-> {}, status |-> "none", checked |-> {}, coalesced |-> {},
             sealed |-> FALSE, released |-> FALSE, at |-> 0]
    BY DEF NoBatch
  <2>2. NewBatch(i) = [n EXCEPT !.ids = i, !.status = "pending"]
    BY DEF NewBatch
  <2> HIDE DEF n
  <2> QED BY <2>1, <2>2
<1> HIDE DEF NewBatch
<1> QED BY <1>1 DEF Batch, BatchStatuses

\* Settling a queue only releases batches, those in which nothing is wanted.
LEMMA SettleFacts ==
  ASSUME NEW q \in Queue, NEW want, NEW D, NEW r, r = Settle(q, want, D)
  PROVE  /\ r \in Queue
         /\ \A w \in Wakes :
              /\ r[w].ids = q[w].ids /\ r[w].status = q[w].status
              /\ r[w].checked = q[w].checked /\ r[w].coalesced = q[w].coalesced
              /\ r[w].sealed = q[w].sealed /\ r[w].at = q[w].at
              /\ r[w].released <=> \/ q[w].released
                                   \/ /\ w \in Present(q) /\ ~Frozen(q[w], D)
                                      /\ ~Active(q[w], want)
<1> DEFINE over(w) == q[w].released \/ /\ w \in Present(q) /\ ~Frozen(q[w], D)
                                       /\ ~Active(q[w], want)
<1>1. ASSUME NEW w \in Wakes
      PROVE  /\ r[w] \in Batch
             /\ r[w].ids = q[w].ids /\ r[w].status = q[w].status
             /\ r[w].checked = q[w].checked /\ r[w].coalesced = q[w].coalesced
             /\ r[w].sealed = q[w].sealed /\ r[w].at = q[w].at
             /\ r[w].released = over(w)
  <2> DEFINE b == q[w]
             x == over(w)
  <2>1. b \in Batch /\ x \in BOOLEAN
    BY DEF Queue, Batch
  <2>2. r[w] = [b EXCEPT !.released = x]
    BY DEF Settle
  <2> HIDE DEF b, x
  <2>3. /\ r[w] \in Batch
        /\ r[w].ids = b.ids /\ r[w].status = b.status
        /\ r[w].checked = b.checked /\ r[w].coalesced = b.coalesced
        /\ r[w].sealed = b.sealed /\ r[w].at = b.at
        /\ r[w].released = x
    BY <2>1, <2>2 DEF Batch
  <2> QED BY <2>3 DEF b, x
<1>2. r = [w \in Wakes |-> r[w]]
  BY DEF Settle
<1> HIDE DEF over
<1>3. \A w \in Wakes : r[w].coalesced \subseteq r[w].ids
  BY <1>1 DEF Queue
<1>4. r \in Queue
  BY <1>1, <1>2, <1>3 DEF Queue
<1> QED BY <1>1, <1>4 DEF over

\* New keys go to one batch: an open one, or the next.
Joined(s, new, r) ==
  \/ r = s
  \/ \E x \in Wakes :
       /\ \A w \in Wakes : w # x => r[w] = s[w]
       /\ x \in Present(s) /\ ~s[x].released /\ s[x].status # "cancelled"
       /\ r[x].ids = s[x].ids \cup new
       /\ r[x].status = s[x].status /\ r[x].checked = s[x].checked
       /\ r[x].released = s[x].released /\ r[x].at = s[x].at
  \/ /\ \A w \in Wakes : w # made + 1 => r[w] = s[w]
     /\ made + 1 \in Wakes => r[made + 1] = NewBatch(new)

LEMMA CollectFacts ==
  ASSUME NEW q \in Queue, NEW want \in SUBSET Keys, NEW D, NEW s, s = Settle(q, want, D),
         NEW r, r = Collect(q, want, D)
  PROVE  /\ r \in Queue
         /\ Joined(s, want \ Covered(s), r)
<1> DEFINE new == want \ Covered(s)
           open == {w \in Present(s) : /\ ~Frozen(s[w], D) /\ ~s[w].released
                                       /\ ~s[w].sealed /\ s[w].status # "cancelled"}
           x == Min(open)
<1>1. s \in Queue
  BY SettleFacts
<1>2. new \in SUBSET Keys
  OBVIOUS
<1>3. r = CASE new = {} -> s
            [] new # {} /\ open # {} -> [s EXCEPT ![x].ids = @ \cup new,
                                      ![x].coalesced =
                                         IF s[x].status = "pending" THEN @ ELSE @ \cup new]
            [] OTHER     -> [s EXCEPT ![made + 1] = NewBatch(new)]
  BY DEF Collect
<1>4. CASE new = {}
  <2>1. r = s
    <3> HIDE DEF new, open, x
    <3> QED BY <1>3, <1>4
  <2> HIDE DEF new, open, x
  <2> QED BY <1>1, <2>1 DEF Joined
<1>5. CASE new # {} /\ open # {}
  <2>1. x \in open
    BY <1>5, MinIsMember DEF Present, Wakes
  <2>2. x \in Wakes
    BY <2>1 DEF Present
  <2> DEFINE c == IF s[x].status = "pending" THEN s[x].coalesced
                  ELSE s[x].coalesced \cup new
  <2>3. r = [s EXCEPT ![x].ids = @ \cup new,
                      ![x].coalesced =
                         IF s[x].status = "pending" THEN @ ELSE @ \cup new]
    BY <1>3, <1>5
  <2>4. s = [w \in Wakes |-> s[w]] /\ \A w \in Wakes : s[w] \in Batch
    BY <1>1 DEF Queue
  <2> DEFINE b == s[x]
  <2>5. r = [w \in Wakes |-> IF w = x THEN [b EXCEPT !.ids = b.ids \cup new, !.coalesced = c]
                             ELSE s[w]]
    BY <2>2, <2>3, <2>4
  <2>6. b \in Batch /\ c \in SUBSET Keys /\ c \subseteq b.ids \cup new
    BY <1>1, <1>2, <2>2 DEF Queue, Batch
  <2>7. r[x] = [b EXCEPT !.ids = b.ids \cup new, !.coalesced = c]
    BY <2>2, <2>5
  <2>8. /\ r[x] \in Batch /\ r[x].coalesced \subseteq r[x].ids
        /\ r[x].ids = b.ids \cup new
        /\ r[x].status = b.status /\ r[x].checked = b.checked
        /\ r[x].released = b.released /\ r[x].at = b.at
    <3> HIDE DEF b, c, new, x
    <3> QED BY <1>2, <2>6, <2>7 DEF Batch
  <2>9. r \in Queue /\ \A w \in Wakes : w # x => r[w] = s[w]
    <3>1. r = [w \in Wakes |-> r[w]] /\ \A w \in Wakes : w # x => r[w] = s[w]
      <4> HIDE DEF b, c, x, new
      <4> QED BY <2>5
    <3> HIDE DEF c, x, new
    <3>2. \A w \in Wakes : r[w] \in Batch /\ r[w].coalesced \subseteq r[w].ids
      BY <1>1, <2>8, <3>1 DEF Queue
    <3> QED BY <3>1, <3>2 DEF Queue
  <2>10. x \in Present(s) /\ ~s[x].released /\ s[x].status # "cancelled"
    BY <2>1
  <2>11. /\ x \in Wakes
         /\ \A w \in Wakes : w # x => r[w] = s[w]
         /\ x \in Present(s) /\ ~s[x].released /\ s[x].status # "cancelled"
         /\ r[x].ids = s[x].ids \cup new
         /\ r[x].status = s[x].status /\ r[x].checked = s[x].checked
         /\ r[x].released = s[x].released /\ r[x].at = s[x].at
    <3> HIDE DEF x, open
    <3> QED BY <2>2, <2>8, <2>9, <2>10
  <2>12. Joined(s, new, r)
    <3> HIDE DEF x, open, b, c, new
    <3> QED BY <2>11 DEF Joined
  <2> QED BY <2>9, <2>12
<1>6. CASE new # {} /\ open = {}
  <2>1. r = [s EXCEPT ![made + 1] = NewBatch(new)]
    BY <1>3, <1>6
  <2>2. NewBatch(new) \in Batch /\ NewBatch(new).coalesced \subseteq NewBatch(new).ids
    BY <1>2, NewBatchFacts
  <2> HIDE DEF new
  <2>3. r = [w \in Wakes |-> IF w = made + 1 THEN NewBatch(new) ELSE s[w]]
    BY <1>1, <2>1 DEF Queue
  <2>4. r \in Queue
    BY <1>1, <2>2, <2>3 DEF Queue
  <2>5. Joined(s, new, r)
    BY <2>3 DEF Joined
  <2> QED BY <2>4, <2>5 DEF new
<1> QED BY <1>4, <1>5, <1>6


\* An expired latch gives up what its batch absorbed, and is released.
LEMMA ExpireFacts ==
  ASSUME NEW q \in Queue, NEW D, NEW r, r = ExpireLatches(q, D)
  PROVE  /\ r \in Queue
         /\ \A w \in Wakes :
              /\ r[w].status = q[w].status /\ r[w].checked = q[w].checked
              /\ q[w].released => r[w].released
              /\ \/ r[w].ids = q[w].ids /\ r[w].released = q[w].released
                    /\ (r[w].at = q[w].at \/ q[w].at = 0)
                 \/ /\ r[w].released /\ r[w].at = q[w].at /\ q[w].at >= 2
                    /\ r[w].ids = q[w].ids \ Orphans(q[w], D)
<1>1. ASSUME NEW w \in Wakes
      PROVE  /\ r[w] \in Batch /\ r[w].coalesced \subseteq r[w].ids
             /\ r[w].status = q[w].status /\ r[w].checked = q[w].checked
             /\ q[w].released => r[w].released
             /\ \/ r[w].ids = q[w].ids /\ r[w].released = q[w].released
                   /\ (r[w].at = q[w].at \/ q[w].at = 0)
                \/ /\ r[w].released /\ r[w].at = q[w].at /\ q[w].at >= 2
                   /\ r[w].ids = q[w].ids \ Orphans(q[w], D)
  <2> DEFINE b == q[w]
             o == Orphans(b, D)
             late == Latched(b, D)
  <2>1. b \in Batch /\ b.coalesced \subseteq b.ids
    BY DEF Queue
  <2>2. r[w] = CASE late /\ b.at = 0 -> [b EXCEPT !.at = 1]
                 [] late /\ b.at >= 2 ->
                      [b EXCEPT !.ids = @ \ o, !.coalesced = @ \ o,
                                !.released = TRUE, !.sealed = TRUE]
                 [] OTHER -> b
    BY DEF ExpireLatches
  <2> HIDE DEF b, o, late
  <2>3. CASE late /\ b.at = 0
    <3>1. r[w] = [b EXCEPT !.at = 1]
      BY <2>2, <2>3
    <3>2. /\ r[w] \in Batch /\ r[w].ids = b.ids /\ r[w].coalesced = b.coalesced
          /\ r[w].status = b.status /\ r[w].checked = b.checked
          /\ r[w].released = b.released
      BY <2>1, <3>1 DEF Batch
    <3> QED BY <2>1, <2>3, <3>2 DEF b
  <2>4. CASE late /\ b.at >= 2
    <3>0. ~ (b.at = 0)
      BY <2>1, <2>4 DEF Batch
    <3>1. r[w] = [b EXCEPT !.ids = b.ids \ o, !.coalesced = b.coalesced \ o,
                           !.released = TRUE, !.sealed = TRUE]
      BY <2>2, <2>4, <3>0
    <3>2. /\ r[w] \in Batch /\ r[w].ids = b.ids \ o /\ r[w].coalesced = b.coalesced \ o
          /\ r[w].status = b.status /\ r[w].checked = b.checked
          /\ r[w].released = TRUE /\ r[w].at = b.at
      BY <2>1, <3>1 DEF Batch
    <3> QED BY <2>1, <2>4, <3>2 DEF b, o
  <2>5. CASE ~ (late /\ b.at = 0) /\ ~ (late /\ b.at >= 2)
    <3>1. r[w] = b
      BY <2>2, <2>5
    <3> QED BY <2>1, <3>1 DEF b
  <2> QED BY <2>3, <2>4, <2>5
<1>2. r = [w \in Wakes |-> r[w]]
  <2> DEFINE f(w) ==
        CASE Latched(q[w], D) /\ q[w].at = 0 -> [q[w] EXCEPT !.at = 1]
          [] Latched(q[w], D) /\ q[w].at >= 2 ->
               [q[w] EXCEPT !.ids = @ \ Orphans(q[w], D),
                            !.coalesced = @ \ Orphans(q[w], D),
                            !.released = TRUE, !.sealed = TRUE]
          [] OTHER -> q[w]
  <2>1. r = [w \in Wakes |-> f(w)]
    BY DEF ExpireLatches
  <2> HIDE DEF f
  <2> QED BY <2>1
<1> QED BY <1>1, <1>2 DEF Queue

\* Compaction drops settled batches in which nothing is wanted.
LEMMA CompactFacts ==
  ASSUME NEW q \in Queue, NEW want, NEW D, NEW r, r = CompactHistory(q, want, D)
  PROVE  /\ r \in Queue
         /\ \A w \in Wakes :
              \/ r[w] = q[w]
              \/ /\ r[w].ids = q[w].ids /\ r[w].status = q[w].status
                 /\ r[w].checked = q[w].checked /\ r[w].released = q[w].released
                 /\ q[w].at = 0
              \/ r[w] = NoBatch /\ ~Frozen(q[w], D) /\ q[w].ids \cap want = {}
<1>1. PICK idle \in SUBSET {w \in Present(q) : ~Frozen(q[w], D) /\ ~Needed(q[w], want)} :
        r = [w \in Wakes |-> CASE w \in idle /\ q[w].at = 0 -> [q[w] EXCEPT !.at = 1]
                               [] w \in idle /\ q[w].at = 3 -> NoBatch
                               [] OTHER                     -> q[w]]
  <2> DEFINE tail == {w \in Present(q) :
                        Cardinality({v \in Present(q) : v > w}) < HistoryTail}
             idle == {w \in Present(q) \ tail :
                        SettledHistory(q[w]) /\ ~Frozen(q[w], D) /\ ~Needed(q[w], want)}
  <2>1. r = [w \in Wakes |-> CASE w \in idle /\ q[w].at = 0 -> [q[w] EXCEPT !.at = 1]
                               [] w \in idle /\ q[w].at = 3 -> NoBatch
                               [] OTHER                     -> q[w]]
    BY DEF CompactHistory
  <2>2. idle \in SUBSET {w \in Present(q) : ~Frozen(q[w], D) /\ ~Needed(q[w], want)}
    OBVIOUS
  <2> HIDE DEF idle
  <2> QED BY <2>1, <2>2
<1>2. ASSUME NEW w \in Wakes
      PROVE  /\ r[w] \in Batch /\ r[w].coalesced \subseteq r[w].ids
             /\ \/ r[w] = q[w]
                \/ /\ r[w].ids = q[w].ids /\ r[w].status = q[w].status
                   /\ r[w].checked = q[w].checked /\ r[w].released = q[w].released
                   /\ q[w].at = 0
                \/ r[w] = NoBatch /\ ~Frozen(q[w], D) /\ q[w].ids \cap want = {}
  <2> DEFINE b == q[w]
  <2>1. b \in Batch /\ b.coalesced \subseteq b.ids
    BY DEF Queue
  <2>2. r[w] = CASE w \in idle /\ b.at = 0 -> [b EXCEPT !.at = 1]
                 [] w \in idle /\ b.at = 3 -> NoBatch
                 [] OTHER                  -> b
    BY <1>1
  <2>3. w \in idle => ~Frozen(b, D) /\ b.ids \cap want = {}
    BY DEF Needed
  <2> HIDE DEF b
  <2>4. CASE w \in idle /\ b.at = 0
    <3>1. r[w] = [b EXCEPT !.at = 1]
      BY <2>2, <2>4
    <3>2. /\ r[w] \in Batch /\ r[w].ids = b.ids /\ r[w].coalesced = b.coalesced
          /\ r[w].status = b.status /\ r[w].checked = b.checked
          /\ r[w].released = b.released
      BY <2>1, <3>1 DEF Batch
    <3> QED BY <2>1, <2>4, <3>2 DEF b
  <2>5. CASE w \in idle /\ b.at = 3
    <3>1. r[w] = NoBatch
      BY <2>2, <2>5
    <3> QED BY <2>3, <2>5, <3>1, NoBatchFacts DEF b
  <2>6. CASE ~ (w \in idle /\ b.at = 0) /\ ~ (w \in idle /\ b.at = 3)
    <3>1. r[w] = b
      BY <2>2, <2>6
    <3> QED BY <2>1, <3>1 DEF b
  <2> QED BY <2>4, <2>5, <2>6
<1>3. r = [w \in Wakes |-> r[w]]
  <2> DEFINE f(w) == CASE w \in idle /\ q[w].at = 0 -> [q[w] EXCEPT !.at = 1]
                       [] w \in idle /\ q[w].at = 3 -> NoBatch
                       [] OTHER                     -> q[w]
  <2>1. r = [w \in Wakes |-> f(w)]
    BY <1>1
  <2> HIDE DEF f
  <2> QED BY <2>1
<1> QED BY <1>2, <1>3 DEF Queue


\* A split moves wanted keys out of frozen batches nobody was told of, each
\* batch's keys into one batch of their own behind the queue.
Moved(q, want, mixed, r) ==
  \A w \in Wakes :
    \/ /\ w \in mixed
       /\ r[w].ids = q[w].ids \ Text(q[w], want)
       /\ r[w].status = q[w].status /\ r[w].checked = q[w].checked
       /\ r[w].released = q[w].released /\ r[w].at = q[w].at
    \/ w \notin mixed /\ r[w] = q[w]
    \/ /\ w \notin mixed /\ w > Made(q)
       /\ \E m \in mixed :
            /\ w = Made(q) + Cardinality({v \in mixed : v <= m})
            /\ r[w] = NewBatch(Text(q[m], want))

LEMMA SplitFacts ==
  ASSUME WakeAssumption, made \in 0 .. MaxWakes,
         NEW q \in Queue, NEW want \in SUBSET Keys, NEW D,
         NEW r, r = SplitUnpublished(q, want, D)
  PROVE  /\ r \in Queue
         /\ \E mixed \in SUBSET {w \in Present(q) : /\ Frozen(q[w], D)
                                                    /\ native[w].status = "none"} :
              Moved(q, want, mixed, r)
<1> DEFINE part(w) == Text(q[w], want)
           mixed == {w \in Present(q) :
                       /\ Frozen(q[w], D) /\ ~q[w].released
                       /\ q[w].status = "pending" /\ native[w].status = "none"
                       /\ part(w) # {}}
           place(m) == Made(q) + Cardinality({v \in mixed : v <= m})
           source(w) == {m \in mixed : w = place(m)}
<1>1. r = [w \in Wakes |->
            IF w \in mixed
            THEN [q[w] EXCEPT !.ids = @ \ part(w), !.coalesced = @ \ part(w)]
            ELSE IF source(w) # {} THEN NewBatch(part(Min(source(w)))) ELSE q[w]]
  BY Zenon DEF SplitUnpublished
<1>2. mixed \subseteq Wakes
  BY DEF Present
<1>3. /\ mixed \in SUBSET {w \in Present(q) : /\ Frozen(q[w], D)
                                              /\ native[w].status = "none"}
  OBVIOUS
<1>4. \A w \in Wakes : part(w) \in SUBSET Keys
  BY DEF Text, Queue, Batch
<1>5. ASSUME NEW m \in mixed
      PROVE  Cardinality({v \in mixed : v <= m}) \in Nat \ {0}
  <2> DEFINE S == {v \in mixed : v <= m}
  <2> HIDE DEF mixed
  <2>1. MaxWakes \in Nat
    BY DEF WakeAssumption
  <2>2. S \subseteq Nat /\ \A v \in S : v =< MaxWakes
    <3>1. S \subseteq mixed
      OBVIOUS
    <3>2. S \subseteq 1 .. MaxWakes
      BY <1>2, <3>1 DEF Wakes
    <3> HIDE DEF S
    <3> QED BY <2>1, <3>2
  <2>3. IsFiniteSet(S)
    BY <2>1, <2>2, FS_BoundedSetOfNaturals
  <2>4. m \in S
    BY <1>2, <2>1 DEF Wakes
  <2>5. Cardinality(S) # 0
    BY <2>3, <2>4, FS_EmptySet
  <2>6. Cardinality(S) \in Nat
    BY <2>3, FS_CardinalityType
  <2> QED BY <2>5, <2>6
<1>6. Made(q) \in Nat
  BY MadeBounds DEF WakeAssumption
<1>7. ASSUME NEW w \in Wakes, source(w) # {}
      PROVE  /\ Min(source(w)) \in mixed /\ w = place(Min(source(w)))
             /\ w > Made(q)
  <2>1. source(w) \subseteq Nat
    <3>1. source(w) \subseteq mixed
      <4> HIDE DEF mixed, place
      <4> QED OBVIOUS
    <3>2. source(w) \subseteq 1 .. MaxWakes
      <4> HIDE DEF mixed, source
      <4> QED BY <1>2, <3>1 DEF Wakes
    <3> HIDE DEF source
    <3> QED BY <3>2
  <2> DEFINE m == Min(source(w))
  <2>2. m \in source(w)
    <3> HIDE DEF source
    <3> QED BY <1>7, <2>1, MinIsMember
  <2>3. m \in mixed /\ w = place(m)
    <3> HIDE DEF mixed, place, m
    <3> QED BY <2>2
  <2>4. w > Made(q)
    <3> HIDE DEF mixed, m
    <3>1. w = Made(q) + Cardinality({v \in mixed : v <= m})
      BY <2>3
    <3>2. Cardinality({v \in mixed : v <= m}) \in Nat \ {0}
      BY <1>5, <2>3
    <3> QED BY <1>6, <3>1, <3>2
  <2> QED BY <2>3, <2>4
<1>8. ASSUME NEW w \in Wakes
      PROVE  /\ r[w] \in Batch /\ r[w].coalesced \subseteq r[w].ids
             /\ \/ /\ w \in mixed
                   /\ r[w].ids = q[w].ids \ part(w)
                   /\ r[w].status = q[w].status /\ r[w].checked = q[w].checked
                   /\ r[w].released = q[w].released /\ r[w].at = q[w].at
                \/ w \notin mixed /\ r[w] = q[w]
                \/ /\ w \notin mixed /\ w > Made(q)
                   /\ \E m \in mixed :
                        /\ w = place(m)
                        /\ r[w] = NewBatch(part(m))
  <2> DEFINE b == q[w]
  <2>1. b \in Batch /\ b.coalesced \subseteq b.ids
    BY DEF Queue
  <2>2. CASE w \in mixed
    <3> DEFINE p == part(w)
    <3>1. r[w] = [b EXCEPT !.ids = b.ids \ p, !.coalesced = b.coalesced \ p]
      <4> HIDE DEF mixed
      <4> QED BY <1>1, <2>2
    <3> HIDE DEF b, p
    <3>2. /\ r[w] \in Batch /\ r[w].ids = b.ids \ p /\ r[w].coalesced = b.coalesced \ p
          /\ r[w].status = b.status /\ r[w].checked = b.checked
          /\ r[w].released = b.released /\ r[w].at = b.at
      BY <2>1, <3>1 DEF Batch
    <3>3. r[w].coalesced \subseteq r[w].ids
      BY <2>1, <3>2
    <3> USE DEF b, p
    <3> HIDE DEF mixed, part
    <3> QED BY <2>2, <3>2, <3>3
  <2>3. CASE w \notin mixed /\ source(w) # {}
    <3> DEFINE m == Min(source(w))
    <3>1. m \in mixed /\ w = place(m) /\ w > Made(q)
      BY <1>7, <2>3
    <3>2. r[w] = NewBatch(part(m))
      <4> HIDE DEF mixed, source, part
      <4> QED BY <1>1, <2>3
    <3>3. m \in Wakes
      <4> HIDE DEF mixed, m
      <4> QED BY <1>2, <3>1
    <3>4. part(m) \in SUBSET Keys
      <4> HIDE DEF m, part
      <4> QED BY <1>4, <3>3
    <3> HIDE DEF m, mixed, part, place
    <3>5. r[w] \in Batch /\ r[w].coalesced = {}
      BY <3>2, <3>4, NewBatchFacts
    <3> QED BY <2>3, <3>1, <3>2, <3>5
  <2>4. CASE w \notin mixed /\ source(w) = {}
    <3>1. r[w] = b
      <4> HIDE DEF mixed, source, part
      <4> QED BY <1>1, <2>4
    <3> HIDE DEF mixed
    <3> QED BY <2>1, <2>4, <3>1
  <2> QED BY <2>2, <2>3, <2>4
<1>9. r = [w \in Wakes |-> r[w]]
  <2> HIDE DEF mixed, part, source
  <2> QED BY <1>1
<1>10. r \in Queue
  BY <1>8, <1>9 DEF Queue
<1>11. Moved(q, want, mixed, r)
  <2> HIDE DEF mixed
  <2> QED BY <1>8 DEF Moved
<1> HIDE DEF mixed
<1> QED BY <1>3, <1>10, <1>11


-----------------------------------------------------------------------------
(* What is true of the queue on disk, and of the gate's copy of it, whichever *)
(* of the two a later step goes on with: q is the queue, nat the events, ms   *)
(* what was done with the messages, gp the gaps and hd what was handed on.    *)

\* Where there is no batch there is no key, and a key is in one batch.
Blank(q) == \A w \in Wakes : q[w].status = "none" => q[w].ids = {}
Apart(q) == \A v, w \in Wakes : v # w => q[v].ids \cap q[w].ids = {}

\* Keys have arrived; those checked were looked at.
Met(q, ms) ==
  \A w \in Wakes : /\ \A k \in q[w].ids : ms[k] # "none"
                   /\ \A k \in q[w].checked : ms[k] \notin {"none", "unread"}

\* A batch with an unread key is not released before its horizon.
Held(q, ms, gp) ==
  \A w \in Wakes : \A k \in q[w].ids :
    ms[k] = "unread" /\ k \notin gp /\ q[w].released => q[w].at >= 2

\* A batch is called off only when its event was retracted or never was.
Called(q, nat) ==
  \A w \in Wakes : q[w].status = "cancelled" => nat[w].status \in {"none", "cancelled"}

\* A batch without an event, with an event behind it, is over or may be frozen.
Waits(q, nat) ==
  \A v, w \in Wakes :
    w < v /\ nat[v].status # "none" /\ nat[w].status = "none"
      => \/ q[w].status \in {"none", "cancelled"} \/ q[w].released
         \/ q[w].ids \cap TaskKeys # {}

\* One batch that is not over has an event, but for those that may be frozen.
Engaged(q, nat, w) ==
  /\ nat[w].status \notin {"none", "cancelled"}
  /\ q[w].status # "none" /\ ~q[w].released
Single(q, nat) ==
  \A v, w \in Wakes :
    v # w /\ Engaged(q, nat, v) /\ Engaged(q, nat, w)
      => (q[v].ids \cup q[w].ids) \cap TaskKeys # {}

\* What an event counts is in its batch, unless it was handed on, was unread
\* during a gap, or was read.
Counted(q, nat, ms, gone) ==
  \A w \in Wakes : \A k \in nat[w].text : k \in q[w].ids \cup gone \/ ms[k] = "read"

Good(q, nat, ms, gp, hd) ==
  /\ Blank(q) /\ Apart(q) /\ Met(q, ms) /\ Held(q, ms, gp) /\ Called(q, nat)
  /\ Waits(q, nat) /\ Single(q, nat) /\ Counted(q, nat, ms, gp \cup hd)

\* The keys wanted are those that are unread or fetched, but for gaps and for
\* keys that are deferred.
Fit(q, want, D, ms, gp) ==
  /\ want \in SUBSET Keys /\ D \in SUBSET TaskKeys /\ want \cap D = {}
  /\ \A k \in want : ms[k] \in {"unread", "fetched"}
  /\ \A w \in Wakes : \A k \in q[w].ids :
       ms[k] \in {"unread", "fetched"} /\ k \notin gp /\ k \notin D => k \in want

\* No batch is numbered beyond n.
Below(q, n) == \A w \in Wakes : w > n => q[w].status = "none"

LEMMA SettleGood ==
  ASSUME NEW q \in Queue, NEW want, NEW D, NEW r, r = Settle(q, want, D),
         NEW nat, NEW ms, NEW gp, NEW hd, NEW n,
         Good(q, nat, ms, gp, hd), Fit(q, want, D, ms, gp), Below(q, n)
  PROVE  /\ r \in Queue
         /\ Good(r, nat, ms, gp, hd) /\ Fit(r, want, D, ms, gp) /\ Below(r, n)
<1>1. /\ r \in Queue
      /\ \A w \in Wakes :
           /\ r[w].ids = q[w].ids /\ r[w].status = q[w].status
           /\ r[w].checked = q[w].checked /\ r[w].at = q[w].at
           /\ r[w].released <=> \/ q[w].released
                                \/ /\ w \in Present(q) /\ ~Frozen(q[w], D)
                                   /\ ~Active(q[w], want)
  BY SettleFacts
<1>2. Held(r, ms, gp)
  <2> SUFFICES ASSUME NEW w \in Wakes, NEW k \in r[w].ids, ms[k] = "unread",
                      k \notin gp, r[w].released
               PROVE  r[w].at >= 2
    BY DEF Held
  <2>1. CASE q[w].released
    BY <1>1, <2>1 DEF Good, Held
  <2>2. CASE ~Frozen(q[w], D) /\ ~Active(q[w], want)
    <3>1. k \in q[w].ids /\ k \notin D
      BY <1>1, <2>2 DEF Frozen
    <3>2. k \in want
      BY <3>1 DEF Fit
    <3>3. k \notin q[w].checked
      BY DEF Good, Met
    <3> QED BY <2>2, <3>1, <3>2, <3>3 DEF Active
  <2> QED BY <1>1, <2>1, <2>2
<1>3. Blank(r) /\ Apart(r) /\ Met(r, ms) /\ Called(r, nat)
  BY <1>1 DEF Good, Blank, Apart, Met, Called
<1>4. Waits(r, nat)
  BY <1>1 DEF Good, Waits
<1>5. Single(r, nat)
  BY <1>1 DEF Good, Single, Engaged
<1>6. Counted(r, nat, ms, gp \cup hd)
  BY <1>1 DEF Good, Counted
<1>7. Fit(r, want, D, ms, gp) /\ Below(r, n)
  BY <1>1 DEF Fit, Below
<1> QED BY <1>1, <1>2, <1>3, <1>4, <1>5, <1>6, <1>7 DEF Good

LEMMA CollectGood ==
  ASSUME WakeAssumption, made \in 0 .. MaxWakes,
         NEW q \in Queue, NEW want, NEW D, NEW r, r = Collect(q, want, D),
         NEW nat, NEW ms, NEW gp, NEW hd,
         Good(q, nat, ms, gp, hd), Fit(q, want, D, ms, gp), Below(q, made),
         \A w \in Wakes : w > made => nat[w].status = "none" /\ nat[w].text = {}
  PROVE  /\ r \in Queue
         /\ Good(r, nat, ms, gp, hd) /\ Fit(r, want, D, ms, gp)
<1> DEFINE s == Settle(q, want, D)
           new == want \ Covered(s)
<1>1. s \in Queue /\ Good(s, nat, ms, gp, hd) /\ Fit(s, want, D, ms, gp) /\ Below(s, made)
  BY SettleGood
<1>2. r \in Queue /\ Joined(s, new, r)
  BY CollectFacts DEF Fit
<1>3. /\ new \in SUBSET Keys /\ \A k \in new : k \in want /\ ms[k] \in {"unread", "fetched"}
      /\ \A w \in Wakes : s[w].ids \cap new = {}
  BY DEF Fit, Covered
<1> HIDE DEF s, new
<1>4. ASSUME NEW x \in Wakes,
             \A w \in Wakes : w # x => r[w] = s[w],
             r[x].ids = s[x].ids \cup new,
             r[x].checked = s[x].checked, ~r[x].released,
             r[x].status \notin {"none", "cancelled"},
             Engaged(r, nat, x) => Engaged(s, nat, x),
             \A v \in Wakes :
               x < v /\ nat[v].status # "none" /\ nat[x].status = "none"
                 => s[x].ids \cap TaskKeys # {}
      PROVE  Good(r, nat, ms, gp, hd) /\ Fit(r, want, D, ms, gp)
  <2>1. Blank(r) /\ Called(r, nat)
    <3>1. Called(r, nat)
      <4> SUFFICES ASSUME NEW w \in Wakes, r[w].status = "cancelled"
                   PROVE  nat[w].status \in {"none", "cancelled"}
        BY DEF Called
      <4> QED BY <1>1, <1>4 DEF Good, Called
    <3> QED BY <1>1, <1>4, <3>1 DEF Good, Blank
  <2>2. Apart(r)
    BY <1>1, <1>3, <1>4 DEF Good, Apart
  <2>3. Met(r, ms)
    BY <1>1, <1>3, <1>4 DEF Good, Met
  <2>4. Held(r, ms, gp)
    BY <1>1, <1>4 DEF Good, Held
  <2>5. Waits(r, nat)
    <3> SUFFICES ASSUME NEW v \in Wakes, NEW w \in Wakes, w < v,
                        nat[v].status # "none", nat[w].status = "none"
                 PROVE  \/ r[w].status \in {"none", "cancelled"} \/ r[w].released
                        \/ r[w].ids \cap TaskKeys # {}
      BY DEF Waits
    <3> QED BY <1>1, <1>4 DEF Good, Waits
  <2>6. Single(r, nat)
    <3> SUFFICES ASSUME NEW v \in Wakes, NEW w \in Wakes, v # w,
                        Engaged(r, nat, v), Engaged(r, nat, w)
                 PROVE  (r[v].ids \cup r[w].ids) \cap TaskKeys # {}
      BY DEF Single
    <3>1. Engaged(s, nat, v) /\ Engaged(s, nat, w)
      BY <1>4 DEF Engaged
    <3>2. (s[v].ids \cup s[w].ids) \cap TaskKeys # {}
      BY <1>1, <3>1 DEF Good, Single
    <3>3. s[v].ids \subseteq r[v].ids /\ s[w].ids \subseteq r[w].ids
      BY <1>4
    <3> QED BY <3>2, <3>3
  <2>7. Counted(r, nat, ms, gp \cup hd)
    BY <1>1, <1>4 DEF Good, Counted
  <2>8. Fit(r, want, D, ms, gp)
    BY <1>1, <1>3, <1>4 DEF Fit
  <2> QED BY <2>1, <2>2, <2>3, <2>4, <2>5, <2>6, <2>7, <2>8 DEF Good
<1>5. CASE r = s
  BY <1>1, <1>5
<1>6. ASSUME NEW x \in Wakes,
             \A w \in Wakes : w # x => r[w] = s[w],
             x \in Present(s), ~s[x].released, s[x].status # "cancelled",
             r[x].ids = s[x].ids \cup new,
             r[x].status = s[x].status, r[x].checked = s[x].checked,
             r[x].released = s[x].released, r[x].at = s[x].at
      PROVE  Good(r, nat, ms, gp, hd) /\ Fit(r, want, D, ms, gp)
  <2>1. ASSUME NEW v \in Wakes, x < v, nat[v].status # "none", nat[x].status = "none"
        PROVE  s[x].ids \cap TaskKeys # {}
    BY <1>1, <1>6, <2>1 DEF Good, Waits, Present
  <2>2. r[x].status \notin {"none", "cancelled"}
    BY <1>6 DEF Present
  <2>3. Engaged(r, nat, x) => Engaged(s, nat, x)
    BY <1>6 DEF Engaged
  <2> QED BY <1>4, <1>6, <2>1, <2>2, <2>3
<1>7. ASSUME \A w \in Wakes : w # made + 1 => r[w] = s[w],
             made + 1 \in Wakes, r[made + 1] = NewBatch(new)
      PROVE  Good(r, nat, ms, gp, hd) /\ Fit(r, want, D, ms, gp)
  <2> DEFINE x == made + 1
  <2>1. made \in Nat /\ x > made /\ x \in Wakes
    BY <1>7 DEF WakeAssumption
  <2>2. s[x].status = "none" /\ nat[x].status = "none"
    BY <1>1, <2>1 DEF Below
  <2>3. s[x].ids = {}
    BY <1>1, <2>1, <2>2 DEF Good, Blank
  <2>4. /\ r[x].ids = new /\ r[x].status = "pending" /\ r[x].checked = {}
        /\ r[x].released = FALSE
    BY <1>3, <1>7, NewBatchFacts
  <2>5. \A v \in Wakes : x < v => nat[v].status = "none"
    BY <2>1 DEF Wakes
  <2>6. \A w \in Wakes : w # x => r[w] = s[w]
    BY <1>7
  <2>7. ~Engaged(r, nat, x)
    BY <2>2 DEF Engaged
  <2> HIDE DEF x
  <2>8. Blank(r) /\ Called(r, nat)
    BY <1>1, <2>4, <2>6 DEF Good, Blank, Called
  <2>9. Apart(r)
    BY <1>1, <1>3, <2>4, <2>6 DEF Good, Apart
  <2>10. Met(r, ms)
    BY <1>1, <1>3, <2>4, <2>6 DEF Good, Met
  <2>11. Held(r, ms, gp)
    BY <1>1, <2>4, <2>6 DEF Good, Held
  <2>12. Waits(r, nat)
    BY <1>1, <2>5, <2>6 DEF Good, Waits
  <2>13. Single(r, nat)
    BY <1>1, <2>6, <2>7 DEF Good, Single, Engaged
  <2>14. Counted(r, nat, ms, gp \cup hd)
    BY <1>1, <2>1, <2>3, <2>4, <2>6 DEF Good, Counted
  <2>15. Fit(r, want, D, ms, gp)
    BY <1>1, <1>3, <2>4, <2>6 DEF Fit
  <2> QED BY <2>8, <2>9, <2>10, <2>11, <2>12, <2>13, <2>14, <2>15 DEF Good
<1>8. ASSUME \A w \in Wakes : w # made + 1 => r[w] = s[w], made + 1 \notin Wakes
      PROVE  Good(r, nat, ms, gp, hd) /\ Fit(r, want, D, ms, gp)
  <2>1. \A w \in Wakes : r[w] = s[w]
    BY <1>8
  <2>2. r = s
    BY <1>1, <1>2, <2>1 DEF Queue
  <2> QED BY <1>1, <2>2
<1> QED BY <1>2, <1>5, <1>6, <1>7, <1>8 DEF Joined


\* What an expired latch gives up is handed on; what keeps its key is on time.
LEMMA ExpireGood ==
  ASSUME NEW q \in Queue, NEW want, NEW D, NEW r, r = ExpireLatches(q, D),
         NEW nat, NEW ms, NEW gp, NEW hd, NEW hn, NEW n,
         Good(q, nat, ms, gp, hd), Fit(q, want, D, ms, gp), Below(q, n),
         hn = hd \cup UNION {Orphans(q[w], D) : w \in Wakes}
  PROVE  /\ r \in Queue
         /\ Good(r, nat, ms, gp, hn) /\ Fit(r, want, D, ms, gp) /\ Below(r, n)
<1>1. /\ r \in Queue
      /\ \A w \in Wakes :
           /\ r[w].status = q[w].status /\ r[w].checked = q[w].checked
           /\ q[w].released => r[w].released
           /\ \/ r[w].ids = q[w].ids /\ r[w].released = q[w].released
                 /\ (r[w].at = q[w].at \/ q[w].at = 0)
              \/ /\ r[w].released /\ r[w].at = q[w].at /\ q[w].at >= 2
                 /\ r[w].ids = q[w].ids \ Orphans(q[w], D)
  BY ExpireFacts
<1>2. \A w \in Wakes : r[w].ids \subseteq q[w].ids
  BY <1>1
<1>3. \A w \in Wakes : r[w].released \/ r[w].ids = q[w].ids
  BY <1>1
<1>4. Blank(r) /\ Called(r, nat)
  BY <1>1, <1>2 DEF Good, Blank, Called
<1>5. Apart(r) /\ Met(r, ms)
  BY <1>1, <1>2 DEF Good, Apart, Met
<1>6. Held(r, ms, gp)
  <2> SUFFICES ASSUME NEW w \in Wakes, NEW k \in r[w].ids, ms[k] = "unread",
                      k \notin gp, r[w].released
               PROVE  r[w].at >= 2
    BY DEF Held
  <2>1. k \in q[w].ids
    BY <1>2
  <2>2. CASE q[w].released
    <3>1. q[w].at >= 2
      BY <2>1, <2>2 DEF Good, Held
    <3>2. q[w].at # 0
      BY <3>1 DEF Queue, Batch
    <3> QED BY <1>1, <3>1, <3>2
  <2>3. CASE ~q[w].released
    BY <1>1, <2>3
  <2> QED BY <2>2, <2>3
<1>7. Waits(r, nat)
  <2> SUFFICES ASSUME NEW v \in Wakes, NEW w \in Wakes, w < v,
                      nat[v].status # "none", nat[w].status = "none"
               PROVE  \/ r[w].status \in {"none", "cancelled"} \/ r[w].released
                      \/ r[w].ids \cap TaskKeys # {}
    BY DEF Waits
  <2> QED BY <1>1, <1>3 DEF Good, Waits
<1>8. Single(r, nat)
  <2> SUFFICES ASSUME NEW v \in Wakes, NEW w \in Wakes, v # w,
                      Engaged(r, nat, v), Engaged(r, nat, w)
               PROVE  (r[v].ids \cup r[w].ids) \cap TaskKeys # {}
    BY DEF Single
  <2>1. Engaged(q, nat, v) /\ Engaged(q, nat, w)
    BY <1>1 DEF Engaged
  <2> QED BY <1>3, <2>1 DEF Good, Single, Engaged
<1>9. Counted(r, nat, ms, gp \cup hn)
  <2> SUFFICES ASSUME NEW w \in Wakes, NEW k \in nat[w].text
               PROVE  k \in r[w].ids \cup (gp \cup hn) \/ ms[k] = "read"
    BY DEF Counted
  <2>1. k \in q[w].ids \cup (gp \cup hd) \/ ms[k] = "read"
    BY DEF Good, Counted
  <2>2. k \in q[w].ids => k \in r[w].ids \cup Orphans(q[w], D)
    BY <1>1
  <2>3. Orphans(q[w], D) \subseteq hn /\ hd \subseteq hn
    OBVIOUS
  <2> QED BY <2>1, <2>2, <2>3
<1>10. Fit(r, want, D, ms, gp) /\ Below(r, n)
  BY <1>1, <1>2 DEF Fit, Below
<1> QED BY <1>1, <1>4, <1>5, <1>6, <1>7, <1>8, <1>9, <1>10 DEF Good

\* The keys of a batch that is dropped were read, or unread during a gap.
LEMMA CompactGood ==
  ASSUME NEW q \in Queue, NEW want, NEW D, NEW r, r = CompactHistory(q, want, D),
         NEW nat, NEW ms \in [Keys -> {"none", "unread", "fetched", "read"}],
         NEW gp, NEW hd, NEW n,
         Good(q, nat, ms, gp, hd), Fit(q, want, D, ms, gp), Below(q, n)
  PROVE  /\ r \in Queue
         /\ Good(r, nat, ms, gp, hd) /\ Fit(r, want, D, ms, gp) /\ Below(r, n)
<1>1. /\ r \in Queue
      /\ \A w \in Wakes :
           \/ /\ r[w].ids = q[w].ids /\ r[w].status = q[w].status
              /\ r[w].checked = q[w].checked /\ r[w].released = q[w].released
              /\ r[w].at = q[w].at \/ q[w].at = 0
           \/ /\ r[w].ids = {} /\ r[w].status = "none" /\ r[w].checked = {}
              /\ ~Frozen(q[w], D) /\ q[w].ids \cap want = {}
  BY CompactFacts, NoBatchFacts
<1>2. Blank(r) /\ Apart(r) /\ Met(r, ms)
  BY <1>1 DEF Good, Blank, Apart, Met
<1>3. Called(r, nat)
  BY <1>1 DEF Good, Called
<1>4. Held(r, ms, gp)
  <2> SUFFICES ASSUME NEW w \in Wakes, NEW k \in r[w].ids, ms[k] = "unread",
                      k \notin gp, r[w].released
               PROVE  r[w].at >= 2
    BY DEF Held
  <2>1. k \in q[w].ids /\ q[w].released /\ (r[w].at = q[w].at \/ q[w].at = 0)
    BY <1>1
  <2>2. q[w].at >= 2
    BY <2>1 DEF Good, Held
  <2>3. q[w].at # 0
    BY <2>2 DEF Queue, Batch
  <2> QED BY <2>1, <2>2, <2>3
<1>5. Waits(r, nat)
  <2> SUFFICES ASSUME NEW v \in Wakes, NEW w \in Wakes, w < v,
                      nat[v].status # "none", nat[w].status = "none"
               PROVE  \/ r[w].status \in {"none", "cancelled"} \/ r[w].released
                      \/ r[w].ids \cap TaskKeys # {}
    BY DEF Waits
  <2> QED BY <1>1 DEF Good, Waits
<1>6. Single(r, nat)
  <2> SUFFICES ASSUME NEW v \in Wakes, NEW w \in Wakes, v # w,
                      Engaged(r, nat, v), Engaged(r, nat, w)
               PROVE  (r[v].ids \cup r[w].ids) \cap TaskKeys # {}
    BY DEF Single
  <2>1. /\ Engaged(q, nat, v) /\ Engaged(q, nat, w)
        /\ r[v].ids = q[v].ids /\ r[w].ids = q[w].ids
    BY <1>1 DEF Engaged
  <2> QED BY <2>1 DEF Good, Single
<1>7. Counted(r, nat, ms, gp \cup hd)
  <2> SUFFICES ASSUME NEW w \in Wakes, NEW k \in nat[w].text,
                      k \in q[w].ids, k \notin r[w].ids, k \notin gp
               PROVE  ms[k] = "read"
    BY DEF Good, Counted
  <2>1. k \in Keys /\ ms[k] # "none"
    BY DEF Queue, Batch, Good, Met
  <2>2. k \notin D /\ k \notin want
    BY <1>1 DEF Frozen
  <2>3. ms[k] \notin {"unread", "fetched"}
    BY <2>2 DEF Fit
  <2> QED BY <2>1, <2>3
<1>8. Fit(r, want, D, ms, gp) /\ Below(r, n)
  BY <1>1 DEF Fit, Below
<1> QED BY <1>1, <1>2, <1>3, <1>4, <1>5, <1>6, <1>7, <1>8 DEF Good


LEMMA BelowMade ==
  ASSUME WakeAssumption, made \in 0 .. MaxWakes, NEW q
  PROVE  Below(q, Made(q))
<1> SUFFICES ASSUME NEW w \in Wakes, w > Made(q), q[w].status # "none"
             PROVE  FALSE
  BY DEF Below
<1>1. w \in Present(q)
  BY DEF Present
<1>2. w =< Made(q) /\ Made(q) \in 0 .. MaxWakes
  BY <1>1, MadeBounds
<1> QED BY <1>2 DEF WakeAssumption, Wakes

\* Events are numbered like their batches, and there is no text without one.
EventsBelow(nat, n) ==
  \A w \in Wakes : /\ w > n => nat[w].status = "none"
                   /\ nat[w].status = "none" => nat[w].text = {}

\* A batch that is split keeps the key that froze it.
LEMMA SplitGood ==
  ASSUME WakeAssumption, made \in 0 .. MaxWakes,
         NEW q \in Queue, NEW want, NEW D, NEW r, r = SplitUnpublished(q, want, D),
         NEW ms, NEW gp, NEW hd,
         Good(q, native, ms, gp, hd), Fit(q, want, D, ms, gp),
         EventsBelow(native, made)
  PROVE  /\ r \in Queue
         /\ Good(r, native, ms, gp, hd) /\ Fit(r, want, D, ms, gp)
         /\ Below(r, Made(r))
<1>1. PICK mixed \in SUBSET {w \in Present(q) : /\ Frozen(q[w], D)
                                                /\ native[w].status = "none"} :
        r \in Queue /\ Moved(q, want, mixed, r)
  BY SplitFacts DEF Fit
<1>2. r \in Queue /\ Moved(q, want, mixed, r)
  BY <1>1
<1> DEFINE part(m) == Text(q[m], want)
           count(m) == Cardinality({v \in mixed : v <= m})
           kept(w) == /\ w \in mixed
                      /\ r[w].ids = q[w].ids \ part(w)
                      /\ r[w].status = q[w].status /\ r[w].checked = q[w].checked
                      /\ r[w].released = q[w].released /\ r[w].at = q[w].at
           piece(w, m) == /\ m \in mixed /\ w \notin mixed /\ w > Made(q)
                          /\ w = Made(q) + count(m)
                          /\ r[w].ids = part(m) /\ r[w].status = "pending"
                          /\ r[w].checked = {} /\ r[w].released = FALSE
                          /\ native[w].status = "none" /\ native[w].text = {}
                          /\ q[w].status = "none"
<1>3. mixed \subseteq Wakes /\ \A m \in mixed : /\ Frozen(q[m], D)
                                               /\ native[m].status = "none"
                                               /\ native[m].text = {}
  BY DEF Present, EventsBelow
<1>4. \A m \in Wakes : part(m) \subseteq q[m].ids /\ part(m) \subseteq want
                       /\ part(m) \subseteq Keys
  BY DEF Text, Fit
<1>5. /\ Below(q, Made(q)) /\ made =< Made(q)
      /\ made \in Nat /\ Made(q) \in Nat
  BY BelowMade, MadeBounds DEF WakeAssumption
<1>6. \A w \in Wakes : \/ kept(w)
                       \/ w \notin mixed /\ r[w] = q[w]
                       \/ \E m \in mixed : piece(w, m)
  <2> SUFFICES ASSUME NEW w \in Wakes, w \notin mixed, w > Made(q), NEW m \in mixed,
                      w = Made(q) + count(m), r[w] = NewBatch(part(m))
               PROVE  piece(w, m)
    BY <1>2 DEF Moved
  <2>1. part(m) \in SUBSET Keys
    BY <1>3, <1>4
  <2> DEFINE i == part(m)
  <2> HIDE DEF part, i
  <2>2. /\ r[w].ids = i /\ r[w].status = "pending"
        /\ r[w].checked = {} /\ r[w].released = FALSE
    BY <2>1, NewBatchFacts DEF i
  <2>3. w > made
    BY <1>5 DEF Wakes
  <2>4. q[w].status = "none" /\ native[w].status = "none" /\ native[w].text = {}
    BY <1>5, <2>3 DEF Below, EventsBelow
  <2> QED BY <2>2, <2>4 DEF i
<1> HIDE DEF part, count
<1>7. Blank(r) /\ Called(r, native)
  BY <1>3, <1>6 DEF Good, Blank, Called, Present
<1>8. Apart(r)
  <2> SUFFICES ASSUME NEW v \in Wakes, NEW w \in Wakes, v # w,
                      NEW k \in r[v].ids, k \in r[w].ids
               PROVE  FALSE
    BY DEF Apart
  <2>1. ASSUME NEW x \in Wakes, NEW y \in Wakes, x # y PROVE q[x].ids \cap q[y].ids = {}
    BY <2>1 DEF Good, Apart
  <2>2. \A x \in Wakes : r[x] = q[x] \/ kept(x) => r[x].ids \subseteq q[x].ids
    OBVIOUS
  <2>3. ASSUME NEW x \in Wakes, NEW y \in Wakes, x # y, NEW m \in mixed, piece(x, m),
               k \in r[x].ids, k \in r[y].ids
        PROVE  FALSE
    <3>1. k \in part(m) /\ k \in q[m].ids /\ m \in Wakes
      BY <1>3, <1>4, <2>3
    <3>2. CASE kept(y)
      <4>1. y = m
        BY <2>1, <2>3, <3>1, <3>2
      <4> QED BY <2>3, <3>1, <3>2, <4>1
    <3>3. CASE y \notin mixed /\ r[y] = q[y]
      BY <2>1, <2>3, <3>1, <3>3
    <3>4. ASSUME NEW n \in mixed, piece(y, n) PROVE FALSE
      <4>1. k \in q[n].ids /\ n \in Wakes
        BY <1>3, <1>4, <2>3, <3>4
      <4>2. n = m
        BY <2>1, <3>1, <4>1
      <4> QED BY <2>3, <3>4, <4>2
    <3> QED BY <1>6, <3>2, <3>3, <3>4
  <2>4. \A m \in mixed : ~piece(v, m) /\ ~piece(w, m)
    BY <2>3
  <2> QED BY <1>6, <2>1, <2>2, <2>4
<1>9. Met(r, ms)
  BY <1>3, <1>4, <1>6 DEF Good, Met
<1>10. Held(r, ms, gp)
  BY <1>6 DEF Good, Held
<1>11. Waits(r, native)
  <2> SUFFICES ASSUME NEW v \in Wakes, NEW w \in Wakes, w < v,
                      native[v].status # "none", native[w].status = "none"
               PROVE  \/ r[w].status \in {"none", "cancelled"} \/ r[w].released
                      \/ r[w].ids \cap TaskKeys # {}
    BY DEF Waits
  <2>1. CASE kept(w)
    <3>1. PICK k \in q[w].ids : k \in D
      BY <1>3, <2>1 DEF Frozen
    <3>2. k \in TaskKeys /\ k \notin want
      BY <3>1 DEF Fit
    <3> QED BY <1>4, <2>1, <3>1, <3>2
  <2>2. CASE r[w] = q[w]
    BY <2>2 DEF Good, Waits
  <2>3. ASSUME NEW m \in mixed, piece(w, m) PROVE FALSE
    <3>1. v > made
      BY <1>5, <2>3 DEF Wakes
    <3> QED BY <3>1 DEF EventsBelow
  <2> QED BY <1>6, <2>1, <2>2, <2>3
<1>12. Single(r, native)
  <2> SUFFICES ASSUME NEW v \in Wakes, NEW w \in Wakes, v # w,
                      Engaged(r, native, v), Engaged(r, native, w)
               PROVE  (r[v].ids \cup r[w].ids) \cap TaskKeys # {}
    BY DEF Single
  <2>1. r[v] = q[v] /\ r[w] = q[w]
    BY <1>3, <1>6 DEF Engaged
  <2> QED BY <2>1 DEF Good, Single, Engaged
<1>13. Counted(r, native, ms, gp \cup hd)
  <2> SUFFICES ASSUME NEW w \in Wakes, NEW k \in native[w].text
               PROVE  k \in r[w].ids \cup (gp \cup hd) \/ ms[k] = "read"
    BY DEF Counted
  <2>1. r[w] = q[w]
    BY <1>3, <1>6
  <2> QED BY <2>1 DEF Good, Counted
<1>14. Fit(r, want, D, ms, gp)
  <2>1. \A w \in Wakes : \A k \in r[w].ids :
          ms[k] \in {"unread", "fetched"} /\ k \notin gp /\ k \notin D => k \in want
    BY <1>3, <1>4, <1>6 DEF Fit
  <2> QED BY <2>1 DEF Fit
<1>15. Below(r, Made(r))
  BY BelowMade
<1> QED BY <1>2, <1>7, <1>8, <1>9, <1>10, <1>11, <1>12, <1>13, <1>14, <1>15 DEF Good


\* A batch takes its status from its event, and with it a time of delivery.
Restatused(q, nat, r) ==
  \A w \in Wakes :
    /\ r[w].ids = q[w].ids /\ r[w].checked = q[w].checked
    /\ r[w].released = q[w].released
    /\ r[w].at = q[w].at \/ q[w].at = 0
    /\ r[w].status = "none" <=> q[w].status = "none"
    /\ r[w].status = "cancelled" => nat[w].status \in {"none", "cancelled"}
    /\ nat[w].status = "none" /\ q[w].status = "cancelled" => r[w].status = "cancelled"

LEMMA RestatusedGood ==
  ASSUME NEW q \in Queue, NEW r, NEW nat, NEW ms, NEW gp, NEW hd, NEW n,
         Good(q, nat, ms, gp, hd), Below(q, n), Restatused(q, nat, r)
  PROVE  Good(r, nat, ms, gp, hd) /\ Below(r, n)
<1>1. Blank(r) /\ Apart(r) /\ Met(r, ms) /\ Called(r, nat) /\ Below(r, n)
  BY DEF Good, Blank, Apart, Met, Called, Below, Restatused
<1>2. Held(r, ms, gp)
  <2> SUFFICES ASSUME NEW w \in Wakes, NEW k \in r[w].ids, ms[k] = "unread",
                      k \notin gp, r[w].released
               PROVE  r[w].at >= 2
    BY DEF Held
  <2>1. q[w].at >= 2
    BY DEF Good, Held, Restatused
  <2>2. q[w].at # 0
    BY <2>1 DEF Queue, Batch
  <2> QED BY <2>1, <2>2 DEF Restatused
<1>3. Waits(r, nat)
  BY DEF Good, Waits, Restatused
<1>4. Single(r, nat)
  <2> SUFFICES ASSUME NEW v \in Wakes, NEW w \in Wakes, v # w,
                      Engaged(r, nat, v), Engaged(r, nat, w)
               PROVE  (r[v].ids \cup r[w].ids) \cap TaskKeys # {}
    BY DEF Single
  <2>1. /\ Engaged(q, nat, v) /\ Engaged(q, nat, w)
        /\ r[v].ids = q[v].ids /\ r[w].ids = q[w].ids
    BY DEF Engaged, Restatused
  <2> QED BY <2>1 DEF Good, Single
<1>5. Counted(r, nat, ms, gp \cup hd)
  BY DEF Good, Counted, Restatused
<1> QED BY <1>1, <1>2, <1>3, <1>4, <1>5 DEF Good

\* The queue a page leaves: keys of the page are checked, and its batches sealed.
LEMMA ReadGood ==
  ASSUME WakeAssumption, made \in 0 .. MaxWakes,
         NEW q \in Queue, NEW S \in SUBSET Keys, NEW want, NEW D,
         NEW r, r = ReadBoundary(q, S, want, D),
         NEW nat, NEW ms, NEW gp, NEW hd, \A k \in S : ms[k] = "fetched",
         Good(q, nat, ms, gp, hd), Fit(q, want, D, ms, gp), Below(q, made),
         \A w \in Wakes : w > made => nat[w].status = "none" /\ nat[w].text = {}
  PROVE  /\ r \in Queue
         /\ Good(r, nat, ms, gp, hd) /\ Fit(r, want, D, ms, gp)
<1> DEFINE c == Collect(q, want, D)
           read(w) == c[w].ids \cap S \cap want
           e == [w \in Wakes |-> [c[w] EXCEPT !.checked = @ \cup read(w),
                                              !.sealed = @ \/ read(w) # {}]]
<1>1. r = Settle(e, want, D)
  BY Zenon DEF ReadBoundary
<1>2. c \in Queue /\ Good(c, nat, ms, gp, hd) /\ Fit(c, want, D, ms, gp)
  BY CollectGood
<1> HIDE DEF c
<1>3. ASSUME NEW w \in Wakes
      PROVE  /\ e[w] \in Batch
             /\ e[w].ids = c[w].ids /\ e[w].coalesced = c[w].coalesced
             /\ e[w].status = c[w].status /\ e[w].released = c[w].released
             /\ e[w].at = c[w].at /\ e[w].checked = c[w].checked \cup read(w)
  <2> DEFINE b == c[w]
             x == read(w)
             y == b.sealed \/ x # {}
  <2>1. b \in Batch /\ x \in SUBSET Keys
    BY <1>2 DEF Queue
  <2>2. e[w] = [b EXCEPT !.checked = b.checked \cup x, !.sealed = y]
    OBVIOUS
  <2>3. y \in BOOLEAN
    BY <2>1 DEF Batch
  <2> HIDE DEF b, x, y, e
  <2>4. /\ e[w] \in Batch
        /\ e[w].ids = b.ids /\ e[w].coalesced = b.coalesced
        /\ e[w].status = b.status /\ e[w].released = b.released
        /\ e[w].at = b.at /\ e[w].checked = b.checked \cup x
    <3> DEFINE z == b.checked \cup x
    <3>1. z \in SUBSET Keys
      BY <2>1 DEF Batch
    <3>2. e[w] = [b EXCEPT !.checked = z, !.sealed = y]
      BY <2>2
    <3> HIDE DEF z
    <3>3. /\ e[w] \in Batch
          /\ e[w].ids = b.ids /\ e[w].coalesced = b.coalesced
          /\ e[w].status = b.status /\ e[w].released = b.released
          /\ e[w].at = b.at /\ e[w].checked = z
      BY <2>1, <2>3, <3>1, <3>2 DEF Batch
    <3> QED BY <3>3 DEF z
  <2> QED BY <2>4 DEF b, x
<1>4. e = [w \in Wakes |-> e[w]]
  OBVIOUS
<1> HIDE DEF e
<1>5. e \in Queue
  BY <1>2, <1>3, <1>4 DEF Queue
<1>6. Blank(e) /\ Apart(e) /\ Called(e, nat)
  BY <1>2, <1>3 DEF Good, Blank, Apart, Called
<1>7. Met(e, ms)
  BY <1>2, <1>3 DEF Good, Met
<1>8. Held(e, ms, gp)
  BY <1>2, <1>3 DEF Good, Held
<1>9. Waits(e, nat)
  BY <1>2, <1>3 DEF Good, Waits
<1>10. Single(e, nat)
  BY <1>2, <1>3 DEF Good, Single, Engaged
<1>11. Counted(e, nat, ms, gp \cup hd)
  BY <1>2, <1>3 DEF Good, Counted
<1>12. Fit(e, want, D, ms, gp)
  BY <1>2, <1>3 DEF Fit
<1>13. Good(e, nat, ms, gp, hd)
  BY <1>6, <1>7, <1>8, <1>9, <1>10, <1>11 DEF Good
<1>14. \E n : Below(e, n)
  <2>1. MaxWakes \in Nat
    BY DEF WakeAssumption
  <2>2. Below(e, MaxWakes)
    BY <2>1 DEF Below, Wakes
  <2> QED BY <2>2
<1> QED BY <1>1, <1>5, <1>12, <1>13, <1>14, SettleGood

\* Events that are claimed, submitted, observed, given up, or rewritten within
\* their batch.
LEMMA EventsGood ==
  ASSUME NEW q, NEW nat, NEW nt, NEW ms, NEW gp, NEW hd,
         Good(q, nat, ms, gp, hd),
         \A w \in Wakes :
           /\ nt[w].status = "none" <=> nat[w].status = "none"
           /\ nat[w].status = "cancelled" => nt[w].status = "cancelled"
           /\ nt[w].text \subseteq nat[w].text \cup q[w].ids
  PROVE  Good(q, nt, ms, gp, hd)
<1>1. Called(q, nt) /\ Waits(q, nt)
  BY DEF Good, Called, Waits
<1>2. Single(q, nt)
  BY DEF Good, Single, Engaged
<1>3. Counted(q, nt, ms, gp \cup hd)
  BY DEF Good, Counted
<1> QED BY <1>1, <1>2, <1>3 DEF Good

\* The first batch that is open gets an event.
LEMMA PublishGood ==
  ASSUME WakeAssumption, gate.deferred \in SUBSET TaskKeys,
         NEW q, NEW x \in Due(q), NEW nt, NEW ms, NEW gp, NEW hd,
         Good(q, native, ms, gp, hd),
         nt[x].status # "none", nt[x].text \subseteq q[x].ids,
         \A w \in Wakes : w # x => nt[w] = native[w]
  PROVE  Good(q, nt, ms, gp, hd)
<1> DEFINE open == {w \in Live(q) : ~q[w].released /\ q[w].status # "cancelled"}
<1>1. /\ x \in open /\ x = Min(open) /\ q[x].status = "pending"
      /\ native[x].status = "none"
  BY DEF Due
<1>2. open \subseteq Nat /\ open \subseteq Wakes
  BY DEF Live, Present, Wakes
<1>3. \A w \in open : x =< w
  <2> HIDE DEF open
  <2> QED BY <1>1, <1>2, MinIsMember
<1>4. ASSUME NEW w \in Wakes, ~ (x =< w)
      PROVE  \/ q[w].status \in {"none", "cancelled"} \/ q[w].released
             \/ q[w].ids \cap TaskKeys # {}
  BY <1>3, <1>4 DEF Live, Present, Frozen
<1>5. x \in Wakes
  BY <1>1, <1>2
<1>6. Called(q, nt)
  BY <1>1 DEF Good, Called
<1>7. Waits(q, nt)
  <2> SUFFICES ASSUME NEW v \in Wakes, NEW w \in Wakes, w < v,
                      nt[v].status # "none", nt[w].status = "none"
               PROVE  \/ q[w].status \in {"none", "cancelled"} \/ q[w].released
                      \/ q[w].ids \cap TaskKeys # {}
    BY DEF Waits
  <2>1. CASE v = x
    <3>1. ~ (x =< w)
      BY <2>1 DEF Wakes
    <3> QED BY <1>4, <3>1
  <2>2. CASE v # x
    BY <2>2 DEF Good, Waits
  <2> QED BY <2>1, <2>2
<1>8. ASSUME NEW v \in Wakes, v # x, Engaged(q, native, v)
      PROVE  (q[v].ids \cup q[x].ids) \cap TaskKeys # {}
  <2>1. q[v].status # "cancelled"
    BY <1>8 DEF Engaged, Good, Called
  <2>2. CASE Frozen(q[v], gate.deferred)
    BY <2>2 DEF Frozen
  <2>3. CASE ~Frozen(q[v], gate.deferred)
    <3>1. v \in open
      BY <1>8, <2>1, <2>3 DEF Engaged, Live, Present
    <3>2. x < v
      BY <1>2, <1>3, <1>5, <1>8, <3>1 DEF Wakes
    <3>3. q[x].ids \cap TaskKeys # {}
      BY <1>1, <1>5, <1>8, <3>2 DEF Good, Waits, Engaged
    <3> QED BY <3>3
  <2> QED BY <2>2, <2>3
<1>9. Single(q, nt)
  <2> SUFFICES ASSUME NEW v \in Wakes, NEW w \in Wakes, v # w,
                      Engaged(q, nt, v), Engaged(q, nt, w)
               PROVE  (q[v].ids \cup q[w].ids) \cap TaskKeys # {}
    BY DEF Single
  <2>1. /\ v # x => Engaged(q, native, v)
        /\ w # x => Engaged(q, native, w)
    BY DEF Engaged
  <2>2. CASE v = x
    BY <1>8, <2>1, <2>2
  <2>3. CASE w = x
    BY <1>8, <2>1, <2>3
  <2>4. CASE v # x /\ w # x
    BY <2>1, <2>4 DEF Good, Single
  <2> QED BY <2>2, <2>3, <2>4
<1>10. Counted(q, nt, ms, gp \cup hd)
  BY DEF Good, Counted
<1> QED BY <1>6, <1>7, <1>9, <1>10 DEF Good

\* A message arrives, is looked at or is read; gaps and what was handed on grow.
Onward(ms, mn) ==
  \A k \in Keys : \/ mn[k] = ms[k]
                  \/ ms[k] = "none" /\ mn[k] = "unread"
                  \/ ms[k] \in {"unread", "fetched"} /\ mn[k] \in {"fetched", "read"}

LEMMA LookGood ==
  ASSUME NEW q \in Queue, NEW nat, NEW ms, NEW gp, NEW hd, NEW mn, NEW gn, NEW hn,
         Good(q, nat, ms, gp, hd), Onward(ms, mn), gp \subseteq gn, hd \subseteq hn,
         \A w \in Wakes : nat[w].text \subseteq Keys
  PROVE  Good(q, nat, mn, gn, hn)
<1>1. \A w \in Wakes : q[w].ids \subseteq Keys /\ q[w].checked \subseteq Keys
  BY DEF Queue, Batch
<1>2. Met(q, mn)
  BY <1>1 DEF Good, Met, Onward
<1>3. Held(q, mn, gn)
  <2> SUFFICES ASSUME NEW w \in Wakes, NEW k \in q[w].ids, mn[k] = "unread",
                      k \notin gn, q[w].released
               PROVE  q[w].at >= 2
    BY DEF Held
  <2>1. ms[k] = "unread" /\ k \notin gp
    BY <1>1 DEF Good, Met, Onward
  <2> QED BY <2>1 DEF Good, Held
<1>4. Counted(q, nat, mn, gn \cup hn)
  <2> SUFFICES ASSUME NEW w \in Wakes, NEW k \in nat[w].text
               PROVE  k \in q[w].ids \cup (gn \cup hn) \/ mn[k] = "read"
    BY DEF Counted
  <2>1. k \in q[w].ids \cup (gp \cup hd) \/ ms[k] = "read"
    BY DEF Good, Counted
  <2> QED BY <2>1 DEF Onward
<1> QED BY <1>2, <1>3, <1>4 DEF Good


-----------------------------------------------------------------------------
(* The invariant of the queue, the gate and the events, step by step.        *)

Event == [status : Statuses, text : SUBSET Keys, old : BOOLEAN]
Gate == [pc : {"idle", "deliver", "save"}, want : SUBSET Keys,
         deferred : SUBSET TaskKeys, q : Queue]
MsgStates == {"none", "unread", "fetched", "read"}

\* Two events count one key only when it was handed on or unread in a gap.
TextsApart(nat, gone) ==
  \A v, w \in Wakes : v # w => nat[v].text \cap nat[w].text \subseteq gone

TypeInv ==
  /\ msg \in [Keys -> MsgStates] /\ dnd \in BOOLEAN /\ consumer \in BOOLEAN
  /\ made \in 0 .. MaxWakes /\ trouble \in 0 .. MaxTrouble
  /\ file \in Queue /\ gate \in Gate /\ native \in [Wakes -> Event]

WakeInv ==
  /\ TypeInv
  /\ dnd => Unread \subseteq gaps
  /\ EventsBelow(native, made) /\ TextsApart(native, gaps \cup handed)
  /\ Below(file, made) /\ Good(file, native, msg, gaps, handed)
  /\ gate.pc # "idle" => Below(gate.q, made) /\ Good(gate.q, native, msg, gaps, handed)
  /\ gate.pc = "deliver" => Fit(gate.q, gate.want, gate.deferred, msg, gaps)

LEMMA NativeStatusFacts ==
  ASSUME NEW e, e.status \in Statuses \ {"none"}
  PROVE  /\ NativeStatus(e) \in BatchStatuses \ {"none"}
         /\ NativeStatus(e) = "cancelled" => e.status = "cancelled"
<1> DEFINE x == e.status
<1>1. NativeStatus(e) =
        CASE x = "observed"   -> "confirmed"
          [] x = "submitted"  -> "submitted_unverified"
          [] x = "pending"    -> "native_pending"
          [] x = "submitting" -> "submitting"
          [] x = "cancelled"  -> "cancelled"
          [] OTHER            -> "uncertain"
  BY DEF NativeStatus
<1>2. x \in Statuses \ {"none"}
  OBVIOUS
<1> HIDE DEF x
<1>3. /\ NativeStatus(e) \in BatchStatuses \ {"none"}
      /\ NativeStatus(e) = "cancelled" => x = "cancelled"
  BY <1>1, <1>2 DEF Statuses, BatchStatuses
<1> QED BY <1>3 DEF x

\* The status a reconciled batch gets is its event's; without an event it is
\* called off when nothing in it is wanted.
LEMMA ReconciledStatusFacts ==
  ASSUME NEW e, e.status \in Statuses, NEW b \in Batch, b.status # "none", NEW want
  PROVE  LET x == ReconciledStatus(e, b, want)
         IN  /\ x \in BatchStatuses \ {"none"}
             /\ x = "cancelled" => e.status \in {"none", "cancelled"}
             /\ e.status = "none" /\ b.status = "cancelled" => x = "cancelled"
<1> DEFINE x == ReconciledStatus(e, b, want)
           off == e.status = "none" /\ b.status = "pending" /\ ~Active(b, want)
<1>1. x = CASE e.status # "none" -> NativeStatus(e)
            [] off -> "cancelled"
            [] OTHER -> b.status
  BY DEF ReconciledStatus
<1>2. b.status \in BatchStatuses
  BY DEF Batch
<1>3. CASE e.status # "none"
  <2>1. x = NativeStatus(e)
    BY <1>1, <1>3
  <2> HIDE DEF x
  <2>2. e.status \in Statuses \ {"none"}
    BY <1>3
  <2>3. /\ NativeStatus(e) \in BatchStatuses \ {"none"}
        /\ NativeStatus(e) = "cancelled" => e.status = "cancelled"
    BY <2>2, NativeStatusFacts
  <2>4. /\ x \in BatchStatuses \ {"none"}
        /\ x = "cancelled" => e.status \in {"none", "cancelled"}
        /\ e.status = "none" /\ b.status = "cancelled" => x = "cancelled"
    BY <1>3, <2>1, <2>3
  <2> QED BY <2>4 DEF x
<1>4. CASE e.status = "none"
  <2>1. x = IF off THEN "cancelled" ELSE b.status
    <3> HIDE DEF x
    <3> QED BY <1>1, <1>4
  <2> HIDE DEF x, off
  <2>2. /\ x \in BatchStatuses \ {"none"}
        /\ x = "cancelled" => e.status \in {"none", "cancelled"}
    BY <1>2, <1>4, <2>1 DEF BatchStatuses
  <2>3. b.status = "cancelled" => x = "cancelled"
    BY <2>1
  <2> QED BY <2>2, <2>3 DEF x
<1> QED BY <1>3, <1>4

\* What reconciling does to an event: nothing, a new text within the batch, or
\* a retraction.
LEMMA UpdatedFacts ==
  ASSUME NEW e \in Event, NEW b \in Batch, NEW want
  PROVE  /\ Updated(e, b, want) \in Event
         /\ Updated(e, b, want).status = "none" <=> e.status = "none"
         /\ e.status = "cancelled" => Updated(e, b, want).status = "cancelled"
         /\ \/ Updated(e, b, want).text = e.text
            \/ /\ Updated(e, b, want).text = Text(b, want)
               /\ e.status = "pending"
<1> DEFINE x == Text(b, want)
           u == Updated(e, b, want)
<1>1. u = IF e.status # "pending" THEN e
          ELSE IF Active(b, want) THEN [e EXCEPT !.text = x]
          ELSE [e EXCEPT !.status = "cancelled"]
  BY DEF Updated
<1>2. x \in SUBSET Keys
  BY DEF Text, Batch
<1> HIDE DEF u, x
<1>3. \/ u = e
      \/ u = [e EXCEPT !.text = x] /\ e.status = "pending"
      \/ u = [e EXCEPT !.status = "cancelled"] /\ e.status = "pending"
  BY <1>1
<1>4. u = e => u \in Event
  OBVIOUS
<1>5. u = [e EXCEPT !.text = x] =>
        u \in Event /\ u.status = e.status /\ u.text = x
  BY <1>2 DEF Event
<1>6. u = [e EXCEPT !.status = "cancelled"] =>
        u \in Event /\ u.status = "cancelled" /\ u.text = e.text
  BY DEF Event, Statuses
<1>7. /\ u \in Event
      /\ u.status = "none" <=> e.status = "none"
      /\ e.status = "cancelled" => u.status = "cancelled"
      /\ u.text = e.text \/ (u.text = x /\ e.status = "pending")
  BY <1>3, <1>4, <1>5, <1>6
<1> QED BY <1>7 DEF u, x


\* Reconciling keeps all of it, for the queue on disk and the gate's copy.
Reconciled(want, D, then, ms, gp, hd) ==
  /\ file' \in Queue /\ made' \in 0 .. MaxWakes /\ made =< made'
  /\ native' \in [Wakes -> Event]
  /\ gate' \in Gate /\ gate'.pc = then /\ gate'.want = want /\ gate'.deferred = D
  /\ Below(file', made') /\ Below(gate'.q, made') /\ EventsBelow(native', made')
  /\ Good(file', native', ms, gp, hd) /\ Good(gate'.q, native', ms, gp, hd)
  /\ Fit(gate'.q, want, D, ms, gp)
  /\ TextsApart(native', gp \cup hd)

LEMMA ReconcileGood ==
  ASSUME WakeAssumption, made \in 0 .. MaxWakes,
         native \in [Wakes -> Event], EventsBelow(native, made),
         NEW STATE q, q \in Queue, NEW STATE want, NEW D, NEW then \in {"deliver", "save"},
         Reconcile(q, want, D, then),
         NEW ms \in [Keys -> MsgStates], NEW gp, NEW hd,
         Good(q, native, ms, gp, hd), Fit(q, want, D, ms, gp),
         TextsApart(native, gp \cup hd)
  PROVE  Reconciled(want, D, then, ms, gp, hd)
<1> DEFINE s == SplitUnpublished(q, want, D)
           t == Settle(s, want, D)
           visited == {w \in Present(t) : ~Frozen(t[w], D) /\ ~SettledHistory(t[w])}
           nt == native'
           r == [w \in Wakes |->
                   IF w \in visited
                   THEN [t[w] EXCEPT !.status = ReconciledStatus(nt[w], t[w], want)]
                   ELSE t[w]]
<1>1. /\ file' = s /\ made' = Made(s)
      /\ nt = [w \in Wakes |->
                 IF w \in visited THEN Updated(native[w], t[w], want) ELSE native[w]]
      /\ gate' = [pc |-> then, want |-> want, deferred |-> D, q |-> r]
  BY DEF Reconcile
<1>2. /\ s \in Queue /\ Good(s, native, ms, gp, hd) /\ Fit(s, want, D, ms, gp)
      /\ Below(s, Made(s))
  BY SplitGood
<1>3. Made(s) \in 0 .. MaxWakes /\ made =< Made(s)
  BY MadeBounds
<1>4. /\ t \in Queue /\ Good(t, native, ms, gp, hd) /\ Fit(t, want, D, ms, gp)
      /\ Below(t, Made(s))
  <2> DEFINE n == Made(s)
  <2>1. Below(s, n)
    BY <1>2
  <2> HIDE DEF s, n
  <2>2. t \in Queue /\ Good(t, native, ms, gp, hd) /\ Fit(t, want, D, ms, gp) /\ Below(t, n)
    BY <1>2, <2>1, SettleGood
  <2> QED BY <2>2 DEF n
<1>5. \A w \in Wakes : t[w].ids = s[w].ids
  <2> HIDE DEF s
  <2> QED BY <1>2, SettleFacts
<1>6. visited \subseteq {w \in Wakes : t[w].status # "none"}
  BY DEF Present
<1> HIDE DEF s, t, visited
<1>7. ASSUME NEW w \in Wakes
      PROVE  /\ nt[w] \in Event
             /\ nt[w].status = "none" <=> native[w].status = "none"
             /\ native[w].status = "cancelled" => nt[w].status = "cancelled"
             /\ \/ nt[w].text = native[w].text
                \/ nt[w].text = Text(t[w], want) /\ native[w].status # "none"
  <2> DEFINE e == native[w]
             b == t[w]
  <2>1. e \in Event /\ b \in Batch
    BY <1>4 DEF Queue
  <2>2. nt[w] = Updated(e, b, want) \/ nt[w] = e
    BY <1>1
  <2> HIDE DEF e, b, nt
  <2>3. /\ nt[w] \in Event
        /\ nt[w].status = "none" <=> e.status = "none"
        /\ e.status = "cancelled" => nt[w].status = "cancelled"
        /\ \/ nt[w].text = e.text
           \/ nt[w].text = Text(b, want) /\ e.status # "none"
    BY <2>1, <2>2, UpdatedFacts
  <2> QED BY <2>3 DEF e, b
<1>8. nt \in [Wakes -> Event]
  <2>1. nt = [w \in Wakes |-> nt[w]]
    BY <1>1
  <2> HIDE DEF nt
  <2> QED BY <1>7, <2>1
<1> HIDE DEF nt
<1>9. \A w \in Wakes : Text(t[w], want) \subseteq t[w].ids \cap want
  BY DEF Text
<1>10. \A w \in Wakes : /\ nt[w].text \subseteq native[w].text \cup t[w].ids
                        /\ nt[w].text \subseteq native[w].text \cup s[w].ids
  BY <1>5, <1>7, <1>9
<1>11. Good(s, nt, ms, gp, hd) /\ Good(t, nt, ms, gp, hd)
  BY <1>2, <1>4, <1>7, <1>10, EventsGood
<1>12. ASSUME NEW w \in Wakes
       PROVE  /\ r[w] \in Batch
              /\ r[w].ids = t[w].ids /\ r[w].checked = t[w].checked
              /\ r[w].coalesced = t[w].coalesced
              /\ r[w].released = t[w].released /\ r[w].at = t[w].at
              /\ r[w].status = "none" <=> t[w].status = "none"
              /\ r[w].status = "cancelled" => nt[w].status \in {"none", "cancelled"}
              /\ nt[w].status = "none" /\ t[w].status = "cancelled"
                   => r[w].status = "cancelled"
  <2> DEFINE b == t[w]
             e == nt[w]
             x == ReconciledStatus(e, b, want)
  <2>1. b \in Batch /\ e.status \in Statuses
    BY <1>4, <1>7 DEF Queue, Event
  <2>2. CASE w \in visited
    <3>1. b.status # "none"
      BY <1>6, <2>2
    <3>2. r[w] = [b EXCEPT !.status = x]
      BY <2>2
    <3> HIDE DEF b, e, r
    <3>3. /\ x \in BatchStatuses \ {"none"}
          /\ x = "cancelled" => e.status \in {"none", "cancelled"}
          /\ e.status = "none" /\ b.status = "cancelled" => x = "cancelled"
      BY <2>1, <3>1, ReconciledStatusFacts
    <3> HIDE DEF x
    <3>4. /\ r[w] \in Batch
          /\ r[w].ids = b.ids /\ r[w].checked = b.checked
          /\ r[w].coalesced = b.coalesced
          /\ r[w].released = b.released /\ r[w].at = b.at
          /\ r[w].status = x
      BY <2>1, <3>2, <3>3 DEF Batch
    <3> QED BY <3>1, <3>3, <3>4 DEF b, e
  <2>3. CASE w \notin visited
    <3>1. r[w] = t[w]
      BY <2>3
    <3>2. t[w].status = "cancelled" => nt[w].status \in {"none", "cancelled"}
      BY <1>11 DEF Good, Called
    <3> QED BY <2>1, <3>1, <3>2
  <2> QED BY <2>2, <2>3
<1>13. r \in Queue
  <2>1. r = [w \in Wakes |-> r[w]]
    OBVIOUS
  <2> HIDE DEF r
  <2> QED BY <1>4, <1>12, <2>1 DEF Queue
<1> HIDE DEF r
<1>14. Restatused(t, nt, r)
  BY <1>12 DEF Restatused
<1>15. Good(r, nt, ms, gp, hd) /\ Below(r, Made(s))
  <2> DEFINE n == Made(s)
  <2>1. Below(t, n)
    BY <1>4
  <2> HIDE DEF n
  <2>2. Good(r, nt, ms, gp, hd) /\ Below(r, n)
    BY <1>4, <1>11, <1>14, <2>1, RestatusedGood
  <2> QED BY <2>2 DEF n
<1>16. Fit(r, want, D, ms, gp)
  BY <1>4, <1>12 DEF Fit
<1>17. gate' \in Gate /\ gate'.pc = then /\ gate'.want = want /\ gate'.deferred = D
       /\ gate'.q = r
  BY <1>1, <1>4, <1>13 DEF Gate, Fit
<1>18. EventsBelow(nt, Made(s))
  <2> SUFFICES ASSUME NEW w \in Wakes
               PROVE  /\ w > Made(s) => nt[w].status = "none"
                      /\ nt[w].status = "none" => nt[w].text = {}
    BY DEF EventsBelow
  <2>1. w > Made(s) => w > made
    BY <1>3 DEF WakeAssumption, Wakes
  <2> QED BY <1>7, <2>1 DEF EventsBelow
<1>19. TextsApart(nt, gp \cup hd)
  <2> SUFFICES ASSUME NEW v \in Wakes, NEW w \in Wakes, v # w,
                      NEW k, k \in nt[v].text, k \in nt[w].text, k \notin gp \cup hd
               PROVE  FALSE
    BY DEF TextsApart
  <2>1. \A x \in Wakes : k \in native[x].text => k \in t[x].ids \/ ms[k] = "read"
    BY <1>4 DEF Good, Counted
  <2>2. \A x \in Wakes : k \in nt[x].text =>
          k \in native[x].text \/ (k \in t[x].ids /\ k \in want)
    BY <1>7, <1>9
  <2>3. k \in want => ms[k] # "read"
    BY <1>4 DEF Fit
  <2>4. ~ (k \in t[v].ids /\ k \in t[w].ids)
    BY <1>4 DEF Good, Apart
  <2>5. ~ (k \in native[v].text /\ k \in native[w].text)
    BY DEF TextsApart
  <2> QED BY <2>1, <2>2, <2>3, <2>4, <2>5
<1> QED BY <1>1, <1>2, <1>3, <1>8, <1>11, <1>15, <1>16, <1>17, <1>18, <1>19
        DEF Reconciled, nt


LEMMA RefreshedFacts ==
  ASSUME NEW b \in Batch, NEW e, e.status \in Statuses \ {"none"}
  PROVE  /\ Refreshed(b, e) \in Batch
         /\ Refreshed(b, e).ids = b.ids /\ Refreshed(b, e).checked = b.checked
         /\ Refreshed(b, e).coalesced = b.coalesced
         /\ Refreshed(b, e).released = b.released
         /\ Refreshed(b, e).at = b.at \/ b.at = 0
         /\ Refreshed(b, e).status # "none"
         /\ Refreshed(b, e).status = "cancelled" => e.status = "cancelled"
<1> DEFINE x == NativeStatus(e)
           r == [b EXCEPT !.status = x]
           f == Refreshed(b, e)
<1>1. x \in BatchStatuses \ {"none"} /\ (x = "cancelled" => e.status = "cancelled")
  BY NativeStatusFacts
<1>2. f = IF Delivered(r) /\ r.at = 0 THEN [r EXCEPT !.at = 1] ELSE r
  BY Zenon DEF Refreshed
<1> HIDE DEF x, f
<1>3. /\ r \in Batch /\ r.status = x /\ r.ids = b.ids /\ r.checked = b.checked
      /\ r.coalesced = b.coalesced /\ r.released = b.released /\ r.at = b.at
  BY <1>1 DEF Batch
<1> HIDE DEF r
<1>4. /\ f \in Batch /\ f.status = r.status /\ f.ids = r.ids /\ f.checked = r.checked
      /\ f.coalesced = r.coalesced /\ f.released = r.released
      /\ f.at = r.at \/ r.at = 0
  BY <1>2, <1>3 DEF Batch
<1>5. /\ f \in Batch /\ f.ids = b.ids /\ f.checked = b.checked
      /\ f.coalesced = b.coalesced /\ f.released = b.released
      /\ f.at = b.at \/ b.at = 0
      /\ f.status # "none" /\ (f.status = "cancelled" => e.status = "cancelled")
  BY <1>1, <1>3, <1>4
<1> QED BY <1>5 DEF f

LEMMA NoGateFacts == NoGate \in Gate /\ NoGate.pc = "idle"
<1> DEFINE z == [w \in Wakes |-> NoBatch]
<1>1. \A w \in Wakes : z[w] \in Batch /\ z[w].coalesced \subseteq z[w].ids
  BY NoBatchFacts
<1>2. z \in Queue
  <2>1. z \in [Wakes -> Batch]
    BY NoBatchFacts
  <2> QED BY <1>1, <2>1 DEF Queue
<1>3. NoGate = [pc |-> "idle", want |-> {}, deferred |-> {}, q |-> z]
  BY DEF NoGate
<1> HIDE DEF z
<1> QED BY <1>2, <1>3 DEF Gate

\* A visit refreshes the batches it finds with an event.
LEMMA VisitedFacts ==
  ASSUME NEW q \in Queue, native \in [Wakes -> Event],
         NEW V, NEW r, r = Visited(q, V)
  PROVE  /\ r \in Queue
         /\ \A w \in Wakes :
              \/ r[w] = q[w]
              \/ /\ native[w].status # "none"
                 /\ r[w].ids = q[w].ids /\ r[w].checked = q[w].checked
                 /\ r[w].released = q[w].released
                 /\ r[w].at = q[w].at \/ q[w].at = 0
                 /\ r[w].status # "none" /\ q[w].status # "none"
                 /\ r[w].status = "cancelled" => native[w].status = "cancelled"
<1>1. ASSUME NEW w \in Wakes
      PROVE  /\ r[w] \in Batch /\ r[w].coalesced \subseteq r[w].ids
             /\ \/ r[w] = q[w]
                \/ /\ native[w].status # "none"
                   /\ r[w].ids = q[w].ids /\ r[w].checked = q[w].checked
                   /\ r[w].released = q[w].released
                   /\ r[w].at = q[w].at \/ q[w].at = 0
                   /\ r[w].status # "none" /\ q[w].status # "none"
                   /\ r[w].status = "cancelled" => native[w].status = "cancelled"
  <2> DEFINE b == q[w]
             e == native[w]
             f == Refreshed(b, e)
  <2>1. b \in Batch /\ b.coalesced \subseteq b.ids /\ e.status \in Statuses
    BY DEF Queue, Event
  <2>2. \/ r[w] = b
        \/ r[w] = f /\ e.status # "none" /\ b.status # "none"
    BY DEF Visited, Live, Present
  <2> HIDE DEF b, e
  <2>3. e.status # "none" =>
           /\ f \in Batch
           /\ f.ids = b.ids /\ f.checked = b.checked
           /\ f.coalesced = b.coalesced /\ f.released = b.released
           /\ f.at = b.at \/ b.at = 0
           /\ f.status # "none"
           /\ f.status = "cancelled" => e.status = "cancelled"
    BY <2>1, RefreshedFacts
  <2> HIDE DEF f
  <2>4. /\ r[w] \in Batch /\ r[w].coalesced \subseteq r[w].ids
        /\ \/ r[w] = b
           \/ /\ e.status # "none"
              /\ r[w].ids = b.ids /\ r[w].checked = b.checked
              /\ r[w].released = b.released
              /\ r[w].at = b.at \/ b.at = 0
              /\ r[w].status # "none" /\ b.status # "none"
              /\ r[w].status = "cancelled" => e.status = "cancelled"
    <3>1. CASE r[w] = b
      BY <2>1, <3>1
    <3>2. CASE r[w] = f /\ e.status # "none" /\ b.status # "none"
      <4> DEFINE g == r[w]
      <4>1. g = f
        BY <3>2
      <4> HIDE DEF g
      <4>2. /\ g \in Batch /\ g.coalesced \subseteq g.ids
            /\ g.ids = b.ids /\ g.checked = b.checked
            /\ g.released = b.released
            /\ g.at = b.at \/ b.at = 0
            /\ g.status # "none"
            /\ g.status = "cancelled" => e.status = "cancelled"
        BY <2>1, <2>3, <3>2, <4>1
      <4> QED BY <3>2, <4>2 DEF g
    <3> QED BY <2>2, <3>1, <3>2
  <2> QED BY <2>4 DEF b, e
<1>2. r = [w \in Wakes |-> r[w]]
  <2> DEFINE f(w) == IF /\ w \in V \cap Live(q) /\ ~SettledHistory(q[w])
                        /\ native[w].status # "none"
                     THEN Refreshed(q[w], native[w]) ELSE q[w]
  <2>1. r = [w \in Wakes |-> f(w)]
    BY DEF Visited
  <2> HIDE DEF f
  <2> QED BY <2>1
<1> QED BY <1>1, <1>2 DEF Queue


\* The queue a tick visits, with what it handed on.
LEMMA DeliverQueue ==
  ASSUME WakeAssumption, WakeInv, gate.pc = "deliver",
         NEW x, x = ExpireLatches(gate.q, gate.deferred),
         NEW c, c = Collect(x, gate.want, gate.deferred),
         NEW q, q = CompactHistory(c, gate.want, gate.deferred),
         NEW hn, hn = handed \cup UNION {Orphans(gate.q[w], gate.deferred) : w \in Wakes}
  PROVE  /\ q \in Queue /\ Good(q, native, msg, gaps, hn)
         /\ Fit(q, gate.want, gate.deferred, msg, gaps)
<1> DEFINE D == gate.deferred
           want == gate.want
           p == gate.q
<1>1. /\ p \in Queue /\ made \in 0 .. MaxWakes
      /\ msg \in [Keys -> {"none", "unread", "fetched", "read"}]
      /\ Good(p, native, msg, gaps, handed) /\ Fit(p, want, D, msg, gaps)
      /\ Below(p, made)
      /\ \A w \in Wakes : w > made => native[w].status = "none" /\ native[w].text = {}
  BY DEF WakeInv, TypeInv, Gate, MsgStates, EventsBelow
<1>2. /\ x = ExpireLatches(p, D) /\ c = Collect(x, want, D)
      /\ q = CompactHistory(c, want, D)
      /\ hn = handed \cup UNION {Orphans(p[w], D) : w \in Wakes}
  OBVIOUS
<1> HIDE DEF D, want, p
<1>3. /\ x \in Queue /\ Good(x, native, msg, gaps, hn) /\ Fit(x, want, D, msg, gaps)
      /\ Below(x, made)
  BY <1>1, <1>2, ExpireGood
<1>4. c \in Queue /\ Good(c, native, msg, gaps, hn) /\ Fit(c, want, D, msg, gaps)
  BY <1>1, <1>2, <1>3, CollectGood
<1>5. Below(c, MaxWakes)
  BY DEF Below, Wakes, WakeAssumption
<1>6. q \in Queue /\ Good(q, native, msg, gaps, hn) /\ Fit(q, want, D, msg, gaps)
  BY <1>1, <1>2, <1>4, <1>5, CompactGood
<1> QED BY <1>6 DEF want, D

\* A tick keeps all of it, whether it publishes a wake, finds the session
\* replaced, or ends after the checkpoint.
LEMMA DeliverKeeps ==
  ASSUME WakeAssumption, WakeInv, Deliver
  PROVE  WakeInv'
<1> DEFINE D == gate.deferred
           want == gate.want
           x == ExpireLatches(gate.q, D)
           c == Collect(x, want, D)
           q == CompactHistory(c, want, D)
           r == Visited(q, Wakes)
           hn == handed \cup UNION {Orphans(gate.q[w], D) : w \in Wakes}
           n == Made(q)
           Publishes == \E y \in Due(q) :
             /\ native' = [native EXCEPT ![y] = Hint(Text(q[y], want))]
             /\ gate' = [gate EXCEPT !.pc = "save",
                                     !.q = [r EXCEPT ![y].status = "native_pending"]]
             /\ UNCHANGED trouble
           Replaced == /\ trouble' \in 0 .. MaxTrouble
                       /\ gate' = [gate EXCEPT !.pc = "save", !.q = r]
                       /\ UNCHANGED native
           Stops == /\ trouble' \in 0 .. MaxTrouble
                    /\ gate' = NoGate /\ UNCHANGED native
<1>1. gate.pc = "deliver" /\ made' = n /\ handed' = hn
      /\ UNCHANGED <<msg, dnd, consumer, sent, gaps, hidden>>
  BY DEF Deliver
<1>2. Visit(q)
  BY DEF Deliver
<1>3. /\ trouble \in 0 .. MaxTrouble /\ gate \in Gate /\ native \in [Wakes -> Event]
      /\ made \in 0 .. MaxWakes
  BY DEF WakeInv, TypeInv
<1>4. \A kind : Misfortune(kind) => trouble' \in 0 .. MaxTrouble
  BY <1>3 DEF Misfortune, WakeAssumption
<1>5. /\ Publishes \/ Replaced \/ Stops
      /\ file' = q \/ \E V : file' = Visited(q, V)
  <2>1. /\ \/ Publishes
           \/ /\ IF Due(q) = {} THEN UNCHANGED trouble ELSE Misfortune("replaced")
              /\ gate' = [gate EXCEPT !.pc = "save", !.q = r]
              /\ UNCHANGED native
           \/ Misfortune("crash") /\ gate' = NoGate /\ UNCHANGED native
        /\ file' = q \/ \E V : file' = Visited(q, V)
    <3> HIDE DEF q
    <3> QED BY <1>2 DEF Visit
  <2> HIDE DEF q, r
  <2> QED BY <1>3, <1>4, <2>1
<1>6. q \in Queue /\ Good(q, native, msg, gaps, hn) /\ Fit(q, want, D, msg, gaps)
  <2> HIDE DEF x, c, q, hn
  <2> QED BY <1>1, DeliverQueue DEF x, c, q, hn
<1>7. Below(q, n) /\ n \in 0 .. MaxWakes /\ made =< n
  <2> HIDE DEF q
  <2> QED BY <1>3, BelowMade, MadeBounds
<1> DEFINE Seen(s) ==
             /\ s \in Queue
             /\ \A w \in Wakes :
                  \/ s[w] = q[w]
                  \/ /\ native[w].status # "none"
                     /\ s[w].ids = q[w].ids /\ s[w].checked = q[w].checked
                     /\ s[w].released = q[w].released
                     /\ s[w].at = q[w].at \/ q[w].at = 0
                     /\ s[w].status # "none" /\ q[w].status # "none"
                     /\ s[w].status = "cancelled" => native[w].status = "cancelled"
<1> HIDE DEF q, n, hn
<1>8. Seen(r) /\ Seen(file')
  <2>1. \A V : Seen(Visited(q, V))
    BY <1>3, <1>6, VisitedFacts
  <2>2. Seen(q)
    BY <1>6
  <2> HIDE DEF Seen
  <2> QED BY <1>5, <2>1, <2>2
<1> HIDE DEF r
<1>9. EventsBelow(native, n)
  <2>1. \A w \in Wakes : w > n => w > made
    BY <1>3, <1>7 DEF WakeAssumption, Wakes
  <2> QED BY <2>1 DEF WakeInv, EventsBelow
<1>10. TextsApart(native, gaps \cup hn)
  BY DEF WakeInv, TextsApart, hn
<1>11. (dnd => Unread \subseteq gaps)'
  BY <1>1 DEF WakeInv, Unread
<1>12. msg \in [Keys -> MsgStates] /\ dnd \in BOOLEAN /\ consumer \in BOOLEAN
  BY DEF WakeInv, TypeInv
<1>13. ASSUME NEW s, Seen(s)
       PROVE  Good(s, native, msg, gaps, hn) /\ Below(s, n)
  <2>1. Restatused(q, native, s)
    BY <1>6, <1>13 DEF Restatused, Good, Called
  <2> QED BY <1>6, <1>7, <2>1, RestatusedGood
<1>14. CASE Replaced \/ Stops
  <2>1. /\ file' \in Queue /\ Good(file', native, msg, gaps, hn) /\ Below(file', n)
        /\ r \in Queue /\ Good(r, native, msg, gaps, hn) /\ Below(r, n)
    <3>1. file' \in Queue /\ r \in Queue
      BY <1>8
    <3> HIDE DEF Seen
    <3> QED BY <1>8, <1>13, <3>1
  <2>2. CASE Replaced
    <3>1. gate' = [gate EXCEPT !.pc = "save", !.q = r]
      BY <2>2
    <3>2. gate' \in Gate /\ gate'.q = r /\ gate'.pc = "save"
      BY <1>3, <2>1, <3>1 DEF Gate
    <3> QED BY <1>1, <1>7, <1>9, <1>10, <1>11, <1>12, <1>14, <2>1, <3>2, <1>3
            DEF WakeInv, TypeInv
  <2>3. CASE Stops
    <3>1. gate' \in Gate /\ gate'.pc = "idle"
      BY <2>3, NoGateFacts
    <3> QED BY <1>1, <1>7, <1>9, <1>10, <1>11, <1>12, <1>14, <2>1, <3>1, <1>3
            DEF WakeInv, TypeInv
  <2> QED BY <1>14, <2>2, <2>3
<1>15. CASE Publishes
  <2>1. PICK y \in Due(q) :
          /\ native' = [native EXCEPT ![y] = Hint(Text(q[y], want))]
          /\ gate' = [gate EXCEPT !.pc = "save",
                                  !.q = [r EXCEPT ![y].status = "native_pending"]]
          /\ UNCHANGED trouble
    BY <1>15
  <2>2. /\ y \in Present(q) /\ y \in Wakes /\ q[y].status = "pending"
        /\ native[y].status = "none"
    BY DEF Due, Live, Present
  <2> DEFINE text == Text(q[y], want)
             nt == native'
             g == [r EXCEPT ![y].status = "native_pending"]
  <2>3. text \subseteq q[y].ids \cap want /\ text \in SUBSET Keys
    BY <1>6, <2>2 DEF Text, Queue, Batch
  <2>4. nt = [native EXCEPT ![y] = Hint(text)]
    BY <2>1
  <2>5. gate' = [gate EXCEPT !.pc = "save", !.q = g]
    BY <2>1
  <2> HIDE DEF text, nt, g
  <2>6. Hint(text) \in Event /\ Hint(text).status = "pending" /\ Hint(text).text = text
    BY <2>3 DEF Hint, Event, Statuses
  <2>7. /\ nt \in [Wakes -> Event] /\ nt[y].status = "pending" /\ nt[y].text = text
        /\ \A w \in Wakes : w # y => nt[w] = native[w]
    BY <1>3, <2>2, <2>4, <2>6
  <2>8. Good(q, nt, msg, gaps, hn)
    <3>1. gate.deferred \in SUBSET TaskKeys
      BY <1>3 DEF Gate
    <3>2. nt[y].status # "none" /\ nt[y].text \subseteq q[y].ids
      BY <2>3, <2>7
    <3> QED BY <1>6, <2>7, <3>1, <3>2, PublishGood
  <2>9. ASSUME NEW s, Seen(s)
        PROVE  s[y] = q[y] /\ Restatused(q, nt, s)
    <3>1. s[y] = q[y]
      BY <2>2, <2>9
    <3>2. \A w \in Wakes : w # y =>
            (s[w].status = "cancelled" => nt[w].status \in {"none", "cancelled"})
      BY <1>6, <2>7, <2>9 DEF Good, Called
    <3>3. \A w \in Wakes : w # y =>
            (nt[w].status = "none" /\ q[w].status = "cancelled" => s[w].status = "cancelled")
      BY <2>7, <2>9
    <3>4. \A w \in Wakes :
            /\ s[w].ids = q[w].ids /\ s[w].checked = q[w].checked
            /\ s[w].released = q[w].released
            /\ s[w].at = q[w].at \/ q[w].at = 0
            /\ s[w].status = "none" <=> q[w].status = "none"
      BY <2>9
    <3> QED BY <2>2, <2>7, <3>1, <3>2, <3>3, <3>4 DEF Restatused
  <2>10. /\ r \in Queue /\ r[y] = q[y] /\ Good(r, nt, msg, gaps, hn) /\ Below(r, n)
         /\ file' \in Queue /\ Good(file', nt, msg, gaps, hn) /\ Below(file', n)
    <3>1. file' \in Queue /\ r \in Queue
      BY <1>8
    <3> HIDE DEF Seen
    <3>2. r[y] = q[y] /\ Restatused(q, nt, r) /\ Restatused(q, nt, file')
      BY <1>8, <2>9
    <3> QED BY <1>6, <1>7, <2>8, <3>1, <3>2, RestatusedGood
  <2>11. /\ g \in Queue
         /\ \A w \in Wakes : w # y => g[w] = r[w]
         /\ g[y].ids = r[y].ids /\ g[y].checked = r[y].checked
         /\ g[y].released = r[y].released /\ g[y].at = r[y].at
         /\ g[y].status = "native_pending"
    <3> DEFINE b == r[y]
               e == [b EXCEPT !.status = "native_pending"]
    <3>1. b \in Batch /\ b.coalesced \subseteq b.ids
      BY <2>2, <2>10 DEF Queue
    <3>2. g = [r EXCEPT ![y] = e]
      BY DEF g
    <3> HIDE DEF b
    <3>3. /\ e \in Batch /\ e.coalesced = b.coalesced /\ e.ids = b.ids
          /\ e.checked = b.checked /\ e.released = b.released /\ e.at = b.at
          /\ e.status = "native_pending"
      BY <3>1 DEF Batch, BatchStatuses
    <3> HIDE DEF e
    <3>4. g[y] = e /\ \A w \in Wakes : w # y => g[w] = r[w]
      BY <2>2, <2>10, <3>2 DEF Queue
    <3>5. g \in [Wakes -> Batch]
      BY <2>2, <2>10, <3>2, <3>3 DEF Queue
    <3>6. g \in Queue
      BY <2>10, <3>1, <3>3, <3>4, <3>5 DEF Queue
    <3> QED BY <3>3, <3>4, <3>6 DEF b
  <2>12. Good(g, nt, msg, gaps, hn) /\ Below(g, n)
    <3>1. Restatused(r, nt, g)
      <4>1. r[y] = q[y]
        BY <2>10
      <4>2. \A w \in Wakes : w # y =>
            (g[w].status = "cancelled" => nt[w].status \in {"none", "cancelled"})
        BY <2>10, <2>11 DEF Good, Called
      <4> QED BY <2>2, <2>7, <2>11, <4>1, <4>2 DEF Restatused
    <3> QED BY <2>10, <3>1, RestatusedGood
  <2>13. gate' \in Gate /\ gate'.q = g /\ gate'.pc = "save"
    BY <1>3, <2>5, <2>11 DEF Gate
  <2>14. EventsBelow(nt, n)
    <3>1. ~ (y > n)
      BY <1>7, <2>2 DEF Below
    <3> QED BY <1>9, <2>7, <3>1 DEF EventsBelow
  <2>15. TextsApart(nt, gaps \cup hn)
    <3> SUFFICES ASSUME NEW v \in Wakes, NEW w \in Wakes, v # w,
                        NEW k, k \in nt[v].text, k \in nt[w].text, k \notin gaps \cup hn
                 PROVE  FALSE
      BY DEF TextsApart
    <3>1. \A z \in Wakes : k \in native[z].text => k \in q[z].ids \/ msg[k] = "read"
      BY <1>6 DEF Good, Counted
    <3>2. \A z \in Wakes : k \in nt[z].text =>
            k \in native[z].text \/ (z = y /\ k \in q[z].ids /\ k \in want)
      BY <2>3, <2>7
    <3>3. k \in want => msg[k] # "read"
      BY <1>6 DEF Fit
    <3>4. ~ (k \in q[v].ids /\ k \in q[w].ids)
      BY <1>6 DEF Good, Apart
    <3>5. ~ (k \in native[v].text /\ k \in native[w].text)
      BY <1>10 DEF TextsApart
    <3> QED BY <3>1, <3>2, <3>3, <3>4, <3>5
  <2>16. trouble' = trouble
    BY <2>1
  <2>17. TypeInv'
    BY <1>1, <1>3, <1>7, <1>12, <2>7, <2>10, <2>13, <2>16 DEF TypeInv, nt
  <2> QED BY <1>1, <1>11, <2>10, <2>12, <2>13, <2>14, <2>15, <2>16, <2>17
          DEF WakeInv, nt
<1> QED BY <1>5, <1>14, <1>15


\* The keys wanted fit any queue, as messages and gaps are.
LEMMA IntentsFit ==
  ASSUME NEW q \in Queue, NEW D \in SUBSET TaskKeys, TaskKeys \subseteq Keys,
         dnd => Unread \subseteq gaps
  PROVE  Fit(q, Intents(D), D, msg, gaps)
<1>1. Intents(D) \in SUBSET Keys /\ Intents(D) \cap D = {}
  BY DEF Intents, Unread
<1>2. \A k \in Intents(D) : msg[k] \in {"unread", "fetched"}
  BY DEF Intents, Unread
<1>3. ASSUME NEW w \in Wakes, NEW k \in q[w].ids,
             msg[k] \in {"unread", "fetched"}, k \notin gaps, k \notin D
      PROVE  k \in Intents(D)
  <2>1. k \in Keys
    BY DEF Queue, Batch
  <2>2. k \in Unread
    BY <1>3, <2>1 DEF Unread
  <2> QED BY <1>3, <2>2 DEF Intents
<1> QED BY <1>1, <1>2, <1>3 DEF Fit

\* What a step that reconciles leaves.
LEMMA ReconciledKeeps ==
  ASSUME NEW want, NEW D, NEW then \in {"deliver", "save"},
         Reconciled(want, D, then, msg', gaps', handed'),
         msg' \in [Keys -> MsgStates], dnd' \in BOOLEAN, consumer' \in BOOLEAN,
         trouble' \in 0 .. MaxTrouble, (dnd => Unread \subseteq gaps)'
  PROVE  WakeInv'
<1>1. TypeInv'
  BY DEF Reconciled, TypeInv
<1>2. /\ EventsBelow(native, made)' /\ TextsApart(native, gaps \cup handed)'
      /\ Below(file, made)' /\ Good(file, native, msg, gaps, handed)'
      /\ Below(gate.q, made)' /\ Good(gate.q, native, msg, gaps, handed)'
      /\ Fit(gate.q, gate.want, gate.deferred, msg, gaps)'
  BY DEF Reconciled
<1> QED BY <1>1, <1>2 DEF WakeInv

LEMMA TickKeeps ==
  ASSUME WakeAssumption, WakeInv, NEW D \in SUBSET TaskKeys, Tick(D)
  PROVE  WakeInv'
<1>1. /\ file \in Queue /\ native \in [Wakes -> Event] /\ made \in 0 .. MaxWakes
      /\ EventsBelow(native, made) /\ msg \in [Keys -> MsgStates]
      /\ Good(file, native, msg, gaps, handed) /\ TextsApart(native, gaps \cup handed)
      /\ (dnd => Unread \subseteq gaps) /\ TaskKeys \subseteq Keys
  BY DEF WakeInv, TypeInv, WakeAssumption
<1> DEFINE want == Intents(D)
<1>2. Reconcile(file, want, D, "deliver")
  BY DEF Tick
<1>3. Fit(file, want, D, msg, gaps)
  BY <1>1, IntentsFit
<1> HIDE DEF want
<1>4. Reconciled(want, D, "deliver", msg, gaps, handed)
  BY <1>1, <1>2, <1>3, ReconcileGood
<1>5. UNCHANGED <<msg, dnd, consumer, trouble, gaps, handed>>
  BY DEF Tick, history
<1>6. (dnd => Unread \subseteq gaps)'
  BY <1>1, <1>5 DEF Unread
<1>7. Reconciled(want, D, "deliver", msg', gaps', handed')
  BY <1>4, <1>5
<1>8. /\ msg' \in [Keys -> MsgStates] /\ dnd' \in BOOLEAN /\ consumer' \in BOOLEAN
      /\ trouble' \in 0 .. MaxTrouble
  BY <1>5 DEF WakeInv, TypeInv
<1> QED BY <1>6, <1>7, <1>8, ReconciledKeeps

LEMMA MarkReadKeeps ==
  ASSUME WakeAssumption, WakeInv, NEW D \in SUBSET TaskKeys, NEW S, MarkRead(S, D)
  PROVE  WakeInv'
<1>1. /\ file \in Queue /\ native \in [Wakes -> Event] /\ made \in 0 .. MaxWakes
      /\ EventsBelow(native, made) /\ msg \in [Keys -> MsgStates]
      /\ Good(file, native, msg, gaps, handed) /\ TextsApart(native, gaps \cup handed)
      /\ (dnd => Unread \subseteq gaps) /\ TaskKeys \subseteq Keys
  BY DEF WakeInv, TypeInv, WakeAssumption
<1> DEFINE want == Intents(D) \ S
<1>2. Reconcile(file, want, D, "save")
  BY DEF MarkRead
<1>3. S \subseteq Unread /\ msg' = [k \in Keys |-> IF k \in S THEN "read" ELSE msg[k]]
  BY DEF MarkRead
<1>4. UNCHANGED <<dnd, consumer, trouble, gaps, handed>>
  BY DEF MarkRead, history
<1>5. msg' \in [Keys -> MsgStates]
  BY <1>1, <1>3 DEF MsgStates
<1>6. Onward(msg, msg')
  BY <1>1, <1>3 DEF Onward, Unread
<1>7. \A w \in Wakes : native[w].text \subseteq Keys
  BY <1>1 DEF Event
<1>8. Good(file, native, msg', gaps, handed)
  BY <1>1, <1>6, <1>7, LookGood
<1>9. Fit(file, want, D, msg', gaps)
  <2>1. Fit(file, Intents(D), D, msg, gaps)
    BY <1>1, IntentsFit
  <2>2. \A w \in Wakes : file[w].ids \subseteq Keys
    BY <1>1 DEF Queue, Batch
  <2> DEFINE i == Intents(D)
  <2>3. Fit(file, i, D, msg, gaps) /\ want = i \ S
    BY <2>1
  <2> HIDE DEF i, want
  <2> QED BY <1>3, <2>2, <2>3 DEF Fit
<1> HIDE DEF want
<1>10. Reconciled(want, D, "save", msg', gaps, handed)
  BY <1>1, <1>2, <1>5, <1>8, <1>9, ReconcileGood
<1>11. (dnd => Unread \subseteq gaps)'
  BY <1>1, <1>3, <1>4 DEF Unread
<1>12. Reconciled(want, D, "save", msg', gaps', handed')
  BY <1>4, <1>10
<1>13. /\ dnd' \in BOOLEAN /\ consumer' \in BOOLEAN /\ trouble' \in 0 .. MaxTrouble
  BY <1>4 DEF WakeInv, TypeInv
<1> QED BY <1>5, <1>11, <1>12, <1>13, ReconciledKeeps

LEMMA ReadPageKeeps ==
  ASSUME WakeAssumption, WakeInv, NEW D \in SUBSET TaskKeys, NEW S, ReadPage(S, D)
  PROVE  WakeInv'
<1>1. /\ file \in Queue /\ native \in [Wakes -> Event] /\ made \in 0 .. MaxWakes
      /\ EventsBelow(native, made) /\ msg \in [Keys -> MsgStates]
      /\ Good(file, native, msg, gaps, handed) /\ TextsApart(native, gaps \cup handed)
      /\ (dnd => Unread \subseteq gaps) /\ TaskKeys \subseteq Keys /\ Below(file, made)
  BY DEF WakeInv, TypeInv, WakeAssumption
<1> DEFINE want == Intents(D)
           q == ReadBoundary(file, S, want, D)
<1>2. Reconcile(q, want, D, "save")
  BY DEF ReadPage
<1>3. /\ S \subseteq {k \in Keys : msg[k] = "unread"}
      /\ msg' = [k \in Keys |-> IF k \in S THEN "fetched" ELSE msg[k]]
  BY DEF ReadPage
<1>4. UNCHANGED <<dnd, consumer, trouble, gaps, handed>>
  BY DEF ReadPage
<1>5. msg' \in [Keys -> MsgStates]
  BY <1>1, <1>3 DEF MsgStates
<1>6. Onward(msg, msg')
  BY <1>1, <1>3 DEF Onward
<1>7. \A w \in Wakes : native[w].text \subseteq Keys
  BY <1>1 DEF Event
<1>8. Good(file, native, msg', gaps, handed)
  BY <1>1, <1>6, <1>7, LookGood
<1>9. Fit(file, want, D, msg', gaps)
  <2>1. Fit(file, want, D, msg, gaps)
    BY <1>1, IntentsFit
  <2>2. \A w \in Wakes : file[w].ids \subseteq Keys
    BY <1>1 DEF Queue, Batch
  <2> HIDE DEF want
  <2> QED BY <1>3, <2>1, <2>2 DEF Fit
<1> HIDE DEF want
<1>10. q \in Queue /\ Good(q, native, msg', gaps, handed) /\ Fit(q, want, D, msg', gaps)
  <2>1. S \in SUBSET Keys /\ \A k \in S : msg'[k] = "fetched"
    BY <1>3
  <2>2. \A w \in Wakes : w > made => native[w].status = "none" /\ native[w].text = {}
    BY <1>1 DEF EventsBelow
  <2>3. q = ReadBoundary(file, S, want, D)
    OBVIOUS
  <2> DEFINE m == msg'
  <2>4. /\ \A k \in S : m[k] = "fetched"
        /\ Good(file, native, m, gaps, handed) /\ Fit(file, want, D, m, gaps)
    BY <1>8, <1>9, <2>1
  <2>6. file \in Queue /\ made \in 0 .. MaxWakes /\ Below(file, made)
    BY <1>1
  <2> HIDE DEF m, q
  <2>5. q \in Queue /\ Good(q, native, m, gaps, handed) /\ Fit(q, want, D, m, gaps)
    BY <2>1, <2>2, <2>3, <2>4, <2>6, ReadGood, SMTT(30)
  <2> QED BY <2>5 DEF m
<1> HIDE DEF q
<1>11. Reconciled(want, D, "save", msg', gaps, handed)
  BY <1>1, <1>2, <1>5, <1>10, ReconcileGood
<1>12. (dnd => Unread \subseteq gaps)'
  BY <1>1, <1>3, <1>4 DEF Unread
<1>13. Reconciled(want, D, "save", msg', gaps', handed')
  BY <1>4, <1>11
<1>14. /\ dnd' \in BOOLEAN /\ consumer' \in BOOLEAN /\ trouble' \in 0 .. MaxTrouble
  BY <1>4 DEF WakeInv, TypeInv
<1> QED BY <1>5, <1>12, <1>13, <1>14, ReconciledKeeps

LEMMA SetDndKeeps ==
  ASSUME WakeAssumption, WakeInv, NEW D \in SUBSET TaskKeys, SetDnd(D)
  PROVE  WakeInv'
<1>1. /\ file \in Queue /\ native \in [Wakes -> Event] /\ made \in 0 .. MaxWakes
      /\ EventsBelow(native, made) /\ msg \in [Keys -> MsgStates]
      /\ Good(file, native, msg, gaps, handed) /\ TextsApart(native, gaps \cup handed)
      /\ TaskKeys \subseteq Keys
      /\ trouble \in 0 .. MaxTrouble /\ MaxTrouble \in Nat /\ dnd \in BOOLEAN
  BY DEF WakeInv, TypeInv, WakeAssumption
<1> DEFINE want == IF dnd THEN Unread \ D ELSE {}
<1>2. Reconcile(file, want, D, "save")
  BY DEF SetDnd
<1>3. /\ dnd' = ~dnd /\ gaps' = gaps \cup Unread
      /\ trouble < MaxTrouble /\ trouble' = trouble + 1
  BY DEF SetDnd, Misfortune
<1>4. UNCHANGED <<msg, consumer, handed>>
  BY DEF SetDnd
<1>5. Onward(msg, msg)
  BY DEF Onward
<1>6. \A w \in Wakes : native[w].text \subseteq Keys
  BY <1>1 DEF Event
<1>7. Good(file, native, msg, gaps', handed)
  BY <1>1, <1>3, <1>5, <1>6, LookGood
<1>8. Fit(file, want, D, msg, gaps')
  <2>1. want \subseteq Unread \ D
    OBVIOUS
  <2>2. Unread \subseteq want \cup gaps' \cup D
    BY <1>3
  <2>3. \A w \in Wakes : file[w].ids \subseteq Keys
    BY <1>1 DEF Queue, Batch
  <2> HIDE DEF want
  <2>4. want \in SUBSET Keys /\ want \cap D = {} /\ \A k \in want : msg[k] \in {"unread", "fetched"}
    BY <2>1 DEF Unread
  <2>5. ASSUME NEW w \in Wakes, NEW k \in file[w].ids, msg[k] \in {"unread", "fetched"},
               k \notin gaps', k \notin D
        PROVE  k \in want
    <3>1. k \in Unread
      BY <2>3, <2>5 DEF Unread
    <3> QED BY <2>2, <2>5, <3>1
  <2> QED BY <2>4, <2>5 DEF Fit
<1>9. TextsApart(native, gaps' \cup handed)
  BY <1>1, <1>3 DEF TextsApart
<1> HIDE DEF want
<1>10. Reconciled(want, D, "save", msg, gaps', handed)
  BY <1>1, <1>2, <1>7, <1>8, <1>9, ReconcileGood
<1>11. (dnd => Unread \subseteq gaps)'
  BY <1>3, <1>4 DEF Unread
<1>12. Reconciled(want, D, "save", msg', gaps', handed')
  BY <1>4, <1>10
<1>13. /\ msg' \in [Keys -> MsgStates] /\ dnd' \in BOOLEAN /\ consumer' \in BOOLEAN
       /\ trouble' \in 0 .. MaxTrouble
  BY <1>1, <1>3, <1>4 DEF WakeInv, TypeInv
<1> QED BY <1>11, <1>12, <1>13, ReconciledKeeps

LEMMA ReconcileStopsKeeps ==
  ASSUME WakeAssumption, WakeInv, NEW D \in SUBSET TaskKeys, ReconcileStops(D)
  PROVE  WakeInv'
<1>1. /\ file \in Queue /\ native \in [Wakes -> Event] /\ made \in 0 .. MaxWakes
      /\ EventsBelow(native, made) /\ msg \in [Keys -> MsgStates]
      /\ Good(file, native, msg, gaps, handed) /\ TextsApart(native, gaps \cup handed)
      /\ (dnd => Unread \subseteq gaps) /\ TaskKeys \subseteq Keys
      /\ trouble \in 0 .. MaxTrouble /\ MaxTrouble \in Nat /\ MaxWakes \in Nat
  BY DEF WakeInv, TypeInv, WakeAssumption
<1> DEFINE want == Intents(D)
           s == SplitUnpublished(file, want, D)
<1>2. /\ gate.pc = "idle" /\ file' = s /\ made' = Made(s)
      /\ trouble < MaxTrouble /\ trouble' = trouble + 1
      /\ UNCHANGED <<msg, dnd, gate, native, consumer, gaps, handed>>
  <2>1. file' = s /\ made' = Made(file')
    BY DEF ReconcileStops
  <2>2. UNCHANGED <<msg, dnd, gate, native, consumer, gaps, handed>>
    BY DEF ReconcileStops, history
  <2>3. gate.pc = "idle" /\ trouble < MaxTrouble /\ trouble' = trouble + 1
    BY DEF ReconcileStops, Misfortune
  <2> HIDE DEF s
  <2> QED BY <2>1, <2>2, <2>3
<1>3. Fit(file, want, D, msg, gaps)
  BY <1>1, IntentsFit
<1> HIDE DEF want
<1>4. /\ s \in Queue /\ Good(s, native, msg, gaps, handed) /\ Below(s, Made(s))
  BY <1>1, <1>3, SplitGood
<1>5. Made(s) \in 0 .. MaxWakes /\ made =< Made(s)
  BY <1>1, MadeBounds
<1> DEFINE n == Made(s)
<1>6. /\ s \in Queue /\ Good(s, native, msg, gaps, handed) /\ Below(s, n)
      /\ n \in 0 .. MaxWakes /\ made =< n /\ made' = n /\ file' = s
  BY <1>2, <1>4, <1>5
<1> HIDE DEF s, n
<1>7. EventsBelow(native, n)
  <2>1. \A w \in Wakes : w > n => w > made
    BY <1>1, <1>6 DEF Wakes
  <2> QED BY <1>1, <2>1 DEF EventsBelow
<1>8. (dnd => Unread \subseteq gaps)'
  BY <1>1, <1>2 DEF Unread
<1>9. TypeInv'
  BY <1>1, <1>2, <1>6 DEF WakeInv, TypeInv
<1> QED BY <1>1, <1>2, <1>6, <1>7, <1>8, <1>9 DEF WakeInv


\* A step of the consumer: it claims, submits, observes or gives up events, and
\* leaves their texts alone.
LEMMA ConsumerKeepsQueue ==
  ASSUME WakeInv, native' \in [Wakes -> Event],
         \A w \in Wakes :
           /\ native'[w].status = "none" <=> native[w].status = "none"
           /\ native[w].status = "cancelled" => native'[w].status = "cancelled"
           /\ native'[w].text = native[w].text,
         UNCHANGED <<msg, dnd, file, made, gate, gaps, handed>>,
         consumer' \in BOOLEAN, trouble' \in 0 .. MaxTrouble
  PROVE  WakeInv'
<1> DEFINE nt == native'
<1>1. /\ nt \in [Wakes -> Event]
      /\ \A w \in Wakes :
           /\ nt[w].status = "none" <=> native[w].status = "none"
           /\ native[w].status = "cancelled" => nt[w].status = "cancelled"
           /\ nt[w].text = native[w].text
  OBVIOUS
<1> HIDE DEF nt
<1>2. \A q : Good(q, native, msg, gaps, handed) => Good(q, nt, msg, gaps, handed)
  BY <1>1, EventsGood
<1>3. EventsBelow(nt, made) /\ TextsApart(nt, gaps \cup handed)
  BY <1>1 DEF WakeInv, EventsBelow, TextsApart
<1>4. (dnd => Unread \subseteq gaps)'
  BY DEF WakeInv, Unread
<1>5. /\ Below(file, made) /\ Good(file, nt, msg, gaps, handed)
      /\ gate.pc # "idle" => Below(gate.q, made) /\ Good(gate.q, nt, msg, gaps, handed)
      /\ gate.pc = "deliver" => Fit(gate.q, gate.want, gate.deferred, msg, gaps)
  BY <1>2 DEF WakeInv
<1>6. TypeInv'
  BY <1>1 DEF WakeInv, TypeInv, nt
<1> QED BY <1>3, <1>4, <1>5, <1>6 DEF WakeInv, nt

LEMMA SetEventFacts ==
  ASSUME native \in [Wakes -> Event], NEW w \in Wakes, NEW status \in Statuses \ {"none"},
         SetEvent(w, status), native[w].status \notin {"none", "cancelled"}
  PROVE  /\ native' \in [Wakes -> Event]
         /\ \A v \in Wakes :
              /\ native'[v].status = "none" <=> native[v].status = "none"
              /\ native[v].status = "cancelled" => native'[v].status = "cancelled"
              /\ native'[v].text = native[v].text
<1> DEFINE e == native[w]
           f == [e EXCEPT !.status = status, !.old = FALSE]
           nt == native'
<1>1. e \in Event /\ e.status \notin {"none", "cancelled"}
  OBVIOUS
<1>2. nt = [native EXCEPT ![w] = f]
  BY DEF SetEvent
<1> HIDE DEF e, nt
<1>3. f \in Event /\ f.status = status /\ f.text = e.text
  BY <1>1 DEF Event
<1> HIDE DEF f
<1>4. nt \in [Wakes -> Event] /\ nt[w] = f /\ \A v \in Wakes : v # w => nt[v] = native[v]
  BY <1>2, <1>3
<1>5. /\ nt \in [Wakes -> Event]
      /\ \A v \in Wakes :
           /\ nt[v].status = "none" <=> native[v].status = "none"
           /\ native[v].status = "cancelled" => nt[v].status = "cancelled"
           /\ nt[v].text = native[v].text
  BY <1>1, <1>3, <1>4 DEF e
<1> QED BY <1>5 DEF nt

LEMMA ConsumerStepKeeps ==
  ASSUME WakeAssumption, WakeInv,
         \/ ConsumerStart \/ ConsumerDies
         \/ \E w \in Wakes : \/ Claim(w) \/ Submit(w) \/ NotSubmitted(w)
                             \/ Observe(w) \/ RetireStale(w)
  PROVE  WakeInv'
<1>1. native \in [Wakes -> Event] /\ consumer \in BOOLEAN /\ trouble \in 0 .. MaxTrouble
  BY DEF WakeInv, TypeInv
<1>2. \A kind : Misfortune(kind) => trouble' \in 0 .. MaxTrouble
  BY <1>1 DEF Misfortune, WakeAssumption
<1>3. CASE ConsumerStart
  <2> DEFINE nt == native'
  <2>1. nt = [w \in Wakes |->
                 IF native[w].status = "submitting"
                 THEN [native[w] EXCEPT !.status = "uncertain", !.old = FALSE]
                 ELSE native[w]]
    BY <1>3 DEF ConsumerStart
  <2> HIDE DEF nt
  <2>2. ASSUME NEW w \in Wakes
        PROVE  /\ nt[w] \in Event
               /\ nt[w].status = "none" <=> native[w].status = "none"
               /\ native[w].status = "cancelled" => nt[w].status = "cancelled"
               /\ nt[w].text = native[w].text
    <3> DEFINE e == native[w]
               f == [e EXCEPT !.status = "uncertain", !.old = FALSE]
    <3>1. e \in Event
      BY <1>1
    <3>2. nt[w] = e \/ (nt[w] = f /\ e.status = "submitting")
      BY <2>1
    <3> HIDE DEF e
    <3>3. f \in Event /\ f.status = "uncertain" /\ f.text = e.text
      BY <3>1 DEF Event, Statuses
    <3> HIDE DEF f
    <3>4. /\ nt[w] \in Event
          /\ nt[w].status = "none" <=> e.status = "none"
          /\ e.status = "cancelled" => nt[w].status = "cancelled"
          /\ nt[w].text = e.text
      BY <3>1, <3>2, <3>3
    <3> QED BY <3>4 DEF e
  <2>3. nt \in [Wakes -> Event]
    <3>1. nt = [w \in Wakes |-> nt[w]]
      BY <2>1
    <3> QED BY <2>2, <3>1
  <2>4. /\ UNCHANGED <<msg, dnd, file, made, gate, gaps, handed>>
        /\ consumer' \in BOOLEAN /\ trouble' \in 0 .. MaxTrouble
    BY <1>1, <1>3 DEF ConsumerStart, history
  <2> QED BY <2>2, <2>3, <2>4, ConsumerKeepsQueue DEF nt
<1>4. CASE ConsumerDies
  <2>1. /\ UNCHANGED <<msg, dnd, file, made, gate, native, gaps, handed>>
        /\ consumer' \in BOOLEAN
    BY <1>4 DEF ConsumerDies, Submission, history
  <2>2. trouble' \in 0 .. MaxTrouble
    BY <1>2, <1>4 DEF ConsumerDies
  <2> QED BY <1>1, <2>1, <2>2, ConsumerKeepsQueue
<1>5. ASSUME NEW w \in Wakes,
             Claim(w) \/ Submit(w) \/ NotSubmitted(w) \/ Observe(w) \/ RetireStale(w)
      PROVE  WakeInv'
  <2>1. /\ \E status \in Statuses \ {"none"} : SetEvent(w, status)
        /\ native[w].status \notin {"none", "cancelled"}
    BY <1>5 DEF Claim, Submit, NotSubmitted, Observe, RetireStale, Statuses
  <2>2. /\ UNCHANGED <<msg, dnd, file, made, gate, gaps, handed>>
        /\ consumer' \in BOOLEAN
    BY <1>1, <1>5
       DEF Claim, Submit, NotSubmitted, Observe, RetireStale, Submission, history
  <2>3. trouble' \in 0 .. MaxTrouble
    BY <1>1, <1>2, <1>5 DEF Claim, Submit, NotSubmitted, Observe, RetireStale
  <2>4. /\ native' \in [Wakes -> Event]
        /\ \A v \in Wakes :
              /\ native'[v].status = "none" <=> native[v].status = "none"
              /\ native[v].status = "cancelled" => native'[v].status = "cancelled"
              /\ native'[v].text = native[v].text
    BY <1>1, <2>1, SetEventFacts
  <2> QED BY <2>2, <2>3, <2>4, ConsumerKeepsQueue
<1> QED BY <1>3, <1>4, <1>5

\* Time passes for batches that were delivered.
LEMMA AgedGood ==
  ASSUME NEW q \in Queue, NEW r, NEW nat, NEW ms, NEW gp, NEW hd, NEW n,
         Good(q, nat, ms, gp, hd), Below(q, n),
         \A w \in Wakes :
           /\ r[w].ids = q[w].ids /\ r[w].checked = q[w].checked
           /\ r[w].status = q[w].status /\ r[w].released = q[w].released
           /\ q[w].at >= 2 => r[w].at >= 2
  PROVE  Good(r, nat, ms, gp, hd) /\ Below(r, n)
<1>1. Blank(r) /\ Apart(r) /\ Met(r, ms) /\ Called(r, nat) /\ Below(r, n)
  BY DEF Good, Blank, Apart, Met, Called, Below
<1>2. Held(r, ms, gp)
  BY DEF Good, Held
<1>3. Waits(r, nat) /\ Single(r, nat) /\ Counted(r, nat, ms, gp \cup hd)
  BY DEF Good, Waits, Single, Engaged, Counted
<1> QED BY <1>1, <1>2, <1>3 DEF Good


LEMMA TimeKeeps ==
  ASSUME WakeAssumption, WakeInv, (\E w \in Wakes : Minutes(w)) \/ Day
  PROVE  WakeInv'
<1>1. /\ native \in [Wakes -> Event] /\ consumer \in BOOLEAN /\ file \in Queue
      /\ trouble \in 0 .. MaxTrouble /\ made \in 0 .. MaxWakes
      /\ msg \in [Keys -> MsgStates] /\ dnd \in BOOLEAN
      /\ Good(file, native, msg, gaps, handed) /\ Below(file, made)
      /\ EventsBelow(native, made) /\ TextsApart(native, gaps \cup handed)
      /\ dnd => Unread \subseteq gaps
  BY DEF WakeInv, TypeInv
<1> DEFINE r == file'
           nt == native'
<1>2. /\ gate.pc = "idle" /\ UNCHANGED <<msg, dnd, made, gate, consumer, gaps, handed>>
      /\ trouble' \in 0 .. MaxTrouble
  BY <1>1 DEF Minutes, Day, Misfortune, history, WakeAssumption
<1>3. /\ r = [w \in Wakes |-> r[w]]
      /\ \A w \in Wakes : \/ r[w] = file[w]
                          \/ r[w] = [file[w] EXCEPT !.at = 2]
                          \/ r[w] = [file[w] EXCEPT !.at = 3]
  <2>1. CASE \E w \in Wakes : Minutes(w)
    <3>1. PICK w \in Wakes : r = [file EXCEPT ![w].at = 2]
      BY <2>1 DEF Minutes
    <3>2. r = [file EXCEPT ![w] = [file[w] EXCEPT !.at = 2]]
      BY <3>1
    <3> HIDE DEF r
    <3> QED BY <1>1, <3>2 DEF Queue
  <2>2. CASE Day
    <3>1. r = [w \in Wakes |-> IF file[w].at = 0 THEN file[w]
                               ELSE [file[w] EXCEPT !.at = 3]]
      BY <2>2 DEF Day
    <3> HIDE DEF r
    <3> QED BY <3>1
  <2> QED BY <2>1, <2>2
<1>4. /\ nt = [w \in Wakes |-> nt[w]]
      /\ \A w \in Wakes : nt[w] = native[w] \/ nt[w] = [native[w] EXCEPT !.old = TRUE]
  <2>1. CASE \E w \in Wakes : Minutes(w)
    <3>1. nt = native
      BY <2>1 DEF Minutes
    <3> HIDE DEF nt
    <3> QED BY <1>1, <3>1
  <2>2. CASE Day
    <3>1. nt = [w \in Wakes |-> IF native[w].status = "none" THEN native[w]
                                ELSE [native[w] EXCEPT !.old = TRUE]]
      BY <2>2 DEF Day
    <3> HIDE DEF nt
    <3> QED BY <3>1
  <2> QED BY <2>1, <2>2
<1> HIDE DEF r, nt
<1>5. ASSUME NEW w \in Wakes
      PROVE  /\ r[w] \in Batch /\ r[w].coalesced \subseteq r[w].ids
             /\ r[w].ids = file[w].ids /\ r[w].checked = file[w].checked
             /\ r[w].status = file[w].status /\ r[w].released = file[w].released
             /\ file[w].at >= 2 => r[w].at >= 2
  <2> DEFINE b == file[w]
  <2>1. b \in Batch /\ b.coalesced \subseteq b.ids
    BY <1>1 DEF Queue
  <2>2. \/ r[w] = b
        \/ r[w] = [b EXCEPT !.at = 2]
        \/ r[w] = [b EXCEPT !.at = 3]
    BY <1>3
  <2> HIDE DEF b
  <2>3. ASSUME NEW i \in {2, 3}, NEW c, c = [b EXCEPT !.at = i]
        PROVE  /\ c \in Batch /\ c.ids = b.ids /\ c.checked = b.checked
               /\ c.coalesced = b.coalesced
               /\ c.status = b.status /\ c.released = b.released /\ c.at >= 2
    BY <2>1, <2>3 DEF Batch
  <2>4. /\ r[w] \in Batch /\ r[w].coalesced \subseteq r[w].ids
        /\ r[w].ids = b.ids /\ r[w].checked = b.checked
        /\ r[w].status = b.status /\ r[w].released = b.released
        /\ b.at >= 2 => r[w].at >= 2
    <3>1. CASE r[w] = b
      BY <2>1, <3>1
    <3>2. CASE \E i \in {2, 3} : r[w] = [b EXCEPT !.at = i]
      BY <2>1, <2>3, <3>2
    <3> QED BY <2>2, <3>1, <3>2
  <2> QED BY <2>4 DEF b
<1>6. r \in Queue
  BY <1>3, <1>5 DEF Queue
<1>7. ASSUME NEW w \in Wakes
      PROVE  /\ nt[w] \in Event /\ nt[w].status = native[w].status
             /\ nt[w].text = native[w].text
  <2> DEFINE e == native[w]
             f == [e EXCEPT !.old = TRUE]
  <2>1. e \in Event
    BY <1>1
  <2>2. nt[w] = e \/ nt[w] = f
    BY <1>4
  <2> HIDE DEF e
  <2>3. f \in Event /\ f.status = e.status /\ f.text = e.text
    BY <2>1 DEF Event
  <2> HIDE DEF f
  <2>4. nt[w] \in Event /\ nt[w].status = e.status /\ nt[w].text = e.text
    BY <2>1, <2>2, <2>3
  <2> QED BY <2>4 DEF e
<1>8. nt \in [Wakes -> Event]
  BY <1>4, <1>7
<1>9. Good(r, native, msg, gaps, handed) /\ Below(r, made)
  BY <1>1, <1>5, AgedGood
<1>10. Good(r, nt, msg, gaps, handed)
  BY <1>7, <1>9, EventsGood
<1>11. EventsBelow(nt, made) /\ TextsApart(nt, gaps \cup handed)
  BY <1>1, <1>7 DEF EventsBelow, TextsApart
<1>12. (dnd => Unread \subseteq gaps)'
  BY <1>1, <1>2 DEF Unread
<1>13. TypeInv'
  BY <1>1, <1>2, <1>6, <1>8 DEF WakeInv, TypeInv, r, nt
<1> QED BY <1>2, <1>9, <1>10, <1>11, <1>12, <1>13 DEF WakeInv, r, nt

\* A message arrives while the gate may be held; one that was read is not
\* read again by a queue that could not be saved.
LEMMA ArriveKeeps ==
  ASSUME WakeInv, NEW k \in Keys, Arrive(k)
  PROVE  WakeInv'
<1>1. /\ msg \in [Keys -> MsgStates] /\ msg[k] = "none"
      /\ msg' = [msg EXCEPT ![k] = "unread"]
      /\ gaps' = IF dnd THEN gaps \cup {k} ELSE gaps
      /\ UNCHANGED <<dnd, file, made, gate, native, consumer, trouble, handed>>
  BY DEF Arrive, WakeInv, TypeInv
<1>2. Onward(msg, msg') /\ gaps \subseteq gaps'
  BY <1>1 DEF Onward
<1>3. \A w \in Wakes : native[w].text \subseteq Keys
  BY DEF WakeInv, TypeInv, Event
<1>4. /\ file \in Queue /\ gate.q \in Queue
      /\ Good(file, native, msg, gaps, handed)
      /\ gate.pc # "idle" => Good(gate.q, native, msg, gaps, handed)
  BY DEF WakeInv, TypeInv, Gate
<1>5. Good(file, native, msg', gaps', handed)
  BY <1>2, <1>3, <1>4, LookGood
<1>6. gate.pc # "idle" => Good(gate.q, native, msg', gaps', handed)
  <2> DEFINE q == gate.q
  <2>1. q \in Queue /\ (gate.pc # "idle" => Good(q, native, msg, gaps, handed))
    BY <1>4
  <2> HIDE DEF q
  <2>2. gate.pc # "idle" => Good(q, native, msg', gaps', handed)
    BY <1>2, <1>3, <2>1, LookGood
  <2> QED BY <2>2 DEF q
<1>7. gate.pc = "deliver" => Fit(gate.q, gate.want, gate.deferred, msg', gaps')
  <2> SUFFICES ASSUME gate.pc = "deliver"
               PROVE  Fit(gate.q, gate.want, gate.deferred, msg', gaps')
    OBVIOUS
  <2>1. Fit(gate.q, gate.want, gate.deferred, msg, gaps)
    BY DEF WakeInv
  <2>2. \A w \in Wakes : k \notin gate.q[w].ids
    BY <1>1, <1>4 DEF Good, Met
  <2>3. k \notin gate.want
    BY <1>1, <2>1 DEF Fit
  <2>4. \A w \in Wakes : gate.q[w].ids \subseteq Keys
    BY <1>4 DEF Queue, Batch
  <2> QED BY <1>1, <1>2, <2>1, <2>2, <2>3, <2>4 DEF Fit
<1>8. (dnd => Unread \subseteq gaps)'
  BY <1>1 DEF WakeInv, Unread
<1>9. TextsApart(native, gaps' \cup handed) /\ EventsBelow(native, made)
  BY <1>2 DEF WakeInv, TextsApart
<1>10. TypeInv'
  BY <1>1 DEF WakeInv, TypeInv, MsgStates
<1>11. Below(file, made) /\ (gate.pc # "idle" => Below(gate.q, made))
  BY DEF WakeInv
<1> QED BY <1>1, <1>5, <1>6, <1>7, <1>8, <1>9, <1>10, <1>11 DEF WakeInv

LEMMA ReadUnsavedKeeps ==
  ASSUME WakeAssumption, WakeInv, NEW S, NEW to \in {"fetched", "read"}, ReadUnsaved(S, to)
  PROVE  WakeInv'
<1>1. /\ msg \in [Keys -> MsgStates] /\ gate.pc = "idle"
      /\ S \subseteq {k \in Keys : msg[k] = "unread"}
      /\ msg' = [k \in Keys |-> IF k \in S THEN to ELSE msg[k]]
      /\ trouble' \in 0 .. MaxTrouble
      /\ UNCHANGED <<dnd, file, made, gate, native, consumer, gaps, handed>>
  BY DEF ReadUnsaved, WakeInv, TypeInv, Misfortune, history, WakeAssumption
<1>2. Onward(msg, msg')
  BY <1>1 DEF Onward
<1>3. \A w \in Wakes : native[w].text \subseteq Keys
  BY DEF WakeInv, TypeInv, Event
<1>4. Good(file, native, msg', gaps, handed)
  BY <1>2, <1>3, LookGood DEF WakeInv, TypeInv
<1>5. (dnd => Unread \subseteq gaps)'
  BY <1>1 DEF WakeInv, Unread
<1>6. TypeInv'
  BY <1>1 DEF WakeInv, TypeInv, MsgStates
<1> QED BY <1>1, <1>4, <1>5, <1>6 DEF WakeInv

\* The gate is given back, with its queue on disk or without.
LEMMA GateKeeps ==
  ASSUME WakeAssumption, WakeInv, Save \/ GateLost
  PROVE  WakeInv'
<1>1. /\ gate.pc # "idle" /\ gate' = NoGate /\ file' \in {file, gate.q}
      /\ trouble' \in 0 .. MaxTrouble
      /\ UNCHANGED <<msg, dnd, made, native, consumer, gaps, handed>>
  BY DEF Save, GateLost, WakeInv, TypeInv, Misfortune, history, WakeAssumption
<1>2. gate' \in Gate /\ gate'.pc = "idle"
  BY <1>1, NoGateFacts
<1>3. /\ file' \in Queue /\ Below(file', made)
      /\ Good(file', native, msg, gaps, handed)
  BY <1>1 DEF WakeInv, TypeInv, Gate
<1>4. (dnd => Unread \subseteq gaps)'
  BY <1>1 DEF WakeInv, Unread
<1>5. TypeInv'
  BY <1>1, <1>2, <1>3 DEF WakeInv, TypeInv
<1> QED BY <1>1, <1>2, <1>3, <1>4, <1>5 DEF WakeInv


LEMMA WakeStart ==
  ASSUME WakeAssumption, WakeInit
  PROVE  WakeInv
<1> DEFINE z == [w \in Wakes |-> NoBatch]
           e == [w \in Wakes |-> NoEvent]
<1>1. /\ msg = [k \in Keys |-> "none"] /\ dnd = FALSE /\ file = z /\ made = 0
      /\ gate = NoGate /\ native = e /\ consumer = FALSE /\ trouble = 0
      /\ gaps = {} /\ handed = {}
  BY DEF WakeInit
<1>2. gate \in Gate /\ gate.pc = "idle"
  BY <1>1, NoGateFacts
<1>3. /\ NoEvent \in Event /\ NoEvent.status = "none" /\ NoEvent.text = {}
  BY DEF NoEvent, Event, Statuses
<1>4. /\ z \in [Wakes -> Batch]
      /\ \A w \in Wakes : /\ z[w].ids = {} /\ z[w].status = "none" /\ z[w].checked = {}
                          /\ z[w].coalesced = {} /\ z[w].released = FALSE
  BY NoBatchFacts
<1>5. /\ e \in [Wakes -> Event]
      /\ \A w \in Wakes : e[w].status = "none" /\ e[w].text = {}
  BY <1>3
<1> HIDE DEF z, e
<1>6. z \in Queue
  BY <1>4 DEF Queue
<1>7. Blank(z) /\ Apart(z) /\ Met(z, msg) /\ Held(z, msg, gaps) /\ Called(z, e)
  BY <1>4 DEF Blank, Apart, Met, Held, Called
<1>8. Waits(z, e) /\ Single(z, e) /\ Counted(z, e, msg, gaps \cup handed)
  BY <1>5 DEF Waits, Single, Engaged, Counted
<1>9. Below(z, made) /\ EventsBelow(e, made) /\ TextsApart(e, gaps \cup handed)
  BY <1>4, <1>5 DEF Below, EventsBelow, TextsApart
<1>10. TypeInv
  <2>1. made \in 0 .. MaxWakes /\ trouble \in 0 .. MaxTrouble
    BY <1>1 DEF WakeAssumption
  <2>2. msg \in [Keys -> MsgStates]
    BY <1>1 DEF MsgStates
  <2> QED BY <1>1, <1>2, <1>5, <1>6, <2>1, <2>2 DEF TypeInv
<1> QED BY <1>1, <1>2, <1>7, <1>8, <1>9, <1>10 DEF WakeInv, Good

LEMMA WakeStep ==
  ASSUME WakeAssumption, WakeInv, [WakeNext]_vars
  PROVE  WakeInv'
<1>1. CASE Deliver
  BY <1>1, DeliverKeeps
<1>2. CASE Save \/ GateLost
  BY <1>2, GateKeeps
<1>3. ASSUME NEW D \in SUBSET TaskKeys, Tick(D) \/ ReconcileStops(D) \/ SetDnd(D)
      PROVE  WakeInv'
  BY <1>3, TickKeeps, ReconcileStopsKeeps, SetDndKeeps
<1>4. ASSUME NEW D \in SUBSET TaskKeys, NEW S \in SUBSET Keys, ReadPage(S, D) \/ MarkRead(S, D)
      PROVE  WakeInv'
  BY <1>4, ReadPageKeeps, MarkReadKeeps
<1>5. ASSUME NEW S \in SUBSET Keys, NEW to \in {"fetched", "read"}, ReadUnsaved(S, to)
      PROVE  WakeInv'
  BY <1>5, ReadUnsavedKeeps
<1>6. ASSUME NEW k \in Keys, Arrive(k)
      PROVE  WakeInv'
  BY <1>6, ArriveKeeps
<1>7. CASE \/ ConsumerStart \/ ConsumerDies
           \/ \E w \in Wakes : \/ Claim(w) \/ Submit(w) \/ NotSubmitted(w)
                               \/ Observe(w) \/ RetireStale(w)
  BY <1>7, ConsumerStepKeeps
<1>8. CASE (\E w \in Wakes : Minutes(w)) \/ Day
  BY <1>8, TimeKeeps
<1>9. CASE UNCHANGED vars
  <2>1. UNCHANGED <<msg, dnd, file, made, gate, native, consumer, trouble, handed, gaps>>
    BY <1>9 DEF vars
  <2>2. TypeInv' /\ (dnd => Unread \subseteq gaps)'
    BY <2>1 DEF WakeInv, TypeInv, Unread
  <2> QED BY <2>1, <2>2 DEF WakeInv
<1> QED BY <1>1, <1>2, <1>3, <1>4, <1>5, <1>6, <1>7, <1>8, <1>9 DEF WakeNext

LEMMA WakeInvariant == WakeSpec => []WakeInv
<1>1. WakeInit => WakeInv
  BY WakeAssumption, WakeStart
<1>2. WakeInv /\ [WakeNext]_vars => WakeInv'
  BY WakeAssumption, WakeStep
<1> QED BY <1>1, <1>2, PTL DEF WakeSpec

-----------------------------------------------------------------------------
\* Batches on disk and in the gate, events and the gate keep their shape
\* through every split, absorption, expiry, compaction and rebuild of a queue
\* (delivery.rs), and the counters their bounds.
THEOREM WakeTypeCorrect == WakeSpec => []WakeTypeOK
<1>1. WakeInv => WakeTypeOK
  <2> SUFFICES ASSUME WakeInv PROVE WakeTypeOK
    OBVIOUS
  <2>1. TypeInv /\ gate.q \in Queue /\ gate.pc \in {"idle", "deliver", "save"}
    BY DEF WakeInv, TypeInv, Gate
  <2>2. ASSUME NEW q \in Queue, NEW w \in Wakes
        PROVE  BatchOK(q[w])
    BY DEF Queue, Batch, BatchStatuses, BatchOK
  <2> QED BY <2>1, <2>2 DEF TypeInv, WakeTypeOK, MsgStates, Event, Statuses
<1> QED BY <1>1, WakeInvariant, PTL

\* No message is counted by the submitted texts of two wakes, but for one that
\* an expired latch handed on or that was unread in a do-not-disturb gap: a
\* text is cut to its batch's keys whenever the event is still unclaimed, and
\* no queue, however old, has a key in two batches.
THEOREM ToldOnceSafe == WakeSpec => []ToldOnce
<1>1. WakeInv => ToldOnce
  <2> SUFFICES ASSUME WakeInv, NEW k \in Keys, Cardinality(Told(k)) > 1,
                      k \notin handed \cup gaps
               PROVE  FALSE
    BY DEF ToldOnce
  <2>1. \A v, w \in Told(k) : v = w
    BY DEF WakeInv, TextsApart, Told
  <2>2. Told(k) = {} \/ \E w : Told(k) = {w}
    BY <2>1
  <2>3. Told(k) = {} => Cardinality(Told(k)) = 0
    BY FS_EmptySet
  <2>4. \A w : Told(k) = {w} => Cardinality(Told(k)) = 1
    BY FS_Singleton
  <2> QED BY <2>2, <2>3, <2>4
<1> QED BY <1>1, WakeInvariant, PTL

\* While one wake waits for the session no second one does, but for batches
\* with a key of a task: the latch and "a successor waits" hold across every
\* checkpoint at which a tick or an RPC may end.
THEOREM QuietSafe == WakeSpec => []QuietWhileLatched
<1>1. WakeInv => QuietWhileLatched
  <2> SUFFICES ASSUME WakeInv PROVE QuietWhileLatched
    OBVIOUS
  <2>1. file \in Queue /\ Good(file, native, msg, gaps, handed)
    BY DEF WakeInv, TypeInv
  <2>2. ASSUME NEW w \in Wakes, Awaiting(w)
        PROVE  Engaged(file, native, w)
    <3>1. PICK k \in native[w].text : msg[k] = "unread" /\ k \notin gaps \cup handed
      BY <2>2 DEF Awaiting
    <3>2. k \in file[w].ids
      BY <2>1, <3>1 DEF Good, Counted
    <3>3. file[w].status # "none"
      BY <2>1, <3>2 DEF Good, Blank
    <3>4. file[w].at < 2 /\ file[w].at \in 0 .. 3 /\ file[w].released \in BOOLEAN
      BY <2>1, <2>2 DEF Awaiting, Queue, Batch
    <3>5. ~file[w].released
      BY <2>1, <3>1, <3>2, <3>4 DEF Good, Held
    <3> QED BY <2>2, <3>3, <3>5 DEF Engaged, Awaiting
  <2>3. Single(file, native)
    BY <2>1 DEF Good
  <2> QED BY <2>2, <2>3 DEF QuietWhileLatched, Single
<1> QED BY <1>1, WakeInvariant, PTL
===============================================================================
