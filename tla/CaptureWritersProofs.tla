------------------------ MODULE CaptureWritersProofs ------------------------
(* Proofs about the two writer threads: for every capacity, batch size and set   *)
(* of trades, what is lost is counted.                                           *)
(*                                                                               *)
(* The feed writer's argument is an account: every row accepted is stored, in the *)
(* channel, in a batch, or counted. The evidence writer's is a ledger: the        *)
(* database, together with the events that are pending, says what the runtime    *)
(* holds. Both need the order of the shutdown: a Shutdown message is the last of  *)
(* its channel, so that a thread which stops at it leaves nothing behind.        *)
EXTENDS CaptureWriters, TLAPS, FiniteSetTheorems, SequenceTheorems

-----------------------------------------------------------------------------
(* Counting the rows of a channel. *)

ClosedBy(q) == q # << >> /\ q[Len(q)] = Shutdown
RowsOf(q) == IF ClosedBy(q) THEN Len(q) - 1 ELSE Len(q)

\* With Shutdown nowhere but at its end, a channel holds as many rows as it is long,
\* or one less.
LEMMA QueuedIsRowsOf ==
    ASSUME NEW w, w.queue \in Seq(Classes \cup {Shutdown}),
           \A i \in DOMAIN w.queue : w.queue[i] = Shutdown => i = Len(w.queue)
    PROVE  Queued(w) = RowsOf(w.queue) /\ RowsOf(w.queue) \in Nat
<1> DEFINE q == w.queue
<1>1. Len(q) \in Nat /\ DOMAIN q = 1..Len(q)
    OBVIOUS
<1>2. \A n \in Nat : Cardinality(1..n) = n
    <2> SUFFICES ASSUME NEW n \in Nat PROVE Cardinality(1..n) = n
        OBVIOUS
    <2> QED BY FS_Interval
<1>3. CASE ClosedBy(q)
    <2>1. Len(q) - 1 \in Nat
        BY <1>1, <1>3 DEF ClosedBy
    <2>2. {i \in DOMAIN q : q[i] # Shutdown} = 1..(Len(q) - 1)
        BY <1>1, <1>3, <2>1 DEF ClosedBy
    <2> QED BY <1>2, <1>3, <2>1, <2>2 DEF Queued, RowsOf
<1>4. CASE ~ClosedBy(q)
    <2>1. {i \in DOMAIN q : q[i] # Shutdown} = 1..Len(q)
        BY <1>1, <1>4 DEF ClosedBy
    <2> QED BY <1>1, <1>2, <1>4, <2>1 DEF Queued, RowsOf
<1> QED BY <1>3, <1>4

-----------------------------------------------------------------------------
(* The feed writer. *)

\* The queued rows of a state that keeps the order of the shutdown.
LEMMA QueuedNow ==
    ASSUME FeedTypeOK, FeedStopsLast
    PROVE  Queued(feed) = RowsOf(feed.queue) /\ RowsOf(feed.queue) \in Nat
BY QueuedIsRowsOf DEF FeedTypeOK, FeedStopsLast

LEMMA QueuedNext ==
    ASSUME FeedTypeOK', FeedStopsLast'
    PROVE  Queued(feed') = RowsOf(feed'.queue) /\ RowsOf(feed'.queue) \in Nat
BY QueuedIsRowsOf DEF FeedTypeOK, FeedStopsLast

\* Before the hang-up no Shutdown message is in the channel.
LEMMA NoStopYet ==
    ASSUME FeedTypeOK, FeedStopsLast, ~FeedHungUp
    PROVE  RowsOf(feed.queue) = Len(feed.queue) /\ Len(feed.queue) \in Nat
           /\ \A i \in DOMAIN feed.queue : feed.queue[i] # Shutdown
BY DEF FeedTypeOK, FeedStopsLast, RowsOf, ClosedBy

LEMMA FeedRowsKeeps ==
    ASSUME TypeOK, FeedInv, NEW class \in Classes, NEW n \in Nat, FeedRows(class, n)
    PROVE  FeedTypeOK' /\ FeedInv'
<1> DEFINE k == Taken(n)
           q == feed.queue
           s == [i \in 1..k |-> class]
<1>1. /\ FeedTypeOK /\ FeedStopsLast /\ RowsAccounted
      /\ stage = "running" /\ stage' = stage /\ ~FeedHungUp
    BY DEF TypeOK, FeedInv, FeedRows, FeedHungUp
<1>2. q \in Seq(Classes \cup {Shutdown}) /\ Len(q) \in Nat /\ Len(q) <= FeedCap
    BY <1>1 DEF FeedTypeOK
<1>3. k \in Nat /\ Len(q) + k <= FeedCap /\ (k > 0 => Connected(feed))
    <2>1. FeedCap \in Nat
        BY CaptureAssumption
    <2>2. CASE ~Connected(feed)
        BY <1>2, <2>1, <2>2 DEF Taken
    <2>3. CASE Connected(feed) /\ n <= FeedCap - Len(q)
        <3>1. k = n
            BY <2>3 DEF Taken
        <3> QED BY <1>2, <2>1, <2>3, <3>1
    <2>4. CASE Connected(feed) /\ ~(n <= FeedCap - Len(q))
        <3>1. k = FeedCap - Len(q)
            BY <2>4 DEF Taken
        <3> QED BY <1>2, <2>1, <2>4, <3>1
    <2> QED BY <2>2, <2>3, <2>4
<1>4. feed' = [feed EXCEPT !.queue = q \o s, !.enqueued = @ + k,
                          !.counted = IF k < n THEN @ \cup {"dropped"} ELSE @]
      /\ feed.enqueued + k <= MaxRows
    BY DEF FeedRows
<1>5. s \in Seq(Classes \cup {Shutdown}) /\ Len(s) = k
    BY <1>3
<1> HIDE DEF k, q, s
<1>6. /\ feed'.queue = q \o s /\ feed'.enqueued = feed.enqueued + k
      /\ feed'.phase = feed.phase /\ feed'.generic = feed.generic /\ feed'.clob = feed.clob
      /\ feed'.persisted = feed.persisted
      /\ feed'.counted = IF k < n THEN feed.counted \cup {"dropped"} ELSE feed.counted
    BY <1>1, <1>4 DEF FeedTypeOK
<1>7. /\ q \o s \in Seq(Classes \cup {Shutdown}) /\ Len(q \o s) = Len(q) + k
      /\ \A i \in 1..Len(q \o s) : (q \o s)[i] = IF i <= Len(q) THEN q[i] ELSE s[i - Len(q)]
    BY <1>2, <1>5, ConcatProperties
<1>8. \A i \in 1..Len(q \o s) : (q \o s)[i] # Shutdown
    <2>1. \A i \in 1..Len(q) : q[i] # Shutdown
        BY <1>1, <1>2, NoStopYet DEF q
    <2>2. \A i \in 1..k : s[i] # Shutdown
        BY DEF s, Shutdown, Classes
    <2> QED BY <1>2, <1>3, <1>7, <2>1, <2>2
<1>9. FeedTypeOK'
    <2>1. feed.enqueued + k \in 0..MaxRows
        <3>1. feed.enqueued \in Nat /\ MaxRows \in Nat
            BY <1>1, CaptureAssumption DEF FeedTypeOK
        <3> QED BY <1>3, <1>4, <3>1
    <2>2. feed'.counted \in SUBSET Counters
        BY <1>1, <1>6 DEF FeedTypeOK, Counters
    <2> QED BY <1>1, <1>2, <1>3, <1>4, <1>6, <1>7, <2>1, <2>2 DEF FeedTypeOK
<1>10. FeedStopsLast'
    BY <1>1, <1>6, <1>7, <1>8 DEF FeedStopsLast
<1>11. Queued(feed) = Len(q) /\ Queued(feed') = Len(q) + k
    <2>1. RowsOf(q \o s) = Len(q) + k
        <3>1. ~ClosedBy(q \o s)
            BY <1>2, <1>3, <1>7, <1>8 DEF ClosedBy
        <3> QED BY <1>7, <3>1 DEF RowsOf
    <2> QED BY <1>1, <1>6, <1>9, <1>10, <2>1, QueuedNow, QueuedNext, NoStopYet DEF q
<1>12. RowsAccounted'
    <2>1. Connected(feed') = Connected(feed)
        BY <1>6 DEF Connected
    <2>2. Connected(feed) => Held(feed') = Held(feed) + k /\ Held(feed) \in Nat
        <3>1. feed.generic \in Nat /\ feed.clob \in Nat
            BY <1>1, CaptureAssumption DEF FeedTypeOK
        <3>2. Queued(feed) \in Nat /\ Queued(feed') = Queued(feed) + k
            BY <1>2, <1>11
        <3> QED BY <1>3, <1>6, <2>1, <3>1, <3>2 DEF Held
    <2>3. Connected(feed) => Unwritten(feed') = Unwritten(feed)
        BY <1>1, <1>3, <1>6, <2>2 DEF Unwritten, FeedTypeOK
    <2>4. feed'.counted = {} => feed.counted = {}
        BY <1>6
    <2>5. ~(feed'.phase \in {"closing", "ended"} /\ feed'.counted = {})
        BY <1>1, <1>6, <2>4 DEF RowsAccounted
    <2>6. feed'.persisted <= feed'.enqueued
        BY <1>1, <1>3, <1>6 DEF RowsAccounted, FeedTypeOK
    <2> QED BY <1>1, <2>1, <2>3, <2>4, <2>5, <2>6 DEF RowsAccounted
<1> QED BY <1>9, <1>10, <1>12 DEF FeedInv

FeedRecords ==
    [phase : Phases, queue : Seq(Classes \cup {Shutdown}), generic : Nat, clob : Nat,
     enqueued : Nat, persisted : Nat, counted : SUBSET Counters]

Account(w) == w.persisted + w.generic + w.clob

\* What flushing some of its batches may make of the writer w: rows move from a batch
\* to the database, or are counted.
Drains(w, v) ==
    /\ v \in FeedRecords
    /\ v.queue = w.queue /\ v.enqueued = w.enqueued
    /\ v.generic \in {0, w.generic} /\ v.clob \in {0, w.clob}
    /\ v.phase \in {w.phase, "closing"}
    /\ v.counted = {} => w.counted = {}
    /\ Account(v) <= Account(w)
    /\ v.counted = {} => Account(v) = Account(w)

LEMMA FieldTypes ==
    ASSUME NEW w \in FeedRecords
    PROVE  /\ w.persisted \in Nat /\ w.generic \in Nat /\ w.clob \in Nat
           /\ w.enqueued \in Nat /\ Account(w) \in Nat
<1>1. w.persisted \in Nat /\ w.generic \in Nat /\ w.clob \in Nat /\ w.enqueued \in Nat
    BY DEF FeedRecords
<1> QED BY <1>1 DEF Account

LEMMA FlushedDrains ==
    ASSUME NEW w \in FeedRecords, NEW b \in {"generic", "clob"}, NEW o \in Outcomes
    PROVE  /\ Drains(w, Flushed(w, b, o)) /\ Flushed(w, b, o).phase = w.phase
           /\ b = "generic" => Flushed(w, b, o).generic = 0 /\ Flushed(w, b, o).clob = w.clob
           /\ b = "clob" => Flushed(w, b, o).clob = 0 /\ Flushed(w, b, o).generic = w.generic
           /\ (Flushed(w, b, o).counted = {} /\ w[b] # 0) => o = "ok"
<1> DEFINE v == Flushed(w, b, o)
<1>1. CASE w[b] = 0
    <2>1. v = w
        BY <1>1 DEF Flushed
    <2>2. Account(w) <= Account(w)
        BY FieldTypes
    <2> HIDE DEF v
    <2>3. Drains(w, v)
        BY <2>1, <2>2 DEF Drains
    <2>4. b = "generic" => w.generic = 0
        BY <1>1
    <2>5. b = "clob" => w.clob = 0
        BY <1>1
    <2>6. b = "generic" => b # "clob"
        OBVIOUS
    <2> QED BY <1>1, <2>1, <2>3, <2>4, <2>5, <2>6 DEF v
<1>2. CASE w[b] # 0
    <2>1. v = [w EXCEPT ![b] = 0,
                        !.persisted = IF o = "ok" THEN @ + w[b] ELSE @,
                        !.counted = IF o = "ok" THEN @ ELSE @ \cup {"dropped"}]
        BY <1>2 DEF Flushed
    <2> HIDE DEF v
    <2>2. CASE b = "generic"
        <3>1. v = [w EXCEPT !.generic = 0,
                            !.persisted = IF o = "ok" THEN @ + w.generic ELSE @,
                            !.counted = IF o = "ok" THEN @ ELSE @ \cup {"dropped"}]
            BY <2>1, <2>2
        <3>2. /\ v.phase = w.phase /\ v.queue = w.queue /\ v.enqueued = w.enqueued
              /\ v.generic = 0 /\ v.clob = w.clob
              /\ v.persisted = IF o = "ok" THEN w.persisted + w.generic ELSE w.persisted
              /\ v.counted = IF o = "ok" THEN w.counted ELSE w.counted \cup {"dropped"}
            BY <3>1 DEF FeedRecords
        <3>3. v.persisted \in Nat
            BY <3>2 DEF FeedRecords
        <3>4. v.counted \in SUBSET Counters
            BY <3>2 DEF FeedRecords, Counters
        <3>5. v \in FeedRecords
            BY <3>1, <3>2, <3>3, <3>4 DEF FeedRecords
        <3>6. Account(v) <= Account(w) /\ (v.counted = {} => o = "ok")
                /\ (v.counted = {} => Account(v) = Account(w))
            <4>1. w.persisted \in Nat /\ w.generic \in Nat /\ w.clob \in Nat
                BY FieldTypes
            <4>2. CASE o = "ok"
                BY <3>2, <4>1, <4>2 DEF Account
            <4>3. CASE o # "ok"
                <5>1. v.counted # {}
                    BY <3>2, <4>3
                <5> QED BY <3>2, <4>1, <4>3, <5>1 DEF Account
            <4> QED BY <4>2, <4>3
        <3>7. Drains(w, v)
            BY <3>2, <3>5, <3>6 DEF Drains
        <3> QED BY <2>2, <3>2, <3>6, <3>7 DEF v
    <2>3. CASE b = "clob"
        <3>1. v = [w EXCEPT !.clob = 0,
                            !.persisted = IF o = "ok" THEN @ + w.clob ELSE @,
                            !.counted = IF o = "ok" THEN @ ELSE @ \cup {"dropped"}]
            BY <2>1, <2>3
        <3>2. /\ v.phase = w.phase /\ v.queue = w.queue /\ v.enqueued = w.enqueued
              /\ v.clob = 0 /\ v.generic = w.generic
              /\ v.persisted = IF o = "ok" THEN w.persisted + w.clob ELSE w.persisted
              /\ v.counted = IF o = "ok" THEN w.counted ELSE w.counted \cup {"dropped"}
            BY <3>1 DEF FeedRecords
        <3>3. v.persisted \in Nat
            BY <3>2 DEF FeedRecords
        <3>4. v.counted \in SUBSET Counters
            BY <3>2 DEF FeedRecords, Counters
        <3>5. v \in FeedRecords
            BY <3>1, <3>2, <3>3, <3>4 DEF FeedRecords
        <3>6. Account(v) <= Account(w) /\ (v.counted = {} => o = "ok")
                /\ (v.counted = {} => Account(v) = Account(w))
            <4>1. w.persisted \in Nat /\ w.generic \in Nat /\ w.clob \in Nat
                BY FieldTypes
            <4>2. CASE o = "ok"
                BY <3>2, <4>1, <4>2 DEF Account
            <4>3. CASE o # "ok"
                <5>1. v.counted # {}
                    BY <3>2, <4>3
                <5> QED BY <3>2, <4>1, <4>3, <5>1 DEF Account
            <4> QED BY <4>2, <4>3
        <3>7. Drains(w, v)
            BY <3>2, <3>5, <3>6 DEF Drains
        <3> QED BY <2>3, <3>2, <3>6, <3>7 DEF v
    <2> QED BY <2>2, <2>3
<1> QED BY <1>1, <1>2

LEMMA DrainsTwice ==
    ASSUME NEW w \in FeedRecords, NEW u, NEW v, Drains(w, u), Drains(u, v)
    PROVE  Drains(w, v)
<1>1. u \in FeedRecords /\ v \in FeedRecords
    BY DEF Drains
<1>2. Account(u) \in Nat /\ Account(v) \in Nat /\ Account(w) \in Nat
    BY <1>1, FieldTypes
<1>3. /\ Account(v) <= Account(w)
      /\ v.counted = {} => w.counted = {}
      /\ v.counted = {} => Account(v) = Account(w)
    BY <1>2 DEF Drains
<1> QED BY <1>1, <1>3 DEF Drains

\* A thread that ends after its flush is drained the same.
LEMMA DrainsAndEnds ==
    ASSUME NEW w \in FeedRecords, NEW v, Drains(w, v)
    PROVE  /\ Drains(w, [v EXCEPT !.phase = "closing"])
           /\ [v EXCEPT !.phase = "closing"].phase = "closing"
           /\ [v EXCEPT !.phase = "closing"].generic = v.generic
           /\ [v EXCEPT !.phase = "closing"].clob = v.clob
           /\ [v EXCEPT !.phase = "closing"].counted = v.counted
BY DEF Drains, FeedRecords, Account, Phases

LEMMA FlushDueDrains ==
    ASSUME NEW w \in FeedRecords, NEW full \in BOOLEAN, NEW due \in BOOLEAN,
           NEW v \in FlushDue(w, full, due), w.phase = "running"
    PROVE  /\ Drains(w, v)
           /\ full => v.generic = 0
           /\ due /\ ~full => v.clob = 0
           /\ v.phase = "closing" => v.counted # {}
<1> DEFINE first(o) == IF full THEN Flushed(w, "generic", o) ELSE w
           second(o1, o2) == IF due THEN Flushed(first(o1), "clob", o2) ELSE first(o1)
<1>1. \/ \E o \in Outcomes : /\ full /\ w.generic > 0 /\ o = "terminal"
                             /\ v = [first(o) EXCEPT !.phase = "closing"]
      \/ \E o1, o2 \in Outcomes :
            v = [second(o1, o2) EXCEPT
                   !.phase = IF due /\ w.clob > 0 /\ o2 = "terminal" THEN "closing" ELSE @]
    BY DEF FlushDue
<1>2. \A o \in Outcomes : /\ Drains(w, first(o)) /\ first(o).phase = w.phase
                          /\ first(o).clob = w.clob
                          /\ full => first(o).generic = 0
                          /\ (full /\ w.generic > 0 /\ o = "terminal")
                               => first(o).counted # {}
    <2> SUFFICES ASSUME NEW o \in Outcomes
                 PROVE  /\ Drains(w, first(o)) /\ first(o).phase = w.phase
                        /\ first(o).clob = w.clob
                        /\ full => first(o).generic = 0
                        /\ (full /\ w.generic > 0 /\ o = "terminal")
                             => first(o).counted # {}
        OBVIOUS
    <2>1. CASE full
        <3>1. first(o) = Flushed(w, "generic", o)
            BY <2>1
        <3> HIDE DEF first
        <3>2. w.generic > 0 => w["generic"] # 0
            BY FieldTypes
        <3> QED BY <3>1, <3>2, FlushedDrains
    <2>2. CASE ~full
        <3>1. Account(w) <= Account(w)
            BY FieldTypes
        <3> QED BY <2>2, <3>1 DEF Drains
    <2> QED BY <2>1, <2>2
<1>3. CASE \E o \in Outcomes : /\ full /\ w.generic > 0 /\ o = "terminal"
                               /\ v = [first(o) EXCEPT !.phase = "closing"]
    <2>1. PICK o \in Outcomes : /\ full /\ w.generic > 0 /\ o = "terminal"
                                /\ v = [first(o) EXCEPT !.phase = "closing"]
        BY <1>3
    <2> HIDE DEF first
    <2> QED BY <1>2, <2>1, DrainsAndEnds
<1>4. CASE \E o1, o2 \in Outcomes :
             v = [second(o1, o2) EXCEPT
                    !.phase = IF due /\ w.clob > 0 /\ o2 = "terminal" THEN "closing" ELSE @]
    <2>1. PICK o1 \in Outcomes, o2 \in Outcomes :
             v = [second(o1, o2) EXCEPT
                    !.phase = IF due /\ w.clob > 0 /\ o2 = "terminal" THEN "closing" ELSE @]
        BY <1>4
    <2> DEFINE u == first(o1)
               x == second(o1, o2)
    <2>2. u \in FeedRecords /\ Drains(w, u) /\ u.phase = w.phase /\ u.clob = w.clob
          /\ (full => u.generic = 0)
        BY <1>2 DEF Drains
    <2>3. x = IF due THEN Flushed(u, "clob", o2) ELSE u
        OBVIOUS
    <2>4. v = [x EXCEPT !.phase = IF due /\ w.clob > 0 /\ o2 = "terminal"
                                  THEN "closing" ELSE @]
        BY <2>1
    <2> HIDE DEF first, second, u, x
    <2>5. CASE due
        <3>1. /\ Drains(u, x) /\ x.phase = u.phase /\ x.clob = 0 /\ x.generic = u.generic
              /\ (x.counted = {} /\ u["clob"] # 0) => o2 = "ok"
            BY <2>2, <2>3, <2>5, FlushedDrains
        <3>2. Drains(w, x) /\ x \in FeedRecords
            BY <2>2, <3>1, DrainsTwice DEF Drains
        <3>3. CASE w.clob > 0 /\ o2 = "terminal"
            <4>1. v = [x EXCEPT !.phase = "closing"]
                BY <2>4, <2>5, <3>3
            <4>2. u["clob"] # 0
                BY <2>2, <3>3, FieldTypes
            <4> QED BY <2>2, <2>5, <3>1, <3>2, <3>3, <4>1, <4>2, DrainsAndEnds
        <3>4. CASE ~(w.clob > 0 /\ o2 = "terminal")
            <4>1. v = x
                BY <2>4, <3>2, <3>4 DEF FeedRecords
            <4> QED BY <2>2, <3>1, <3>2, <4>1
        <3> QED BY <3>3, <3>4
    <2>6. CASE ~due
        <3>1. v = u
            BY <2>2, <2>3, <2>4, <2>6 DEF FeedRecords
        <3> QED BY <2>2, <2>6, <3>1
    <2> QED BY <2>5, <2>6
<1> QED BY <1>1, <1>3, <1>4

\* A step of the thread takes w from the channel's front, or nothing, and drains it.
LEMMA DrainKeeps ==
    ASSUME TypeOK, FeedInv, stage' = stage,
           NEW w \in FeedRecords, w.phase = "running", w.enqueued = feed.enqueued,
           w.counted = feed.counted, Len(w.queue) <= FeedCap,
           \A i \in DOMAIN w.queue :
             w.queue[i] = Shutdown => i = Len(w.queue) /\ FeedHungUp,
           RowsOf(w.queue) + Account(w) = RowsOf(feed.queue) + Account(feed),
           feed.phase \in {"opening", "running"},
           Drains(w, feed'), feed'.generic < BatchSize, feed'.clob < BlockRows,
           \/ feed'.phase # "closing"
           \/ feed'.counted # {}
           \/ FeedHungUp /\ RowsOf(w.queue) = 0 /\ feed'.generic = 0 /\ feed'.clob = 0
    PROVE  FeedTypeOK' /\ FeedInv'
<1>1. /\ FeedTypeOK /\ FeedStopsLast /\ RowsAccounted /\ FeedHungUp' = FeedHungUp
      /\ BatchSize \in Nat /\ BlockRows \in Nat /\ MaxRows \in Nat
    BY CaptureAssumption DEF TypeOK, FeedInv, FeedHungUp
<1>2. feed \in FeedRecords
    BY <1>1 DEF FeedTypeOK, FeedRecords
<1>3. feed' \in FeedRecords /\ feed'.queue = w.queue /\ feed'.enqueued = feed.enqueued
      /\ feed'.phase \in {"running", "closing"} /\ (feed'.counted = {} => feed.counted = {})
    BY DEF Drains
<1>4. /\ Account(feed) \in Nat /\ Account(feed') \in Nat /\ Account(w) \in Nat
      /\ feed.persisted \in Nat /\ feed.generic \in Nat /\ feed.clob \in Nat
      /\ feed'.persisted \in Nat /\ feed'.generic \in Nat /\ feed'.clob \in Nat
      /\ feed.enqueued \in 0..MaxRows
    <2>1. feed.enqueued \in 0..MaxRows
        BY <1>1 DEF FeedTypeOK
    <2> QED BY <1>2, <1>3, <2>1, FieldTypes
<1>5. RowsOf(feed.queue) \in Nat /\ Queued(feed) = RowsOf(feed.queue)
    BY <1>1, QueuedNow
<1>6. RowsOf(feed'.queue) \in Nat /\ Queued(feed') = RowsOf(w.queue)
    BY <1>3, QueuedIsRowsOf DEF FeedRecords
<1>7. Connected(feed) /\ Connected(feed')
    BY <1>3 DEF Connected
<1>8. /\ Unwritten(feed) = feed.enqueued - (RowsOf(feed.queue) + Account(feed))
      /\ Unwritten(feed') = feed.enqueued - (RowsOf(w.queue) + Account(feed'))
    <2>1. Unwritten(feed) = feed.enqueued - feed.persisted
                              - (RowsOf(feed.queue) + feed.generic + feed.clob)
        BY <1>5, <1>7 DEF Unwritten, Held
    <2>2. Unwritten(feed') = feed.enqueued - feed'.persisted
                              - (RowsOf(w.queue) + feed'.generic + feed'.clob)
        BY <1>3, <1>6, <1>7 DEF Unwritten, Held
    <2>3. RowsOf(w.queue) \in Nat
        BY <1>3, <1>6
    <2>4. \A e, p, r, g, c \in Int : e - p - (r + g + c) = e - (r + (p + g + c))
        OBVIOUS
    <2>5. /\ feed.enqueued \in Int /\ RowsOf(feed.queue) \in Int /\ RowsOf(w.queue) \in Int
          /\ feed.persisted \in Int /\ feed.generic \in Int /\ feed.clob \in Int
          /\ feed'.persisted \in Int /\ feed'.generic \in Int /\ feed'.clob \in Int
        <3>1. feed.enqueued \in Int
            BY <1>1, <1>4
        <3>2. RowsOf(feed.queue) \in Int /\ RowsOf(w.queue) \in Int
            BY <1>5, <2>3
        <3>3. /\ feed.persisted \in Int /\ feed.generic \in Int /\ feed.clob \in Int
              /\ feed'.persisted \in Int /\ feed'.generic \in Int /\ feed'.clob \in Int
            BY <1>4
        <3> QED BY <3>1, <3>2, <3>3
    <2>6. Account(feed) = feed.persisted + feed.generic + feed.clob
        BY DEF Account
    <2>7. Account(feed') = feed'.persisted + feed'.generic + feed'.clob
        BY DEF Account
    <2>8. Unwritten(feed) = feed.enqueued - (RowsOf(feed.queue) + Account(feed))
        BY <2>1, <2>4, <2>5, <2>6
    <2>9. Unwritten(feed') = feed.enqueued - (RowsOf(w.queue) + Account(feed'))
        <3> DEFINE r == RowsOf(w.queue)
                   p == feed'.persisted
                   g == feed'.generic
                   c == feed'.clob
                   e == feed.enqueued
        <3>1. e \in Int /\ r \in Int /\ p \in Int /\ g \in Int /\ c \in Int
            BY <2>5
        <3>2. Unwritten(feed') = e - p - (r + g + c) /\ Account(feed') = p + g + c
            BY <2>2, <2>7
        <3>3. Unwritten(feed') = e - (r + Account(feed'))
            <4> HIDE DEF r, p, g, c, e
            <4> QED BY <3>1, <3>2
        <3> QED BY <3>3
    <2> QED BY <2>8, <2>9
<1>9. Unwritten(feed) >= 0 /\ (feed.counted = {} => Unwritten(feed) = 0)
    BY <1>1, <1>7 DEF RowsAccounted
<1>10. Account(feed') <= Account(w) /\ (feed'.counted = {} => Account(feed') = Account(w))
    BY DEF Drains
<1>11. RowsOf(w.queue) \in Nat
    BY <1>3, <1>6
<1>12. Unwritten(feed') >= 0 /\ (feed'.counted = {} => Unwritten(feed') = 0)
    <2>1. Unwritten(feed') >= 0
        BY <1>4, <1>5, <1>8, <1>9, <1>10, <1>11
    <2>2. ASSUME feed'.counted = {} PROVE Unwritten(feed') = 0
        BY <1>3, <1>4, <1>5, <1>8, <1>9, <1>10, <1>11, <2>2
    <2> QED BY <2>1, <2>2
<1>13. feed'.persisted <= feed'.enqueued
    <2>1. Account(feed') <= feed.enqueued
        BY <1>4, <1>8, <1>11, <1>12
    <2> QED BY <1>3, <1>4, <2>1 DEF Account
<1>14. RowsAccounted'
    <2>1. ASSUME feed'.phase \in {"closing", "ended"}, feed'.counted = {}
          PROVE  Unwritten(feed') = 0 /\ Held(feed') = 0 /\ FeedHungUp'
        <3>1. feed'.phase = "closing"
            BY <1>3, <2>1
        <3>2. FeedHungUp /\ RowsOf(w.queue) = 0 /\ feed'.generic = 0 /\ feed'.clob = 0
            BY <2>1, <3>1
        <3>3. Held(feed') = 0
            BY <1>6, <1>7, <3>2 DEF Held
        <3> QED BY <1>1, <1>12, <2>1, <3>2, <3>3
    <2> QED BY <1>12, <1>13, <2>1 DEF RowsAccounted
<1>15. FeedTypeOK'
    <2>1. feed'.generic \in 0..(BatchSize - 1) /\ feed'.clob \in 0..(BlockRows - 1)
        <3>1. \A a, b \in Nat : a < b => a \in 0..(b - 1)
            OBVIOUS
        <3>2. feed'.generic < BatchSize /\ feed'.clob < BlockRows
            OBVIOUS
        <3> QED BY <1>1, <1>4, <3>1, <3>2, Zenon
    <2>2. feed'.persisted \in 0..MaxRows /\ feed'.enqueued \in 0..MaxRows
        BY <1>1, <1>3, <1>4, <1>13
    <2> QED BY <1>3, <2>1, <2>2 DEF FeedTypeOK, FeedRecords
<1>16. FeedStopsLast'
    <2>1. stage # "exit"
        <3>1. ~Joined(feed)
            BY DEF Joined
        <3> QED BY <1>1, <3>1 DEF FeedStopsLast
    <2> QED BY <1>1, <1>3, <2>1 DEF FeedStopsLast
<1> QED BY <1>14, <1>15, <1>16 DEF FeedInv

\* The channel without its first row.
LEMMA TailRows ==
    ASSUME NEW q \in Seq(Classes \cup {Shutdown}), q # << >>, Head(q) # Shutdown,
           \A i \in DOMAIN q : q[i] = Shutdown => i = Len(q)
    PROVE  /\ Tail(q) \in Seq(Classes \cup {Shutdown}) /\ Len(Tail(q)) = Len(q) - 1
           /\ Head(q) \in Classes
           /\ \A i \in DOMAIN Tail(q) : Tail(q)[i] = q[i + 1] /\ i + 1 \in DOMAIN q
           /\ \A i \in DOMAIN Tail(q) : Tail(q)[i] = Shutdown => i = Len(Tail(q))
           /\ RowsOf(Tail(q)) = RowsOf(q) - 1 /\ RowsOf(Tail(q)) \in Nat
<1>1. Len(q) \in Nat \ {0} /\ Head(q) = q[1] /\ q[1] \in Classes
    OBVIOUS
<1>2. Tail(q) \in Seq(Classes \cup {Shutdown}) /\ Len(Tail(q)) = Len(q) - 1
      /\ \A i \in DOMAIN Tail(q) : Tail(q)[i] = q[i + 1] /\ i + 1 \in DOMAIN q
    OBVIOUS
<1>3. DOMAIN Tail(q) = 1..(Len(q) - 1)
    BY <1>2
<1>4. \A i \in DOMAIN Tail(q) : Tail(q)[i] = Shutdown => i = Len(Tail(q))
    BY <1>1, <1>2, <1>3
<1>5. RowsOf(Tail(q)) = RowsOf(q) - 1 /\ RowsOf(Tail(q)) \in Nat
    <2>1. CASE Len(q) = 1
        <3>1. ~ClosedBy(q) /\ ~ClosedBy(Tail(q))
            BY <1>1, <1>2, <2>1 DEF ClosedBy
        <3>2. RowsOf(q) = 1 /\ RowsOf(Tail(q)) = 0
            BY <1>2, <2>1, <3>1 DEF RowsOf
        <3>3. \A a, b : a = 1 /\ b = 0 => b = a - 1 /\ b \in Nat
            OBVIOUS
        <3> QED BY <3>2, <3>3
    <2>2. CASE Len(q) > 1
        <3>1. Tail(q)[Len(Tail(q))] = q[Len(q)] /\ Tail(q) # << >>
            BY <1>1, <1>2, <1>3, <2>2
        <3>2. ClosedBy(Tail(q)) <=> ClosedBy(q)
            BY <2>2, <3>1 DEF ClosedBy
        <3> QED BY <1>1, <1>2, <2>2, <3>2 DEF RowsOf
    <2>3. Len(q) = 1 \/ Len(q) > 1
        <3>1. \A n \in Nat \ {0} : n = 1 \/ n > 1
            OBVIOUS
        <3> QED BY <1>1, <3>1
    <2> QED BY <2>1, <2>2, <2>3
<1>6. Head(q) \in Classes
    BY <1>1
<1> QED BY <1>2, <1>4, <1>5, <1>6

\* The feed as DrainKeeps wants it.
LEMMA FeedNow ==
    ASSUME TypeOK, FeedInv
    PROVE  /\ feed \in FeedRecords /\ FeedTypeOK /\ FeedStopsLast /\ RowsAccounted
           /\ feed.generic < BatchSize /\ feed.clob < BlockRows
           /\ Len(feed.queue) <= FeedCap
           /\ \A i \in DOMAIN feed.queue :
                feed.queue[i] = Shutdown => i = Len(feed.queue) /\ FeedHungUp
<1>1. FeedTypeOK /\ FeedStopsLast /\ RowsAccounted
    BY DEF TypeOK, FeedInv
<1>2. BatchSize \in Nat /\ BlockRows \in Nat
    BY CaptureAssumption
<1> QED BY <1>1, <1>2 DEF FeedTypeOK, FeedRecords, FeedStopsLast

LEMMA DrainsItself ==
    ASSUME NEW w \in FeedRecords
    PROVE  Drains(w, w)
<1>1. Account(w) <= Account(w)
    BY FieldTypes
<1> QED BY <1>1 DEF Drains

LEMMA FeedOpensKeeps ==
    ASSUME TypeOK, FeedInv, FeedOpens
    PROVE  FeedTypeOK' /\ FeedInv'
<1>1. feed.phase = "opening" /\ stage' = stage
    BY DEF FeedOpens
<1>2. CASE feed' = [feed EXCEPT !.phase = "running"]
    <2>1. /\ feed' \in FeedRecords /\ feed'.phase = "running" /\ feed'.queue = feed.queue
          /\ feed'.generic = feed.generic /\ feed'.clob = feed.clob
          /\ feed'.enqueued = feed.enqueued /\ feed'.counted = feed.counted
          /\ feed'.persisted = feed.persisted
        BY <1>2, FeedNow DEF FeedRecords, Phases
    <2>2. Account(feed') = Account(feed)
        BY <2>1 DEF Account
    <2>3. Drains(feed', feed')
        BY <2>1, DrainsItself
    <2> QED BY <1>1, <2>1, <2>2, <2>3, FeedNow, DrainKeeps
<1>3. CASE feed' = [feed EXCEPT !.phase = "unopened", !.queue = << >>]
    <2>1. /\ feed'.phase = "unopened" /\ feed'.queue = << >>
          /\ feed'.enqueued = feed.enqueued /\ feed'.persisted = feed.persisted
        BY <1>3, FeedNow DEF FeedRecords
    <2>2. FeedTypeOK'
        <3>1. FeedCap \in Nat /\ FeedTypeOK
            BY CaptureAssumption, FeedNow
        <3>2. << >> \in Seq(Classes \cup {Shutdown}) /\ Len(<< >>) = 0
            OBVIOUS
        <3>3. "unopened" \in Phases
            BY DEF Phases
        <3>4. feed' \in [phase : Phases, queue : Seq(Classes \cup {Shutdown}),
                        generic : 0..(BatchSize - 1), clob : 0..(BlockRows - 1),
                        enqueued : 0..MaxRows, persisted : 0..MaxRows,
                        counted : SUBSET Counters]
            BY <1>3, <3>1, <3>2, <3>3 DEF FeedTypeOK
        <3> QED BY <2>1, <3>1, <3>2, <3>4 DEF FeedTypeOK
    <2>3. FeedStopsLast'
        BY <2>1 DEF FeedStopsLast, Joined
    <2>4. RowsAccounted'
        BY <2>1, FeedNow DEF RowsAccounted, Connected
    <2> QED BY <2>2, <2>3, <2>4 DEF FeedInv
<1> QED BY <1>2, <1>3 DEF FeedOpens

LEMMA FeedTakesKeeps ==
    ASSUME TypeOK, FeedInv, FeedTakes
    PROVE  FeedTypeOK' /\ FeedInv'
<1> DEFINE q == feed.queue
           w == [feed EXCEPT !.queue = Tail(@), ![Head(feed.queue)] = @ + 1]
<1>1. /\ feed.phase = "running" /\ q # << >> /\ Head(q) # Shutdown /\ stage' = stage
      /\ \E aged \in BOOLEAN :
            feed' \in FlushDue(w, w.generic >= BatchSize, aged \/ w.clob >= BlockRows)
    BY DEF FeedTakes
<1>2. /\ feed \in FeedRecords /\ q \in Seq(Classes \cup {Shutdown})
      /\ feed.generic < BatchSize /\ feed.clob < BlockRows
      /\ \A i \in DOMAIN q : q[i] = Shutdown => i = Len(q) /\ FeedHungUp
      /\ Len(q) <= FeedCap /\ Len(q) \in Nat /\ FeedCap \in Nat
      /\ BatchSize \in Nat /\ BlockRows \in Nat
      /\ feed.generic \in Nat /\ feed.clob \in Nat /\ feed.persisted \in Nat
      /\ RowsOf(q) \in Nat
    <2>1. RowsOf(q) \in Nat
        BY FeedNow, QueuedNow
    <2>2. q \in Seq(Classes \cup {Shutdown})
        BY FeedNow DEF FeedRecords
    <2> QED BY <2>1, <2>2, FeedNow, FieldTypes, CaptureAssumption
<1>3. /\ Tail(q) \in Seq(Classes \cup {Shutdown}) /\ Len(Tail(q)) = Len(q) - 1
      /\ Head(q) \in Classes
      /\ \A i \in DOMAIN Tail(q) : Tail(q)[i] = Shutdown => i = Len(Tail(q)) /\ FeedHungUp
      /\ RowsOf(Tail(q)) = RowsOf(q) - 1 /\ RowsOf(Tail(q)) \in Nat
    <2>1. \A i \in DOMAIN q : q[i] = Shutdown => i = Len(q)
        BY <1>2
    <2>2. /\ Tail(q) \in Seq(Classes \cup {Shutdown}) /\ Len(Tail(q)) = Len(q) - 1
          /\ Head(q) \in Classes
          /\ \A i \in DOMAIN Tail(q) : Tail(q)[i] = q[i + 1] /\ i + 1 \in DOMAIN q
          /\ \A i \in DOMAIN Tail(q) : Tail(q)[i] = Shutdown => i = Len(Tail(q))
          /\ RowsOf(Tail(q)) = RowsOf(q) - 1 /\ RowsOf(Tail(q)) \in Nat
        <3> HIDE DEF q
        <3> QED BY <1>1, <1>2, <2>1, TailRows
    <2> QED BY <1>2, <2>2
<1>4. /\ w \in FeedRecords /\ w.phase = "running" /\ w.enqueued = feed.enqueued
      /\ w.counted = feed.counted /\ w.queue = Tail(q)
      /\ w.persisted = feed.persisted
      /\ \/ w.generic = feed.generic + 1 /\ w.clob = feed.clob
         \/ w.generic = feed.generic /\ w.clob = feed.clob + 1
    <2>1. CASE Head(q) = "generic"
        <3>1. w = [feed EXCEPT !.queue = Tail(q), !.generic = @ + 1]
            BY <2>1
        <3> HIDE DEF w, q
        <3>2. feed.generic + 1 \in Nat
            BY <1>2
        <3>3. w \in FeedRecords
            BY <1>2, <1>3, <3>1, <3>2 DEF FeedRecords
        <3>4. /\ w.phase = feed.phase /\ w.enqueued = feed.enqueued
              /\ w.counted = feed.counted /\ w.queue = Tail(q)
              /\ w.persisted = feed.persisted
              /\ w.generic = feed.generic + 1 /\ w.clob = feed.clob
            BY <1>2, <3>1 DEF FeedRecords
        <3> QED BY <1>1, <3>3, <3>4
    <2>2. CASE Head(q) = "clob"
        <3>1. w = [feed EXCEPT !.queue = Tail(q), !.clob = @ + 1]
            BY <2>2
        <3> HIDE DEF w, q
        <3>2. feed.clob + 1 \in Nat
            BY <1>2
        <3>3. w \in FeedRecords
            BY <1>2, <1>3, <3>1, <3>2 DEF FeedRecords
        <3>4. /\ w.phase = feed.phase /\ w.enqueued = feed.enqueued
              /\ w.counted = feed.counted /\ w.queue = Tail(q)
              /\ w.persisted = feed.persisted
              /\ w.clob = feed.clob + 1 /\ w.generic = feed.generic
            BY <1>2, <3>1 DEF FeedRecords
        <3> QED BY <1>1, <3>3, <3>4
    <2> QED BY <1>3, <2>1, <2>2 DEF Classes
<1> HIDE DEF w, q
<1>5. Account(w) = Account(feed) + 1 /\ Account(feed) \in Nat
    <2>1. CASE w.generic = feed.generic + 1 /\ w.clob = feed.clob
        <3>1. /\ Account(w) = w.persisted + w.generic + w.clob
              /\ Account(feed) = feed.persisted + feed.generic + feed.clob
            BY DEF Account
        <3>2. w.persisted = feed.persisted /\ feed.persisted \in Nat
              /\ feed.generic \in Nat /\ feed.clob \in Nat
            BY <1>2, <1>4
        <3> QED BY <2>1, <3>1, <3>2
    <2>2. CASE w.generic = feed.generic /\ w.clob = feed.clob + 1
        <3>1. /\ Account(w) = w.persisted + w.generic + w.clob
              /\ Account(feed) = feed.persisted + feed.generic + feed.clob
            BY DEF Account
        <3>2. w.persisted = feed.persisted /\ feed.persisted \in Nat
              /\ feed.generic \in Nat /\ feed.clob \in Nat
            BY <1>2, <1>4
        <3> QED BY <2>2, <3>1, <3>2
    <2> QED BY <1>4, <2>1, <2>2
<1>6. RowsOf(w.queue) + Account(w) = RowsOf(q) + Account(feed)
    BY <1>2, <1>3, <1>4, <1>5
<1>7. PICK aged \in BOOLEAN :
         feed' \in FlushDue(w, w.generic >= BatchSize, aged \/ w.clob >= BlockRows)
    BY <1>1
<1>8. /\ Drains(w, feed')
      /\ w.generic >= BatchSize => feed'.generic = 0
      /\ (w.clob >= BlockRows /\ ~(w.generic >= BatchSize)) => feed'.clob = 0
      /\ feed'.phase = "closing" => feed'.counted # {}
    <2> DEFINE full == w.generic >= BatchSize
               due == aged \/ w.clob >= BlockRows
    <2>1. full \in BOOLEAN /\ due \in BOOLEAN /\ feed' \in FlushDue(w, full, due)
        BY <1>7
    <2> HIDE DEF full, due
    <2>2. /\ Drains(w, feed') /\ (full => feed'.generic = 0)
          /\ due /\ ~full => feed'.clob = 0
          /\ feed'.phase = "closing" => feed'.counted # {}
        BY <1>4, <2>1, FlushDueDrains
    <2> QED BY <2>2 DEF full, due
<1>9. feed'.generic \in {0, w.generic} /\ feed'.clob \in {0, w.clob}
    BY <1>8 DEF Drains
<1>10. feed'.generic < BatchSize /\ feed'.clob < BlockRows
    <2>1. w.generic \in Nat /\ w.clob \in Nat /\ BatchSize > 0 /\ BlockRows > 0
        BY <1>4, FieldTypes, CaptureAssumption
    <2>2. feed'.generic < BatchSize
        BY <1>2, <1>8, <1>9, <2>1
    <2>3. CASE w.clob >= BlockRows
        <3>1. ~(w.generic >= BatchSize)
            BY <1>2, <1>4, <2>1, <2>3
        <3> QED BY <1>8, <2>1, <2>2, <2>3, <3>1
    <2>4. CASE ~(w.clob >= BlockRows)
        BY <1>2, <1>9, <2>1, <2>2, <2>4
    <2> QED BY <2>3, <2>4
<1>11. Len(w.queue) <= FeedCap
    BY <1>2, <1>3, <1>4
<1>12. \A i \in DOMAIN w.queue : w.queue[i] = Shutdown => i = Len(w.queue) /\ FeedHungUp
    BY <1>3, <1>4
<1>13. RowsOf(w.queue) + Account(w) = RowsOf(feed.queue) + Account(feed)
    BY <1>6 DEF q
<1> QED BY <1>1, <1>4, <1>8, <1>10, <1>11, <1>12, <1>13, DrainKeeps

LEMMA FeedTimesOutKeeps ==
    ASSUME TypeOK, FeedInv, FeedTimesOut
    PROVE  FeedTypeOK' /\ FeedInv'
<1>1. feed.phase = "running" /\ stage' = stage
    BY DEF FeedTimesOut
<1>2. PICK aged \in BOOLEAN : feed' \in FlushDue(feed, TRUE, aged)
    BY DEF FeedTimesOut
<1>3. feed \in FeedRecords
    BY FeedNow
<1>4. Drains(feed, feed') /\ (feed'.phase = "closing" => feed'.counted # {})
    BY <1>1, <1>2, <1>3, FlushDueDrains
<1>5. feed'.generic < BatchSize /\ feed'.clob < BlockRows
    <2>1. BatchSize > 0 /\ BlockRows > 0
        BY CaptureAssumption
    <2> QED BY <1>4, <2>1, FeedNow DEF Drains
<1> QED BY <1>1, <1>3, <1>4, <1>5, FeedNow, DrainKeeps

LEMMA FeedStopsKeeps ==
    ASSUME TypeOK, FeedInv, FeedStops
    PROVE  FeedTypeOK' /\ FeedInv'
<1>1. /\ feed.phase = "running" /\ stage' = stage
      /\ IF feed.queue = << >> THEN FeedHungUp ELSE Head(feed.queue) = Shutdown
    BY DEF FeedStops
<1>2. PICK o1 \in Outcomes, o2 \in Outcomes : feed' = LastFlush(feed, o1, o2)
    BY DEF FeedStops
<1> DEFINE u == Flushed(feed, "generic", o1)
           x == Flushed(u, "clob", o2)
<1>3. feed \in FeedRecords /\ FeedTypeOK /\ FeedStopsLast
    BY FeedNow
<1>4. feed' = [x EXCEPT !.phase = "closing"]
    BY <1>2 DEF LastFlush
<1>5. Drains(feed, u) /\ u.generic = 0 /\ u.clob = feed.clob /\ u \in FeedRecords
    BY <1>3, FlushedDrains DEF Drains
<1> HIDE DEF u
<1>6. Drains(u, x) /\ x.clob = 0 /\ x.generic = 0
    BY <1>5, FlushedDrains
<1> HIDE DEF x
<1>7. Drains(feed, x)
    BY <1>3, <1>5, <1>6, DrainsTwice
<1>8. Drains(feed, feed') /\ feed'.generic = 0 /\ feed'.clob = 0
    BY <1>3, <1>4, <1>6, <1>7, DrainsAndEnds
<1>9. FeedHungUp /\ RowsOf(feed.queue) = 0
    <2>1. CASE feed.queue = << >>
        BY <1>1, <2>1 DEF RowsOf, ClosedBy
    <2>2. CASE feed.queue # << >>
        <3>1. feed.queue \in Seq(Classes \cup {Shutdown}) /\ Head(feed.queue) = Shutdown
            BY <1>1, <1>3, <2>2 DEF FeedTypeOK
        <3>2. feed.queue[1] = Shutdown /\ 1 \in DOMAIN feed.queue
            BY <2>2, <3>1
        <3>3. Len(feed.queue) = 1 /\ FeedHungUp
            BY <1>3, <3>2 DEF FeedStopsLast
        <3> QED BY <2>2, <3>2, <3>3 DEF RowsOf, ClosedBy
    <2> QED BY <2>1, <2>2
<1>10. feed'.generic < BatchSize /\ feed'.clob < BlockRows
    BY <1>8, CaptureAssumption
<1> QED BY <1>1, <1>3, <1>8, <1>9, <1>10, FeedNow, DrainKeeps

\* The account of a writer whose thread has gone.
LEMMA GoneKeeps ==
    ASSUME TypeOK, FeedInv, feed'.counted = {} => FeedHungUp',
           feed'.phase = "ended",
           feed'.queue = << >>, feed' \in FeedRecords,
           feed'.generic = feed.generic, feed'.clob = feed.clob,
           feed'.enqueued = feed.enqueued, feed'.persisted = feed.persisted,
           feed'.counted = {} => feed.phase \in {"closing", "ended"} /\ feed.counted = {}
    PROVE  FeedTypeOK' /\ FeedInv'
<1>1. FeedTypeOK /\ FeedStopsLast /\ RowsAccounted
    BY FeedNow
<1>2. FeedTypeOK'
    <2>1. Len(<< >>) = 0 /\ FeedCap \in Nat
        BY CaptureAssumption
    <2> QED BY <1>1, <2>1 DEF FeedTypeOK, FeedRecords
<1>3. FeedStopsLast'
    BY DEF FeedStopsLast, Joined
<1>4. RowsAccounted'
    <2>1. ~Connected(feed') /\ Held(feed') = 0
        BY DEF Connected, Held
    <2>2. ASSUME feed'.counted = {} PROVE Unwritten(feed') = 0 /\ FeedHungUp'
        <3>1. Unwritten(feed) = 0 /\ Held(feed) = 0
            BY <1>1, <2>2 DEF RowsAccounted
        <3>2. Unwritten(feed') = Unwritten(feed)
            BY <2>1, <3>1 DEF Unwritten
        <3> QED BY <2>2, <3>1, <3>2
    <2>4. feed'.persisted <= feed'.enqueued
        BY <1>1 DEF RowsAccounted
    <2> QED BY <2>1, <2>2, <2>4 DEF RowsAccounted
<1> QED BY <1>2, <1>3, <1>4 DEF FeedInv

LEMMA FeedEndsKeeps ==
    ASSUME TypeOK, FeedInv, FeedEnds
    PROVE  FeedTypeOK' /\ FeedInv'
<1>1. /\ feed.phase = "closing" /\ stage' = stage
      /\ feed' = [feed EXCEPT !.phase = "ended", !.queue = << >>]
    BY DEF FeedEnds
<1>2. /\ feed'.phase = "ended" /\ feed'.queue = << >> /\ feed' \in FeedRecords
      /\ feed'.generic = feed.generic /\ feed'.clob = feed.clob
      /\ feed'.enqueued = feed.enqueued /\ feed'.persisted = feed.persisted
      /\ feed'.counted = feed.counted
    <2>1. feed \in FeedRecords /\ "ended" \in Phases
          /\ << >> \in Seq(Classes \cup {Shutdown})
        BY FeedNow DEF Phases
    <2> QED BY <1>1, <2>1 DEF FeedRecords
<1>3. feed'.counted = {} => FeedHungUp'
    <2>1. feed.counted = {} => FeedHungUp
        BY <1>1, FeedNow DEF RowsAccounted
    <2> QED BY <1>1, <1>2, <2>1 DEF FeedHungUp
<1> QED BY <1>1, <1>2, <1>3, GoneKeeps

\* What a step leaves alone when it has nothing to do with the feed writer.
FeedQuiet ==
    feed' = feed /\ FeedHungUp' = FeedHungUp /\ (stage' = "exit" => stage = "exit")

LEMMA FeedQuietKeeps ==
    ASSUME TypeOK, FeedInv, FeedQuiet
    PROVE  FeedTypeOK' /\ FeedInv'
<1>1. FeedTypeOK /\ FeedStopsLast /\ RowsAccounted
    BY FeedNow
<1>2. feed' = feed /\ FeedHungUp' = FeedHungUp /\ (stage' = "exit" => stage = "exit")
    BY DEF FeedQuiet
<1>3. FeedTypeOK'
    BY <1>1, <1>2 DEF FeedTypeOK
<1>4. FeedStopsLast'
    BY <1>1, <1>2 DEF FeedStopsLast
<1>5. RowsAccounted'
    BY <1>1, <1>2 DEF RowsAccounted
<1> QED BY <1>3, <1>4, <1>5 DEF FeedInv

\* The feed writer is asked to stop once the evidence writer is joined.
LEMMA FeedAskedKeeps ==
    ASSUME TypeOK, FeedInv, EvidenceJoined
    PROVE  FeedTypeOK' /\ FeedInv'
<1> DEFINE q == feed.queue
           s == Append(q, Shutdown)
<1>1. /\ feed \in FeedRecords /\ FeedTypeOK /\ FeedStopsLast /\ RowsAccounted
      /\ ~FeedHungUp /\ FeedHungUp' /\ stage' = "feed"
    BY FeedNow DEF EvidenceJoined, FeedHungUp
<1>2. /\ q \in Seq(Classes \cup {Shutdown}) /\ Len(q) \in Nat /\ Len(q) <= FeedCap
      /\ FeedCap \in Nat
      /\ RowsOf(q) = Len(q) /\ \A i \in DOMAIN q : q[i] # Shutdown
    BY <1>1, NoStopYet, CaptureAssumption DEF FeedTypeOK
<1>3. CASE Connected(feed) /\ HasRoom(feed, FeedCap)
    <2>1. feed' = [feed EXCEPT !.queue = s]
        BY <1>3 DEF EvidenceJoined, AskedToStop
    <2>2. /\ s \in Seq(Classes \cup {Shutdown}) /\ Len(s) = Len(q) + 1 /\ s[Len(s)] = Shutdown
          /\ s # << >> /\ \A i \in 1..Len(q) : s[i] = q[i]
        BY <1>2
    <2>3. Len(q) < FeedCap
        BY <1>3 DEF HasRoom
    <2> HIDE DEF s, q
    <2>4. /\ feed'.queue = s /\ feed'.phase = feed.phase /\ feed'.counted = feed.counted
          /\ feed'.generic = feed.generic /\ feed'.clob = feed.clob
          /\ feed'.enqueued = feed.enqueued /\ feed'.persisted = feed.persisted
        BY <1>1, <2>1 DEF FeedRecords
    <2>5. FeedTypeOK'
        <3>1. Len(feed'.queue) <= FeedCap
            BY <1>2, <2>2, <2>3, <2>4
        <3> QED BY <1>1, <2>1, <2>2, <3>1 DEF FeedTypeOK
    <2>6. FeedStopsLast'
        <3>1. \A i \in DOMAIN s : s[i] = Shutdown => i = Len(s)
            BY <1>2, <2>2
        <3> QED BY <1>1, <2>4, <3>1 DEF FeedStopsLast
    <2>7. RowsOf(s) = Len(q)
        BY <1>2, <2>2 DEF RowsOf, ClosedBy
    <2>8. Queued(feed') = Queued(feed)
        BY <1>1, <1>2, <2>4, <2>5, <2>6, <2>7, QueuedNow, QueuedNext DEF q
    <2>9. /\ Connected(feed') = Connected(feed) /\ Held(feed') = Held(feed)
          /\ Unwritten(feed') = Unwritten(feed)
        BY <2>4, <2>8 DEF Connected, Held, Unwritten
    <2>10. RowsAccounted'
        BY <1>1, <2>4, <2>9 DEF RowsAccounted
    <2> QED BY <2>5, <2>6, <2>10 DEF FeedInv
<1>4. CASE ~(Connected(feed) /\ HasRoom(feed, FeedCap))
    <2>1. feed' = feed
        BY <1>4 DEF EvidenceJoined, AskedToStop
    <2>2. FeedTypeOK'
        BY <1>1, <2>1 DEF FeedTypeOK
    <2>3. FeedStopsLast'
        BY <1>1, <2>1 DEF FeedStopsLast
    <2>4. RowsAccounted'
        BY <1>1, <2>1 DEF RowsAccounted
    <2> QED BY <2>2, <2>3, <2>4 DEF FeedInv
<1> QED BY <1>3, <1>4

LEMMA FeedJoinedKeeps ==
    ASSUME TypeOK, FeedInv, FeedJoined
    PROVE  FeedTypeOK' /\ FeedInv'
<1>1. /\ feed \in FeedRecords /\ FeedTypeOK /\ FeedStopsLast /\ RowsAccounted
      /\ FeedHungUp' /\ stage' = "exit" /\ feed' = Gone(TimedOut(feed))
    BY FeedNow DEF FeedJoined, FeedHungUp
<1>2. "ended" \in Phases /\ << >> \in Seq(Classes \cup {Shutdown})
      /\ "shutdown_timed_out" \in Counters
    BY DEF Phases, Counters
<1>3. CASE feed.phase = "unopened"
    <2>1. feed' = [feed EXCEPT !.queue = << >>]
        <3>1. TimedOut(feed) = feed
            BY <1>3 DEF TimedOut, Joined
        <3>2. feed' = [feed EXCEPT !.phase = "unopened", !.queue = << >>]
            BY <1>1, <1>3, <3>1 DEF Gone
        <3> QED BY <1>1, <1>3, <3>2 DEF FeedRecords
    <2>2. /\ feed'.phase = "unopened" /\ feed'.queue = << >>
          /\ feed'.enqueued = feed.enqueued /\ feed'.persisted = feed.persisted
        BY <1>1, <1>3, <2>1 DEF FeedRecords
    <2>3. FeedTypeOK'
        <3>1. Len(<< >>) = 0 /\ FeedCap \in Nat
            BY CaptureAssumption
        <3>2. feed' \in [phase : Phases, queue : Seq(Classes \cup {Shutdown}),
                        generic : 0..(BatchSize - 1), clob : 0..(BlockRows - 1),
                        enqueued : 0..MaxRows, persisted : 0..MaxRows,
                        counted : SUBSET Counters]
            BY <1>1, <1>2, <2>1 DEF FeedTypeOK
        <3> QED BY <2>2, <3>1, <3>2 DEF FeedTypeOK
    <2>4. FeedStopsLast'
        BY <2>2 DEF FeedStopsLast, Joined
    <2>5. RowsAccounted'
        BY <1>1, <2>2 DEF RowsAccounted, Connected
    <2> QED BY <2>3, <2>4, <2>5 DEF FeedInv
<1>4. CASE feed.phase # "unopened"
    <2> DEFINE w == TimedOut(feed)
    <2>1. /\ w \in FeedRecords /\ w.phase = feed.phase
          /\ w.generic = feed.generic /\ w.clob = feed.clob
          /\ w.enqueued = feed.enqueued /\ w.persisted = feed.persisted
          /\ w.counted = {} => feed.phase = "ended" /\ feed.counted = {}
        <3>1. CASE Joined(feed)
            BY <1>1, <1>4, <3>1 DEF TimedOut, Joined
        <3>2. CASE ~Joined(feed)
            <4>1. w = [feed EXCEPT !.counted = @ \cup {"shutdown_timed_out"}]
                BY <3>2 DEF TimedOut
            <4> HIDE DEF w
            <4>2. feed.counted \cup {"shutdown_timed_out"} \in SUBSET Counters
                BY <1>1, <1>2 DEF FeedRecords
            <4> QED BY <1>1, <4>1, <4>2 DEF FeedRecords
        <3> QED BY <3>1, <3>2
    <2>2. feed' = [w EXCEPT !.phase = "ended", !.queue = << >>]
        BY <1>1, <1>4, <2>1 DEF Gone
    <2> HIDE DEF w
    <2>3. /\ feed' \in FeedRecords /\ feed'.phase = "ended" /\ feed'.queue = << >>
          /\ feed'.generic = feed.generic /\ feed'.clob = feed.clob
          /\ feed'.enqueued = feed.enqueued /\ feed'.persisted = feed.persisted
          /\ feed'.counted = w.counted
        BY <1>2, <2>1, <2>2 DEF FeedRecords
    <2> QED BY <1>1, <2>1, <2>3, GoneKeeps
<1> QED BY <1>3, <1>4

\* Every step keeps the account of the feed writer.
LEMMA FeedStep ==
    ASSUME TypeOK, FeedInv, [Next]_vars
    PROVE  FeedTypeOK' /\ FeedInv'
<1>1. CASE \E class \in Classes, n \in Nat : FeedRows(class, n)
    BY <1>1, FeedRowsKeeps
<1>2. CASE FeedThread
    BY <1>2, FeedOpensKeeps, FeedTakesKeeps, FeedTimesOutKeeps, FeedStopsKeeps, FeedEndsKeeps
       DEF FeedThread
<1>3. CASE EvidenceJoined
    BY <1>3, FeedAskedKeeps
<1>4. CASE FeedJoined
    BY <1>4, FeedJoinedKeeps
<1>5. CASE FeedQuiet
    BY <1>5, FeedQuietKeeps
<1>6. BinanceMessage \/ ChainlinkMessage \/ ClobMessage
        => \E class \in Classes, n \in Nat : FeedRows(class, n)
    BY DEF BinanceMessage, ChainlinkMessage, ClobMessage, Prepared, ClobRows, Classes
<1>7. (\/ MarketFound \/ Note
       \/ \E t \in Trades : TradeOpens(t) \/ LiveFill(t) \/ \E w \in Whose : TradeCloses(t, w))
        => FeedQuiet
    BY DEF MarketFound, Note, TradeOpens, LiveFill, TradeCloses, FeedQuiet, FeedHungUp
<1>8. EvidenceThread => FeedQuiet
    BY DEF EvidenceThread, EvidenceOpens, EvidenceTakes, EvidenceTimesOut, EvidenceStops,
           EvidenceFlushes, EvidenceEnds, FeedQuiet, FeedHungUp
<1>9. StorageReport \/ MetadataAges \/ RefreshWorker \/ Arm \/ StopRuntime => FeedQuiet
    BY DEF StorageReport, MetadataAges, RefreshWorker, RefreshReads, RefreshMerges, Arm,
           StopRuntime, FeedQuiet, FeedHungUp
<1>10. UNCHANGED vars => FeedQuiet
    BY DEF vars, FeedQuiet, FeedHungUp
<1> QED BY <1>1, <1>2, <1>3, <1>4, <1>5, <1>6, <1>7, <1>8, <1>9, <1>10 DEF Next
-----------------------------------------------------------------------------
(* The evidence writer: what is pending, as a sequence. *)
Messages == Events \cup {ShutdownEvent}

In(b, x) == \E i \in DOMAIN b : b[i] = x
Once(b) ==
    \A i, j \in DOMAIN b : i # j /\ b[i] = b[j] => b[i].kind \in {"note", "report"}

LEMMA AppendSame ==
    ASSUME NEW b \in Seq(Messages), NEW q \in Seq(Messages), NEW e \in Messages
    PROVE  b \o Append(q, e) = Append(b \o q, e)
<1>1. << e >> \in Seq(Messages) /\ b \o q \in Seq(Messages)
    BY ConcatProperties
<1>2. Append(q, e) = q \o << e >> /\ Append(b \o q, e) = (b \o q) \o << e >>
    BY <1>1, AppendIsConcat
<1> QED BY <1>1, <1>2, ConcatAssociative

LEMMA TakeSame ==
    ASSUME NEW b \in Seq(Messages), NEW q \in Seq(Messages), q # << >>
    PROVE  Append(b, Head(q)) \o Tail(q) = b \o q
<1> DEFINE h == << Head(q) >>
<1>1. Head(q) \in Messages /\ Tail(q) \in Seq(Messages) /\ h \in Seq(Messages)
    BY HeadTailProperties
<1>2. h \o Tail(q) = q
    <2>1. h \o Tail(q) \in Seq(Messages) /\ Len(h \o Tail(q)) = 1 + Len(Tail(q))
          /\ \A i \in 1..Len(h \o Tail(q)) :
               (h \o Tail(q))[i] = IF i <= 1 THEN h[i] ELSE Tail(q)[i - 1]
        BY <1>1, ConcatProperties
    <2>2. Len(Tail(q)) = Len(q) - 1 /\ Len(q) \in Nat /\ Head(q) = q[1]
          /\ \A i \in 1..Len(Tail(q)) : Tail(q)[i] = q[i + 1]
        BY HeadTailProperties
    <2>3. Len(h \o Tail(q)) = Len(q)
        BY <2>1, <2>2
    <2>4. \A i \in 1..Len(h \o Tail(q)) : (h \o Tail(q))[i] = q[i]
        <3> SUFFICES ASSUME NEW i \in 1..Len(h \o Tail(q))
                     PROVE  (h \o Tail(q))[i] = q[i]
            OBVIOUS
        <3>1. CASE i = 1
            BY <2>1, <2>2, <3>1
        <3>2. CASE i # 1
            <4>1. i - 1 \in 1..Len(Tail(q)) /\ ~(i <= 1)
                BY <2>2, <2>3, <3>2
            <4>2. (h \o Tail(q))[i] = Tail(q)[i - 1]
                BY <2>1, <4>1
            <4> HIDE DEF h
            <4>3. Tail(q)[i - 1] = q[(i - 1) + 1] /\ (i - 1) + 1 = i
                BY <2>2, <4>1
            <4> QED BY <4>2, <4>3
        <3> QED BY <3>1, <3>2
    <2> HIDE DEF h
    <2> QED BY <2>1, <2>3, <2>4, SeqEqual
<1>3. Append(b, Head(q)) = b \o h
    BY <1>1, AppendIsConcat
<1> HIDE DEF h
<1>4. (b \o h) \o Tail(q) = b \o (h \o Tail(q))
    BY <1>1, ConcatAssociative
<1> QED BY <1>2, <1>3, <1>4

LEMMA TailSame ==
    ASSUME NEW b \in Seq(Messages), NEW q \in Seq(Messages), b # << >>
    PROVE  /\ b \o q \in Seq(Messages) /\ b \o q # << >> /\ Head(b \o q) = Head(b)
           /\ Tail(b) \o q = Tail(b \o q)
<1> DEFINE c == b \o q
           d == Tail(b) \o q
<1>1. /\ c \in Seq(Messages) /\ Len(c) = Len(b) + Len(q)
      /\ \A i \in 1..Len(c) : c[i] = IF i <= Len(b) THEN b[i] ELSE q[i - Len(b)]
    BY ConcatProperties
<1>2. /\ Tail(b) \in Seq(Messages) /\ Len(Tail(b)) = Len(b) - 1 /\ Len(b) \in Nat \ {0}
      /\ Len(q) \in Nat /\ \A i \in 1..Len(Tail(b)) : Tail(b)[i] = b[i + 1]
    BY HeadTailProperties
<1>3. /\ d \in Seq(Messages) /\ Len(d) = Len(Tail(b)) + Len(q)
      /\ \A i \in 1..Len(d) :
           d[i] = IF i <= Len(Tail(b)) THEN Tail(b)[i] ELSE q[i - Len(Tail(b))]
    BY <1>2, ConcatProperties
<1> HIDE DEF c, d
<1>4. c # << >> /\ Head(c) = Head(b)
    <2>1. Len(c) # 0 /\ 1 \in 1..Len(c) /\ 1 <= Len(b)
        BY <1>1, <1>2
    <2>2. c[1] = b[1]
        BY <1>1, <2>1
    <2> QED BY <1>1, <2>1, <2>2
<1>5. /\ Tail(c) \in Seq(Messages) /\ Len(Tail(c)) = Len(c) - 1
      /\ \A i \in 1..Len(Tail(c)) : Tail(c)[i] = c[i + 1]
    BY <1>1, <1>4, HeadTailProperties
<1>6. Len(d) = Len(Tail(c))
    BY <1>1, <1>2, <1>3, <1>5
<1>7. \A i \in 1..Len(d) : d[i] = Tail(c)[i]
    <2> SUFFICES ASSUME NEW i \in 1..Len(d) PROVE d[i] = Tail(c)[i]
        OBVIOUS
    <2>1. Tail(c)[i] = c[i + 1] /\ i + 1 \in 1..Len(c)
        BY <1>1, <1>2, <1>5, <1>6
    <2>2. CASE i <= Len(Tail(b))
        <3>1. d[i] = Tail(b)[i] /\ i \in 1..Len(Tail(b)) /\ i + 1 <= Len(b)
            BY <1>2, <1>3, <2>2
        <3> QED BY <1>1, <1>2, <2>1, <3>1
    <2>3. CASE ~(i <= Len(Tail(b)))
        <3>1. d[i] = q[i - Len(Tail(b))] /\ ~(i + 1 <= Len(b))
            BY <1>2, <1>3, <2>3
        <3>2. c[i + 1] = q[(i + 1) - Len(b)]
            BY <1>1, <2>1, <3>1
        <3>3. (i + 1) - Len(b) = i - Len(Tail(b))
            BY <1>2
        <3> QED BY <2>1, <3>1, <3>2, <3>3
    <2> QED BY <2>2, <2>3
<1>8. d = Tail(c)
    BY <1>3, <1>5, <1>6, <1>7, SeqEqual
<1> QED BY <1>1, <1>4, <1>8 DEF c, d

LEMMA InConcat ==
    ASSUME NEW b \in Seq(Messages), NEW q \in Seq(Messages), NEW x, In(b \o q, x)
    PROVE  In(b, x) \/ In(q, x)
<1> DEFINE c == b \o q
<1>1. /\ c \in Seq(Messages) /\ Len(c) = Len(b) + Len(q)
      /\ \A i \in 1..Len(c) : c[i] = IF i <= Len(b) THEN b[i] ELSE q[i - Len(b)]
    BY ConcatProperties
<1>2. In(c, x)
    OBVIOUS
<1> HIDE DEF c
<1>3. /\ Len(b) \in Nat /\ DOMAIN b = 1..Len(b) /\ Len(q) \in Nat /\ DOMAIN q = 1..Len(q)
      /\ DOMAIN c = 1..Len(c)
    BY <1>1
<1>4. PICK i \in 1..Len(c) : c[i] = x
    BY <1>2, <1>3 DEF In
<1>5. CASE i <= Len(b)
    <2>1. i \in 1..Len(b) /\ b[i] = x
        BY <1>1, <1>3, <1>4, <1>5
    <2> QED BY <1>3, <2>1 DEF In
<1>6. CASE ~(i <= Len(b))
    <2>1. q[i - Len(b)] = x
        BY <1>1, <1>4, <1>6
    <2>2. \A m, n \in Nat : \A k \in 1..(m + n) : ~(k <= m) => k - m \in 1..n
        OBVIOUS
    <2>3. i - Len(b) \in 1..Len(q)
        BY <1>1, <1>3, <1>6, <2>2
    <2> QED BY <1>3, <2>1, <2>3 DEF In
<1> QED BY <1>5, <1>6

LEMMA InAppend ==
    ASSUME NEW b \in Seq(Messages), NEW e \in Messages
    PROVE  /\ \A x : In(Append(b, e), x) <=> In(b, x) \/ x = e
           /\ (Once(b) /\ (e.kind \in {"note", "report"} \/ ~In(b, e))) => Once(Append(b, e))
<1> DEFINE s == Append(b, e)
<1>1. /\ Len(b) \in Nat /\ DOMAIN b = 1..Len(b) /\ DOMAIN s = 1..(Len(b) + 1)
      /\ \A i \in 1..Len(b) : s[i] = b[i]
      /\ s[Len(b) + 1] = e
    OBVIOUS
<1> HIDE DEF s
<1>2. \A x : In(s, x) <=> In(b, x) \/ x = e
    BY <1>1 DEF In
<1>3. ASSUME Once(b), e.kind \in {"note", "report"} \/ ~In(b, e)
      PROVE  Once(s)
    <2> SUFFICES ASSUME NEW i \in DOMAIN s, NEW j \in DOMAIN s, i # j, s[i] = s[j]
                 PROVE  s[i].kind \in {"note", "report"}
        BY DEF Once
    <2>1. CASE i \in 1..Len(b) /\ j \in 1..Len(b)
        BY <1>1, <1>3, <2>1 DEF Once
    <2>2. CASE i = Len(b) + 1 /\ j \in 1..Len(b)
        BY <1>1, <1>3, <2>2 DEF In
    <2>3. CASE j = Len(b) + 1 /\ i \in 1..Len(b)
        BY <1>1, <1>3, <2>3 DEF In
    <2> QED BY <1>1, <2>1, <2>2, <2>3
<1> QED BY <1>2, <1>3 DEF s

LEMMA InTail ==
    ASSUME NEW b \in Seq(Messages), b # << >>, Once(b)
    PROVE  /\ Once(Tail(b)) /\ In(b, Head(b))
           /\ \A x : In(Tail(b), x) => In(b, x)
           /\ \A x : In(b, x) /\ x # Head(b) => In(Tail(b), x)
           /\ Head(b).kind \notin {"note", "report"} => ~In(Tail(b), Head(b))
<1> DEFINE s == Tail(b)
<1>1. /\ Len(b) \in Nat /\ DOMAIN b = 1..Len(b) /\ DOMAIN s = 1..(Len(b) - 1)
      /\ Len(b) > 0 /\ Head(b) = b[1]
      /\ \A i \in 1..(Len(b) - 1) : s[i] = b[i + 1] /\ i + 1 \in 1..Len(b)
    OBVIOUS
<1> HIDE DEF s
<1>2. In(b, Head(b))
    BY <1>1 DEF In
<1>3. \A x : In(s, x) => In(b, x)
    BY <1>1 DEF In
<1>4. ASSUME NEW x, In(b, x), x # Head(b) PROVE In(s, x)
    <2>1. PICK i \in 1..Len(b) : b[i] = x
        BY <1>1, <1>4 DEF In
    <2>2. i # 1
        BY <1>1, <1>4, <2>1
    <2>3. i - 1 \in 1..(Len(b) - 1) /\ (i - 1) + 1 = i
        BY <1>1, <2>2
    <2>4. s[i - 1] = x
        BY <1>1, <2>1, <2>3
    <2> QED BY <1>1, <2>3, <2>4 DEF In
<1>5. Once(s)
    <2> SUFFICES ASSUME NEW i \in DOMAIN s, NEW j \in DOMAIN s, i # j, s[i] = s[j]
                 PROVE  s[i].kind \in {"note", "report"}
        BY DEF Once
    <2>1. /\ s[i] = b[i + 1] /\ s[j] = b[j + 1] /\ i + 1 # j + 1
          /\ i + 1 \in DOMAIN b /\ j + 1 \in DOMAIN b
        BY <1>1
    <2> QED BY <2>1 DEF Once
<1>6. ASSUME Head(b).kind \notin {"note", "report"}, In(s, Head(b)) PROVE FALSE
    <2>1. PICK i \in 1..(Len(b) - 1) : s[i] = Head(b)
        BY <1>1, <1>6 DEF In
    <2>2. b[i + 1] = b[1] /\ i + 1 # 1 /\ i + 1 \in DOMAIN b /\ 1 \in DOMAIN b
        BY <1>1, <2>1
    <2> QED BY <1>1, <1>6, <2>2 DEF Once
<1> QED BY <1>2, <1>3, <1>4, <1>5, <1>6 DEF s

LEMMA EventKinds ==
    /\ Market \in Events /\ Market.kind = "market" /\ [kind |-> "note"] \in Events
    /\ \A t \in Trades : /\ Opened(t) \in Events /\ Opened(t).kind = "open"
                         /\ Opened(t).trade = t
    /\ \A t \in Trades, w \in Whose :
         /\ Closed(t, w) \in Events /\ Closed(t, w).kind = "close"
         /\ Closed(t, w).trade = t /\ Closed(t, w).result = w
    /\ \A r \in BOOLEAN : [kind |-> "report", ready |-> r] \in Events
    /\ ShutdownEvent.kind = "shutdown"
    /\ \A e \in Events : /\ e.kind \in {"market", "note", "open", "close", "report"}
                         /\ e.kind = "market" => e = Market
                         /\ e.kind = "open" => e.trade \in Trades /\ e = Opened(e.trade)
                         /\ e.kind = "close" => /\ e.trade \in Trades /\ e.result \in Whose
                                               /\ e = Closed(e.trade, e.result)
                         /\ e.kind = "report" => e.ready \in BOOLEAN
<1>1. /\ Market \in Events /\ Market.kind = "market" /\ [kind |-> "note"] \in Events
      /\ ShutdownEvent.kind = "shutdown"
    BY DEF Market, Events, ShutdownEvent
<1>2. /\ \A t \in Trades : /\ Opened(t) \in Events /\ Opened(t).kind = "open"
                           /\ Opened(t).trade = t
      /\ \A t \in Trades, w \in Whose :
           /\ Closed(t, w) \in Events /\ Closed(t, w).kind = "close"
           /\ Closed(t, w).trade = t /\ Closed(t, w).result = w
    BY DEF Opened, Closed, Events
<1>3. \A r \in BOOLEAN : [kind |-> "report", ready |-> r] \in Events
    BY DEF Events
<1>4. ASSUME NEW e \in Events
      PROVE  /\ e.kind \in {"market", "note", "open", "close", "report"}
             /\ e.kind = "market" => e = Market
             /\ e.kind = "open" => e.trade \in Trades /\ e = Opened(e.trade)
             /\ e.kind = "close" => /\ e.trade \in Trades /\ e.result \in Whose
                                   /\ e = Closed(e.trade, e.result)
             /\ e.kind = "report" => e.ready \in BOOLEAN
    <2>1. CASE e \in [kind : {"market", "note"}]
        BY <2>1 DEF Market
    <2>2. CASE e \in [kind : {"open"}, trade : Trades]
        BY <2>2 DEF Opened
    <2>3. CASE e \in [kind : {"close"}, trade : Trades, result : Whose]
        BY <2>3 DEF Closed
    <2>4. CASE e \in [kind : {"report"}, ready : BOOLEAN]
        BY <2>4
    <2> QED BY <2>1, <2>2, <2>3, <2>4 DEF Events
<1> QED BY <1>1, <1>2, <1>3, <1>4

EvidenceRecords ==
    [phase : Phases, queue : Seq(Messages), batch : Seq(Events), counted : SUBSET Counters]

LEMMA PendingIsIn ==
    /\ \A x : Pending(x) <=> In(Backlog, x)
    /\ OnceOnly <=> Once(Backlog)
BY DEF Pending, In, OnceOnly, Once

LEMMA PendingIsInNext ==
    /\ \A x : Pending(x)' <=> In(Backlog', x)
    /\ OnceOnly' <=> Once(Backlog')
BY DEF Pending, In, OnceOnly, Once

LEMMA EvidenceNow ==
    ASSUME TypeOK, EvidenceInv
    PROVE  /\ evidence \in EvidenceRecords /\ EvidenceTypeOK /\ LedgerTypeOK
           /\ EvidenceStopsLast /\ LedgerKept /\ EndsClean
           /\ evidence.batch \in Seq(Messages) /\ evidence.queue \in Seq(Messages)
           /\ Len(evidence.queue) \in Nat /\ Len(evidence.batch) \in Nat
           /\ Backlog \in Seq(Messages)
<1>1. EvidenceTypeOK /\ LedgerTypeOK /\ EvidenceStopsLast /\ LedgerKept /\ EndsClean
    BY DEF TypeOK, EvidenceInv
<1>2. evidence \in EvidenceRecords
    BY <1>1 DEF EvidenceTypeOK, EvidenceRecords, Messages
<1>3. evidence.batch \in Seq(Events) /\ evidence.queue \in Seq(Messages)
    BY <1>2 DEF EvidenceRecords
<1>4. evidence.batch \in Seq(Messages)
    BY <1>3 DEF Messages
<1>5. Backlog \in Seq(Messages)
    BY <1>3, <1>4, ConcatProperties DEF Backlog
<1> QED BY <1>1, <1>2, <1>3, <1>4, <1>5

\* An event offered by the main loop: it is pending from now on, or counted.
LEMMA OfferKeeps ==
    ASSUME TypeOK, EvidenceInv, stage = "running", stage' = stage,
           NEW e \in Events, evidence' = Offer(e)
    PROVE  /\ EvidenceTypeOK' /\ EvidenceStopsLast' /\ EndsClean'
           /\ (evidence'.counted = {} /\ evidence'.phase # "unopened")
                => /\ evidence.counted = {} /\ evidence.phase # "unopened"
                   /\ \A x : Pending(x)' <=> Pending(x) \/ x = e
                   /\ (OnceOnly /\ (e.kind \in {"note", "report"} \/ ~Pending(e))) => OnceOnly'
<1>1. /\ evidence \in EvidenceRecords /\ EvidenceTypeOK /\ EvidenceStopsLast /\ EndsClean
      /\ ~EvidenceHungUp /\ ~FeedHungUp /\ ~EvidenceHungUp' /\ ~FeedHungUp'
      /\ stage' # "exit" /\ e \in Messages
    BY EvidenceNow DEF EvidenceHungUp, FeedHungUp, Messages
<1>2. evidence.counted = {} => evidence.phase \notin {"stopping", "closing", "ended"}
    BY <1>1 DEF EndsClean
<1>3. CASE Accepting
    <2> DEFINE s == Append(evidence.queue, e)
    <2>1. evidence' = [evidence EXCEPT !.queue = s]
        BY <1>3 DEF Offer
    <2>2. /\ s \in Seq(Messages) /\ Len(s) = Len(evidence.queue) + 1
          /\ Len(evidence.queue) \in Nat /\ s[Len(s)] = e
          /\ \A i \in 1..Len(evidence.queue) : s[i] = evidence.queue[i]
        BY <1>1, EvidenceNow
    <2> HIDE DEF s
    <2>3. /\ evidence'.queue = s /\ evidence'.batch = evidence.batch
          /\ evidence'.phase = evidence.phase /\ evidence'.counted = evidence.counted
          /\ evidence' \in EvidenceRecords
        BY <1>1, <2>1, <2>2 DEF EvidenceRecords
    <2>4. Len(s) <= EvidenceCap
        <3>1. Len(evidence.queue) < EvidenceCap /\ EvidenceCap \in Nat
            BY <1>3, CaptureAssumption DEF Accepting, HasRoom
        <3> QED BY <2>2, <3>1
    <2>5. EvidenceTypeOK'
        BY <1>1, <2>3, <2>4 DEF EvidenceTypeOK, EvidenceRecords, Messages
    <2>6. EvidenceStopsLast'
        <3>1. \A i \in 1..Len(s) : s[i] # ShutdownEvent
            <4>1. e # ShutdownEvent
                BY EventKinds
            <4>2. \A i \in 1..Len(evidence.queue) : evidence.queue[i] # ShutdownEvent
                BY <1>1, EvidenceNow DEF EvidenceStopsLast
            <4>3. \A i \in 1..Len(s) : i \in 1..Len(evidence.queue) \/ i = Len(s)
                BY <2>2
            <4> QED BY <2>2, <4>1, <4>2, <4>3
        <3>2. DOMAIN s = 1..Len(s)
            BY <2>2
        <3> QED BY <1>1, <2>3, <3>1, <3>2 DEF EvidenceStopsLast
    <2>7. EndsClean'
        BY <1>2, <2>3 DEF EndsClean
    <2>8. Backlog' = Append(Backlog, e)
        BY <1>1, <2>3, EvidenceNow, AppendSame DEF Backlog, s
    <2>9. /\ \A x : In(Backlog', x) <=> In(Backlog, x) \/ x = e
          /\ (Once(Backlog) /\ (e.kind \in {"note", "report"} \/ ~In(Backlog, e)))
               => Once(Backlog')
        BY <1>1, <2>8, EvidenceNow, InAppend
    <2>10. /\ \A x : Pending(x)' <=> Pending(x) \/ x = e
           /\ (OnceOnly /\ (e.kind \in {"note", "report"} \/ ~Pending(e))) => OnceOnly'
        BY <2>9, PendingIsIn, PendingIsInNext
    <2> QED BY <2>3, <2>5, <2>6, <2>7, <2>10
<1>4. CASE ~Accepting
    <2>1. evidence' = [evidence EXCEPT !.counted = @ \cup {"dropped"}]
        BY <1>4 DEF Offer, Refused
    <2>2. evidence.counted \cup {"dropped"} \in SUBSET Counters
        BY <1>1 DEF EvidenceRecords, Counters
    <2>3. /\ evidence'.queue = evidence.queue /\ evidence'.batch = evidence.batch
          /\ evidence'.phase = evidence.phase /\ evidence'.counted # {}
          /\ evidence' \in EvidenceRecords
        BY <1>1, <2>1, <2>2 DEF EvidenceRecords
    <2>4. EvidenceTypeOK'
        BY <1>1, <2>3 DEF EvidenceTypeOK, EvidenceRecords, Messages
    <2>5. EvidenceStopsLast'
        BY <1>1, <2>3 DEF EvidenceStopsLast
    <2>6. EndsClean'
        BY <2>3 DEF EndsClean
    <2> QED BY <2>3, <2>4, <2>5, <2>6
<1> QED BY <1>3, <1>4

\* Events of different kinds, trades or results are different.
LEMMA EventsDiffer ==
    /\ \A t \in Trades : Opened(t) # Market
    /\ \A t \in Trades, w \in Whose : Closed(t, w) # Market
    /\ \A t, u \in Trades, w \in Whose : Opened(t) # Closed(u, w)
    /\ \A t, u \in Trades : t # u => Opened(t) # Opened(u)
    /\ \A t, u \in Trades, w, x \in Whose : t # u \/ w # x => Closed(t, w) # Closed(u, x)
    /\ \A e : e.kind \in {"note", "report", "shutdown"}
                => /\ e # Market
                   /\ \A t \in Trades : e # Opened(t) /\ \A w \in Whose : e # Closed(t, w)
<1>1. /\ \A t \in Trades : Opened(t) # Market
      /\ \A t \in Trades, w \in Whose : Closed(t, w) # Market
    BY EventKinds
<1>2. \A t, u \in Trades, w \in Whose : Opened(t) # Closed(u, w)
    BY EventKinds
<1>3. /\ \A t, u \in Trades : t # u => Opened(t) # Opened(u)
      /\ \A t, u \in Trades, w, x \in Whose : t # u \/ w # x => Closed(t, w) # Closed(u, x)
    BY EventKinds
<1>4. ASSUME NEW e, e.kind \in {"note", "report", "shutdown"}
      PROVE  /\ e # Market
             /\ \A t \in Trades : e # Opened(t) /\ \A w \in Whose : e # Closed(t, w)
    BY <1>4, EventKinds
<1> QED BY <1>1, <1>2, <1>3, <1>4

TradeRecords ==
    [own : [Trades -> Status], earlier : [Trades -> Status \cup {"settled"}],
     live : BOOLEAN, dropped : SUBSET Trades]

\* What the ledger says of id t.
Kept(t) == IdKept(t) /\ (t \notin trades.dropped => TradeKept(t))

LEMMA LedgerNow ==
    ASSUME TypeOK, EvidenceInv, evidence.counted = {}, evidence.phase # "unopened"
    PROVE  /\ OnceOnly /\ (told => db.market \/ Pending(Market)) /\ (Pending(Market) => told)
           /\ \A t \in Trades : Kept(t)
BY EvidenceNow DEF LedgerKept, Kept

LEMMA LedgerNext ==
    ASSUME (evidence.counted = {})' /\ (evidence.phase # "unopened")'
             => /\ OnceOnly'
                /\ told' => db'.market \/ Pending(Market)'
                /\ Pending(Market)' => told'
                /\ \A t \in Trades : Kept(t)'
    PROVE  LedgerKept'
BY DEF LedgerKept, Kept

\* What is pending of id t does not change.
SamePending(t) ==
    /\ Pending(Opened(t))' <=> Pending(Opened(t))
    /\ \A w \in Whose : Pending(Closed(t, w))' <=> Pending(Closed(t, w))

\* An id is as it was when neither the engine nor the database changes it, nor what is
\* pending of it.
LEMMA SameKept ==
    ASSUME NEW t \in Trades, Kept(t), SamePending(t),
           trades'.own[t] = trades.own[t], trades'.earlier[t] = trades.earlier[t],
           trades'.live = trades.live, trades.dropped \subseteq trades'.dropped,
           db'.trade[t] = db.trade[t], db'.result[t] = db.result[t],
           \A w \in Whose : << t, w >> \in db.balance => << t, w >> \in db'.balance
    PROVE  Kept(t)'
<1>1. /\ Pending(Opened(t))' <=> Pending(Opened(t))
      /\ Pending(Closed(t, "own"))' <=> Pending(Closed(t, "own"))
      /\ Pending(Closed(t, "earlier"))' <=> Pending(Closed(t, "earlier"))
      /\ << t, "own" >> \in db.balance => << t, "own" >> \in db'.balance
      /\ << t, "earlier" >> \in db.balance => << t, "earlier" >> \in db'.balance
    BY DEF SamePending, Whose
<1>2. IdKept(t)'
    BY <1>1 DEF Kept, IdKept
<1>3. ASSUME t \notin trades'.dropped PROVE TradeKept(t)'
    <2>1. TradeKept(t)
        BY <1>3 DEF Kept
    <2> QED BY <1>1, <2>1 DEF TradeKept
<1> QED BY <1>2, <1>3 DEF Kept

\* The ledger is the same when nothing of it changes, nor what is pending.
LEMMA SameLedger ==
    ASSUME TypeOK, EvidenceInv,
           (evidence'.counted = {} /\ evidence'.phase # "unopened")
             => /\ evidence.counted = {} /\ evidence.phase # "unopened"
                /\ Pending(Market)' <=> Pending(Market)
                /\ \A t \in Trades : SamePending(t)
                /\ OnceOnly => OnceOnly',
           told' = told, trades' = trades,
           db'.market = db.market, db'.trade = db.trade, db'.result = db.result,
           db'.balance = db.balance
    PROVE  LedgerKept'
<1> SUFFICES ASSUME evidence'.counted = {}, evidence'.phase # "unopened"
             PROVE  /\ OnceOnly'
                    /\ told' => db'.market \/ Pending(Market)'
                    /\ Pending(Market)' => told'
                    /\ \A t \in Trades : Kept(t)'
    BY LedgerNext
<1>1. /\ OnceOnly /\ (told => db.market \/ Pending(Market)) /\ (Pending(Market) => told)
      /\ \A t \in Trades : Kept(t)
    BY LedgerNow
<1>2. ASSUME NEW t \in Trades PROVE Kept(t)'
    BY <1>1, SameKept
<1> QED BY <1>1, <1>2

LEMMA NoteKeeps ==
    ASSUME TypeOK, EvidenceInv, Note \/ StorageReport
    PROVE  EvidenceTypeOK' /\ LedgerTypeOK' /\ EvidenceInv'
<1>1. PICK e \in Events : e.kind \in {"note", "report"} /\ evidence' = Offer(e)
    <2>1. CASE Note
        <3>1. [kind |-> "note"].kind \in {"note", "report"}
            OBVIOUS
        <3>2. evidence' = Offer([kind |-> "note"])
            BY <2>1 DEF Note
        <3> QED BY <3>1, <3>2, EventKinds
    <2>2. CASE StorageReport
        <3>1. PICK stale \in BOOLEAN : evidence' = Offer(
                 [kind |-> "report", ready |-> CaptureHealth(stale) = "sweep_grade"])
            BY <2>2 DEF StorageReport
        <3> DEFINE r == CaptureHealth(stale) = "sweep_grade"
        <3>2. r \in BOOLEAN /\ evidence' = Offer([kind |-> "report", ready |-> r])
            BY <3>1
        <3> HIDE DEF r
        <3>3. [kind |-> "report", ready |-> r] \in Events
            BY <3>2, EventKinds
        <3>4. [kind |-> "report", ready |-> r].kind \in {"note", "report"}
            OBVIOUS
        <3> QED BY <3>2, <3>3, <3>4
    <2> QED BY <2>1, <2>2
<1>2. stage = "running" /\ stage' = stage /\ told' = told /\ trades' = trades /\ db' = db
    BY DEF Note, StorageReport
<1>3. /\ EvidenceTypeOK' /\ EvidenceStopsLast' /\ EndsClean'
      /\ (evidence'.counted = {} /\ evidence'.phase # "unopened")
           => /\ evidence.counted = {} /\ evidence.phase # "unopened"
              /\ \A x : Pending(x)' <=> Pending(x) \/ x = e
              /\ OnceOnly => OnceOnly'
    BY <1>1, <1>2, OfferKeeps
<1>4. e # Market /\ \A t \in Trades : e # Opened(t) /\ \A w \in Whose : e # Closed(t, w)
    BY <1>1, EventsDiffer
<1>5. ASSUME evidence'.counted = {}, evidence'.phase # "unopened"
      PROVE  /\ evidence.counted = {} /\ evidence.phase # "unopened"
             /\ Pending(Market)' <=> Pending(Market)
             /\ \A t \in Trades : SamePending(t)
             /\ OnceOnly => OnceOnly'
    BY <1>3, <1>4, <1>5 DEF SamePending
<1>6. LedgerKept'
    BY <1>2, <1>5, SameLedger
<1>7. LedgerTypeOK'
    BY <1>2, EvidenceNow DEF LedgerTypeOK
<1> QED BY <1>3, <1>6, <1>7 DEF EvidenceInv

LEMMA MarketFoundKeeps ==
    ASSUME TypeOK, EvidenceInv, MarketFound
    PROVE  EvidenceTypeOK' /\ LedgerTypeOK' /\ EvidenceInv'
<1>1. /\ stage = "running" /\ stage' = stage /\ ~told /\ told' = TRUE
      /\ trades' = trades /\ db' = db /\ evidence' = Offer(Market)
    BY DEF MarketFound, Market
<1>2. /\ EvidenceTypeOK' /\ EvidenceStopsLast' /\ EndsClean'
      /\ (evidence'.counted = {} /\ evidence'.phase # "unopened")
           => /\ evidence.counted = {} /\ evidence.phase # "unopened"
              /\ \A x : Pending(x)' <=> Pending(x) \/ x = Market
              /\ (OnceOnly /\ ~Pending(Market)) => OnceOnly'
    BY <1>1, OfferKeeps, EventKinds
<1>3. LedgerKept'
    <2> SUFFICES ASSUME evidence'.counted = {}, evidence'.phase # "unopened"
                 PROVE  /\ OnceOnly'
                        /\ told' => db'.market \/ Pending(Market)'
                        /\ Pending(Market)' => told'
                        /\ \A t \in Trades : Kept(t)'
        BY LedgerNext
    <2>1. OnceOnly /\ ~Pending(Market) /\ \A t \in Trades : Kept(t)
        BY <1>1, <1>2, LedgerNow
    <2>2. ASSUME NEW t \in Trades PROVE Kept(t)'
        <3>1. SamePending(t)
            BY <1>2, EventsDiffer DEF SamePending
        <3> QED BY <1>1, <2>1, <3>1, SameKept
    <2> QED BY <1>1, <1>2, <2>1, <2>2
<1>4. LedgerTypeOK'
    BY <1>1, EvidenceNow DEF LedgerTypeOK
<1> QED BY <1>2, <1>3, <1>4 DEF EvidenceInv

\* What the engine did and reports, whether or not the output reaches the writer.
LEMMA ReportsKeeps ==
    ASSUME TypeOK, EvidenceInv, stage = "running", stage' = stage,
           NEW e \in Events, NEW engine, NEW t, Reports(engine, t, e)
    PROVE  /\ EvidenceTypeOK' /\ EvidenceStopsLast' /\ EndsClean'
           /\ (evidence'.counted = {} /\ evidence'.phase # "unopened")
                => /\ evidence.counted = {} /\ evidence.phase # "unopened"
                   /\ (OnceOnly /\ ~Pending(e)) => OnceOnly'
                   /\ \A x : x # e => (Pending(x)' <=> Pending(x))
                   /\ \/ trades' = engine /\ Pending(e)'
                      \/ /\ trades' = [engine EXCEPT !.dropped = @ \cup {t}]
                         /\ Pending(e)' <=> Pending(e)
<1>1. CASE trades' = engine /\ evidence' = Offer(e)
    BY <1>1, OfferKeeps
<1>2. CASE /\ trades' = [engine EXCEPT !.dropped = @ \cup {t}] /\ UNCHANGED evidence
    <2>1. EvidenceTypeOK /\ EvidenceStopsLast /\ EndsClean
        BY EvidenceNow
    <2>2. EvidenceTypeOK' /\ EvidenceStopsLast' /\ EndsClean'
        BY <1>2, <2>1
        DEF EvidenceTypeOK, EvidenceStopsLast, EndsClean, EvidenceHungUp, FeedHungUp
    <2>3. Backlog' = Backlog
        BY <1>2 DEF Backlog
    <2>4. (\A x : Pending(x)' <=> Pending(x)) /\ (OnceOnly' <=> OnceOnly)
        BY <2>3, PendingIsIn, PendingIsInNext
    <2> QED BY <1>2, <2>2, <2>4
<1> QED BY <1>1, <1>2 DEF Reports, Handled

LEMMA TradeOpensKeeps ==
    ASSUME TypeOK, EvidenceInv, NEW t \in Trades, TradeOpens(t)
    PROVE  EvidenceTypeOK' /\ LedgerTypeOK' /\ EvidenceInv'
<1> DEFINE engine == [trades EXCEPT !.own[t] = "open"]
           lost == [engine EXCEPT !.dropped = @ \cup {t}]
<1>1. /\ stage = "running" /\ stage' = stage /\ told' = told /\ db' = db
      /\ ~trades.live /\ trades.own[t] = "none" /\ Reports(engine, t, Opened(t))
    BY DEF TradeOpens
<1>2. trades \in TradeRecords
    BY EvidenceNow DEF LedgerTypeOK, TradeRecords
<1>3. /\ engine \in TradeRecords /\ engine.own[t] = "open" /\ engine.earlier = trades.earlier
      /\ engine.live = trades.live /\ engine.dropped = trades.dropped
      /\ \A u \in Trades : u # t => engine.own[u] = trades.own[u]
    BY <1>2 DEF TradeRecords, Status
<1>4. /\ lost \in TradeRecords /\ lost.own = engine.own /\ lost.earlier = engine.earlier
      /\ lost.live = engine.live /\ lost.dropped = trades.dropped \cup {t}
    BY <1>3 DEF TradeRecords
<1>5. trades' = engine \/ trades' = lost
    BY <1>1 DEF Reports
<1> HIDE DEF engine, lost
<1>6. /\ EvidenceTypeOK' /\ EvidenceStopsLast' /\ EndsClean'
      /\ (evidence'.counted = {} /\ evidence'.phase # "unopened")
           => /\ evidence.counted = {} /\ evidence.phase # "unopened"
              /\ (OnceOnly /\ ~Pending(Opened(t))) => OnceOnly'
              /\ \A x : x # Opened(t) => (Pending(x)' <=> Pending(x))
              /\ \/ trades' = engine /\ Pending(Opened(t))'
                 \/ trades' = lost /\ (Pending(Opened(t))' <=> Pending(Opened(t)))
    BY <1>1, ReportsKeeps, EventKinds DEF lost
<1>7. LedgerTypeOK'
    BY <1>1, <1>3, <1>4, <1>5, EvidenceNow DEF LedgerTypeOK, TradeRecords
<1>8. LedgerKept'
    <2> SUFFICES ASSUME evidence'.counted = {}, evidence'.phase # "unopened"
                 PROVE  /\ OnceOnly'
                        /\ told' => db'.market \/ Pending(Market)'
                        /\ Pending(Market)' => told'
                        /\ \A u \in Trades : Kept(u)'
        BY LedgerNext
    <2>1. /\ OnceOnly /\ (told => db.market \/ Pending(Market)) /\ (Pending(Market) => told)
          /\ \A u \in Trades : Kept(u)
        BY <1>6, LedgerNow
    <2>2. IdKept(t) /\ ~Pending(Opened(t))
        BY <1>1, <2>1 DEF Kept, IdKept
    <2>3. Pending(Market)' <=> Pending(Market)
        BY <1>6, EventsDiffer
    <2>4. ASSUME NEW u \in Trades, u # t PROVE Kept(u)'
        <3>1. SamePending(u)
            BY <1>6, <2>4, EventsDiffer DEF SamePending
        <3>2. /\ trades'.own[u] = trades.own[u] /\ trades'.earlier[u] = trades.earlier[u]
              /\ trades'.live = trades.live /\ trades.dropped \subseteq trades'.dropped
            BY <1>3, <1>4, <1>5, <2>4
        <3> QED BY <1>1, <2>1, <3>1, <3>2, SameKept
    <2>5. Kept(t)'
        <3>1. /\ Pending(Closed(t, "own"))' <=> Pending(Closed(t, "own"))
              /\ Pending(Closed(t, "earlier"))' <=> Pending(Closed(t, "earlier"))
            BY <1>6, EventsDiffer DEF Whose
        <3>2. /\ trades'.own[t] = "open" /\ trades'.earlier[t] = trades.earlier[t]
              /\ trades'.live = trades.live
            BY <1>3, <1>4, <1>5
        <3>3. IdKept(t)'
            BY <1>1, <2>2, <3>1, <3>2 DEF IdKept
        <3>4. ASSUME t \notin trades'.dropped PROVE TradeKept(t)'
            <4>1. trades'.dropped = trades.dropped /\ Pending(Opened(t))'
                BY <1>3, <1>4, <1>5, <1>6, <3>4
            <4>2. TradeKept(t)
                BY <2>1, <3>4, <4>1 DEF Kept
            <4> QED BY <1>1, <3>1, <3>2, <4>1, <4>2 DEF TradeKept
        <3> QED BY <3>3, <3>4 DEF Kept
    <2> QED BY <1>1, <1>6, <2>1, <2>2, <2>3, <2>4, <2>5
<1> QED BY <1>6, <1>7, <1>8 DEF EvidenceInv

\* The trade of a live fill, of which nothing is ever pending but its close.
LEMMA LiveFillKeeps ==
    ASSUME TypeOK, EvidenceInv, NEW t \in Trades, LiveFill(t)
    PROVE  EvidenceTypeOK' /\ LedgerTypeOK' /\ EvidenceInv'
<1>1. /\ stage' = stage /\ evidence' = evidence /\ told' = told /\ db' = db
      /\ trades.live /\ trades.own[t] = "none"
      /\ trades' = [trades EXCEPT !.own[t] = "open"]
    BY DEF LiveFill
<1>2. trades \in TradeRecords /\ EvidenceTypeOK /\ EvidenceStopsLast /\ EndsClean
    BY EvidenceNow DEF LedgerTypeOK, TradeRecords
<1>3. /\ trades' \in TradeRecords /\ trades'.own[t] = "open"
      /\ trades'.earlier = trades.earlier
      /\ trades'.live = trades.live /\ trades'.dropped = trades.dropped
      /\ \A u \in Trades : u # t => trades'.own[u] = trades.own[u]
    BY <1>1, <1>2 DEF TradeRecords, Status
<1>4. LedgerTypeOK'
    BY <1>1, <1>3, EvidenceNow DEF LedgerTypeOK, TradeRecords
<1>5. EvidenceTypeOK' /\ EvidenceStopsLast' /\ EndsClean'
    BY <1>1, <1>2
    DEF EvidenceTypeOK, EvidenceStopsLast, EndsClean, EvidenceHungUp, FeedHungUp
<1>6. LedgerKept'
    <2> SUFFICES ASSUME evidence.counted = {}, evidence.phase # "unopened"
                 PROVE  /\ OnceOnly'
                        /\ told' => db'.market \/ Pending(Market)'
                        /\ Pending(Market)' => told'
                        /\ \A u \in Trades : Kept(u)'
        BY <1>1, LedgerNext
    <2>1. /\ OnceOnly /\ (told => db.market \/ Pending(Market)) /\ (Pending(Market) => told)
          /\ \A u \in Trades : Kept(u)
        BY LedgerNow
    <2>2. Backlog' = Backlog
        BY <1>1 DEF Backlog
    <2>3. (\A x : Pending(x)' <=> Pending(x)) /\ (OnceOnly' <=> OnceOnly)
        BY <2>2, PendingIsIn, PendingIsInNext
    <2>4. ASSUME NEW u \in Trades, u # t PROVE Kept(u)'
        <3>1. SamePending(u)
            BY <2>3 DEF SamePending
        <3> QED BY <1>1, <1>3, <2>1, <2>4, <3>1, SameKept
    <2>5. Kept(t)'
        <3>1. IdKept(t)'
            BY <1>1, <1>3, <2>1, <2>3 DEF Kept, IdKept
        <3>2. ASSUME t \notin trades'.dropped PROVE TradeKept(t)'
            <4>1. TradeKept(t)
                BY <1>3, <2>1, <3>2 DEF Kept
            <4> QED BY <1>1, <1>3, <2>3, <4>1 DEF TradeKept
        <3> QED BY <3>1, <3>2 DEF Kept
    <2> QED BY <1>1, <2>1, <2>3, <2>4, <2>5
<1> QED BY <1>4, <1>5, <1>6 DEF EvidenceInv

\* The engine closes its own trade of an id, or an earlier one.
ClosedEngine(t, w) == [trades EXCEPT ![w][t] = "closed"]

LEMMA ClosedEngineIs ==
    ASSUME NEW t \in Trades, trades \in TradeRecords, NEW w \in Whose, trades[w][t] = "open"
    PROVE  LET engine == ClosedEngine(t, w)
           IN  /\ engine \in TradeRecords
               /\ engine.live = trades.live /\ engine.dropped = trades.dropped
               /\ \A u \in Trades : u # t => /\ engine.own[u] = trades.own[u]
                                             /\ engine.earlier[u] = trades.earlier[u]
               /\ w = "own" => /\ trades.own[t] = "open" /\ engine.own[t] = "closed"
                               /\ engine.earlier[t] = trades.earlier[t]
               /\ w = "earlier" => /\ trades.earlier[t] = "open"
                                   /\ engine.earlier[t] = "closed"
                                   /\ engine.own[t] = trades.own[t]
<1>1. CASE w = "own"
    <2>1. ClosedEngine(t, w) = [trades EXCEPT !.own[t] = "closed"] /\ trades.own[t] = "open"
        BY <1>1 DEF ClosedEngine, TradeRecords
    <2> QED BY <1>1, <2>1 DEF TradeRecords, Status
<1>2. CASE w = "earlier"
    <2>1. /\ ClosedEngine(t, w) = [trades EXCEPT !.earlier[t] = "closed"]
          /\ trades.earlier[t] = "open"
        BY <1>2 DEF ClosedEngine, TradeRecords
    <2> QED BY <1>2, <2>1 DEF TradeRecords, Status
<1> QED BY <1>1, <1>2 DEF Whose

LEMMA TradeClosesKeeps ==
    ASSUME TypeOK, EvidenceInv, NEW t \in Trades, NEW w \in Whose, TradeCloses(t, w)
    PROVE  EvidenceTypeOK' /\ LedgerTypeOK' /\ EvidenceInv'
<1> DEFINE engine == ClosedEngine(t, w)
           lost == [engine EXCEPT !.dropped = @ \cup {t}]
<1>1. /\ stage = "running" /\ stage' = stage /\ told' = told /\ db' = db
      /\ trades[w][t] = "open" /\ Reports(engine, t, Closed(t, w))
    BY DEF TradeCloses, ClosedEngine
<1>2. trades \in TradeRecords
    BY EvidenceNow DEF LedgerTypeOK, TradeRecords
<1>3. /\ engine \in TradeRecords
      /\ engine.live = trades.live /\ engine.dropped = trades.dropped
      /\ \A u \in Trades : u # t => /\ engine.own[u] = trades.own[u]
                                    /\ engine.earlier[u] = trades.earlier[u]
      /\ w = "own" => /\ trades.own[t] = "open" /\ engine.own[t] = "closed"
                      /\ engine.earlier[t] = trades.earlier[t]
      /\ w = "earlier" => /\ trades.earlier[t] = "open" /\ engine.earlier[t] = "closed"
                          /\ engine.own[t] = trades.own[t]
    BY <1>1, <1>2, ClosedEngineIs
<1> HIDE DEF engine
<1>4. /\ lost \in TradeRecords /\ lost.own = engine.own /\ lost.earlier = engine.earlier
      /\ lost.live = engine.live /\ lost.dropped = trades.dropped \cup {t}
    BY <1>3 DEF TradeRecords
<1>5. trades' = engine \/ trades' = lost
    BY <1>1 DEF Reports
<1> HIDE DEF lost
<1>6. /\ EvidenceTypeOK' /\ EvidenceStopsLast' /\ EndsClean'
      /\ (evidence'.counted = {} /\ evidence'.phase # "unopened")
           => /\ evidence.counted = {} /\ evidence.phase # "unopened"
              /\ (OnceOnly /\ ~Pending(Closed(t, w))) => OnceOnly'
              /\ \A x : x # Closed(t, w) => (Pending(x)' <=> Pending(x))
              /\ \/ trades' = engine /\ Pending(Closed(t, w))'
                 \/ trades' = lost /\ (Pending(Closed(t, w))' <=> Pending(Closed(t, w)))
    BY <1>1, ReportsKeeps, EventKinds DEF lost
<1>7. LedgerTypeOK'
    BY <1>1, <1>3, <1>4, <1>5, EvidenceNow DEF LedgerTypeOK, TradeRecords
<1>8. LedgerKept'
    <2> SUFFICES ASSUME evidence'.counted = {}, evidence'.phase # "unopened"
                 PROVE  /\ OnceOnly'
                        /\ told' => db'.market \/ Pending(Market)'
                        /\ Pending(Market)' => told'
                        /\ \A u \in Trades : Kept(u)'
        BY LedgerNext
    <2>1. /\ OnceOnly /\ (told => db.market \/ Pending(Market)) /\ (Pending(Market) => told)
          /\ \A u \in Trades : Kept(u)
        BY <1>6, LedgerNow
    <2>2. IdKept(t) /\ ~Pending(Closed(t, w))
        <3>1. IdKept(t)
            BY <2>1 DEF Kept
        <3>2. CASE w = "own"
            BY <1>3, <3>1, <3>2 DEF IdKept
        <3>3. CASE w = "earlier"
            BY <1>3, <3>1, <3>3 DEF IdKept
        <3> QED BY <3>1, <3>2, <3>3 DEF Whose
    <2>3. Pending(Market)' <=> Pending(Market)
        BY <1>6, EventsDiffer
    <2>4. ASSUME NEW u \in Trades, u # t PROVE Kept(u)'
        <3>1. SamePending(u)
            BY <1>6, <2>4, EventsDiffer DEF SamePending
        <3>2. /\ trades'.own[u] = trades.own[u] /\ trades'.earlier[u] = trades.earlier[u]
              /\ trades'.live = trades.live /\ trades.dropped \subseteq trades'.dropped
            BY <1>3, <1>4, <1>5, <2>4
        <3> QED BY <1>1, <2>1, <3>1, <3>2, SameKept
    <2>5. Kept(t)'
        <3>1. /\ Pending(Opened(t))' <=> Pending(Opened(t))
              /\ \A x \in Whose : x # w => (Pending(Closed(t, x))' <=> Pending(Closed(t, x)))
            BY <1>6, EventsDiffer
        <3>2. trades'.live = trades.live
            BY <1>3, <1>4, <1>5
        <3>3. CASE w = "own"
            <4>1. trades'.own[t] = "closed" /\ trades'.earlier[t] = trades.earlier[t]
                BY <1>3, <1>4, <1>5, <3>3
            <4>2. Pending(Closed(t, "earlier"))' <=> Pending(Closed(t, "earlier"))
                BY <3>1, <3>3 DEF Whose
            <4>3. IdKept(t)'
                BY <1>1, <1>3, <2>2, <3>1, <3>2, <3>3, <4>1, <4>2 DEF IdKept
            <4>4. ASSUME t \notin trades'.dropped PROVE TradeKept(t)'
                <5>1. trades'.dropped = trades.dropped /\ Pending(Closed(t, "own"))'
                    BY <1>3, <1>4, <1>5, <1>6, <3>3, <4>4
                <5>2. TradeKept(t)
                    BY <2>1, <4>4, <5>1 DEF Kept
                <5> QED BY <1>1, <1>3, <2>2, <3>1, <3>2, <3>3, <4>1, <4>2, <5>1, <5>2
                        DEF TradeKept
            <4> QED BY <4>3, <4>4 DEF Kept
        <3>4. CASE w = "earlier"
            <4>1. trades'.earlier[t] = "closed" /\ trades'.own[t] = trades.own[t]
                BY <1>3, <1>4, <1>5, <3>4
            <4>2. Pending(Closed(t, "own"))' <=> Pending(Closed(t, "own"))
                BY <3>1, <3>4 DEF Whose
            <4>3. IdKept(t)'
                BY <1>1, <1>3, <2>2, <3>1, <3>2, <3>4, <4>1, <4>2 DEF IdKept
            <4>4. ASSUME t \notin trades'.dropped PROVE TradeKept(t)'
                <5>1. trades'.dropped = trades.dropped /\ Pending(Closed(t, "earlier"))'
                    BY <1>3, <1>4, <1>5, <1>6, <3>4, <4>4
                <5>2. TradeKept(t)
                    BY <2>1, <4>4, <5>1 DEF Kept
                <5>3. trades.earlier[t] = "open" /\ ~Pending(Closed(t, "earlier"))
                    BY <1>3, <2>2, <3>4
                <5>4. RowOf("open") = "open"
                    BY DEF RowOf
                <5> QED BY <1>1, <3>1, <3>2, <4>1, <4>2, <5>1, <5>2, <5>3, <5>4
                        DEF TradeKept
            <4> QED BY <4>3, <4>4 DEF Kept
        <3> QED BY <3>3, <3>4 DEF Whose
    <2> QED BY <1>1, <1>6, <2>1, <2>2, <2>3, <2>4, <2>5
<1> QED BY <1>6, <1>7, <1>8 DEF EvidenceInv

DbRecords ==
    [market : BOOLEAN, trade : [Trades -> Status],
     result : [Trades -> {"none", "before"} \cup Whose],
     balance : SUBSET (Trades \X Whose), ready : BOOLEAN, fresh : BOOLEAN]

LEMMA OutcomeTypes ==
    ASSUME NEW e \in Events, NEW o \in EventOutcomes(e)
    PROVE  /\ o.wrote \in {"none", "half", "all"} /\ o.terminal \in BOOLEAN
           /\ o.wrote = "all" => ~o.terminal
<1> DEFINE halves == IF e.kind \in {"close", "report"} THEN {"half"} ELSE {}
<1>1. halves \subseteq {"half"}
    OBVIOUS
<1> HIDE DEF halves
<1>2. o \in [wrote : {"none"} \cup halves, terminal : BOOLEAN]
      \/ o \in {[wrote |-> "all", terminal |-> FALSE]}
    BY DEF EventOutcomes, halves
<1>3. CASE o \in [wrote : {"none"} \cup halves, terminal : BOOLEAN]
    BY <1>1, <1>3
<1>4. CASE o = [wrote |-> "all", terminal |-> FALSE]
    BY <1>4
<1> QED BY <1>2, <1>3, <1>4

\* What is stored of an event of each kind.
LEMMA StoredByKind ==
    ASSUME NEW d, NEW e, NEW o
    PROVE  /\ e.kind = "market" => Stored(d, e, o) = StoredMarket(d, o) /\ Refers(d, e)
           /\ e.kind = "note" => Stored(d, e, o) = d /\ Refers(d, e)
           /\ e.kind = "open" => Stored(d, e, o) = StoredOpen(d, e, o)
                                 /\ Refers(d, e) = d.market
           /\ e.kind = "close" =>
                /\ Stored(d, e, o) = StoredClose(d, e, o)
                /\ Refers(d, e) = (d.trade[e.trade] # "none" /\ d.result[e.trade] = "none")
           /\ e.kind = "report" => Stored(d, e, o) = StoredReport(d, e, o) /\ Refers(d, e)
<1>1. e.kind = "market" => Stored(d, e, o) = StoredMarket(d, o) /\ Refers(d, e)
    BY Zenon DEF Stored, Refers
<1>2. e.kind = "note" => Stored(d, e, o) = d /\ Refers(d, e)
    BY Zenon DEF Stored, Refers, StoredNote
<1>3. e.kind = "open" => Stored(d, e, o) = StoredOpen(d, e, o) /\ Refers(d, e) = d.market
    BY Zenon DEF Stored, Refers
<1>4. e.kind = "close" =>
        /\ Stored(d, e, o) = StoredClose(d, e, o)
        /\ Refers(d, e) = (d.trade[e.trade] # "none" /\ d.result[e.trade] = "none")
    BY Zenon DEF Stored, Refers
<1>5. e.kind = "report" => Stored(d, e, o) = StoredReport(d, e, o) /\ Refers(d, e)
    BY Zenon DEF Stored, Refers
<1> QED BY <1>1, <1>2, <1>3, <1>4, <1>5

LEMMA ReportStored ==
    ASSUME NEW d \in DbRecords, NEW e, e.ready \in BOOLEAN, NEW o,
           o.wrote \in {"none", "half", "all"}
    PROVE  /\ StoredReport(d, e, o) \in DbRecords
           /\ StoredReport(d, e, o).market = d.market
           /\ StoredReport(d, e, o).trade = d.trade
           /\ StoredReport(d, e, o).result = d.result
           /\ StoredReport(d, e, o).balance = d.balance
<1>1. CASE o.wrote = "none"
    <2>1. StoredReport(d, e, o) = d
        BY <1>1, Zenon DEF StoredReport
    <2> QED BY <2>1
<1>2. CASE o.wrote = "half"
    <2>1. StoredReport(d, e, o) = [d EXCEPT !.ready = e.ready]
        BY <1>2, Zenon DEF StoredReport
    <2> QED BY <2>1 DEF DbRecords
<1>3. CASE o.wrote = "all"
    <2>1. StoredReport(d, e, o) = [d EXCEPT !.ready = e.ready, !.fresh = TRUE]
        BY <1>3, Zenon DEF StoredReport
    <2> QED BY <2>1 DEF DbRecords
<1> QED BY <1>1, <1>2, <1>3

\* How a database n differs from the database d it came from.
StoresNothing(d, n) ==
    n.market = d.market /\ n.trade = d.trade /\ n.result = d.result /\ n.balance = d.balance
StoresMarket(d, n) ==
    n.market = TRUE /\ n.trade = d.trade /\ n.result = d.result /\ n.balance = d.balance
StoresOpen(d, n, t) ==
    /\ n.market = d.market /\ n.result = d.result /\ n.balance = d.balance
    /\ n.trade[t] = "open" /\ \A u \in Trades : u # t => n.trade[u] = d.trade[u]
StoresClose(d, n, t, w) ==
    /\ d.trade[t] # "none" /\ d.result[t] = "none"
    /\ n.market = d.market /\ n.balance = d.balance \cup {<< t, w >>}
    /\ n.trade[t] = "closed" /\ n.result[t] = w
    /\ \A u \in Trades : u # t => n.trade[u] = d.trade[u] /\ n.result[u] = d.result[u]

\* An event that is stored in full does what it says to the database; one that is
\* not leaves a database all the same.
LEMMA StoredDb ==
    ASSUME NEW d \in DbRecords, NEW e \in Events, NEW o \in EventOutcomes(e)
    PROVE  /\ Stored(d, e, o) \in DbRecords
           /\ ~Fails(d, e, o) =>
                /\ o.wrote = "all" /\ ~o.terminal
                /\ e.kind = "market" => StoresMarket(d, Stored(d, e, o))
                /\ e.kind = "open" => StoresOpen(d, Stored(d, e, o), e.trade)
                /\ e.kind = "close" => StoresClose(d, Stored(d, e, o), e.trade, e.result)
                /\ e.kind \in {"note", "report"} => StoresNothing(d, Stored(d, e, o))
<1>1. /\ o.wrote \in {"none", "half", "all"} /\ o.terminal \in BOOLEAN
      /\ o.wrote = "all" => ~o.terminal
    BY OutcomeTypes
<1>2. ~Fails(d, e, o) => o.wrote = "all" /\ Refers(d, e)
    BY DEF Fails
<1>3. CASE e.kind = "market"
    <2>1. Stored(d, e, o) = IF o.wrote = "all" THEN [d EXCEPT !.market = TRUE] ELSE d
        BY <1>3, StoredByKind DEF StoredMarket
    <2> QED BY <1>1, <1>2, <1>3, <2>1 DEF DbRecords, StoresMarket
<1>4. CASE e.kind = "note"
    <2>1. Stored(d, e, o) = d
        BY <1>4, StoredByKind
    <2> QED BY <1>1, <1>2, <1>4, <2>1 DEF StoresNothing
<1>5. CASE e.kind = "open"
    <2>1. e.trade \in Trades
        BY <1>5, EventKinds
    <2>2. Stored(d, e, o) = IF o.wrote = "all" /\ Refers(d, e)
                            THEN [d EXCEPT !.trade[e.trade] = "open"] ELSE d
        BY <1>5, StoredByKind DEF StoredOpen
    <2>3. [d EXCEPT !.trade[e.trade] = "open"] \in DbRecords
        BY <2>1 DEF DbRecords, Status
    <2>4. StoresOpen(d, [d EXCEPT !.trade[e.trade] = "open"], e.trade)
        BY <2>1 DEF DbRecords, StoresOpen
    <2> QED BY <1>1, <1>2, <1>5, <2>2, <2>3, <2>4
<1>6. CASE e.kind = "close"
    <2>1. e.trade \in Trades /\ e.result \in Whose
        BY <1>6, EventKinds
    <2>2. Refers(d, e) = (d.trade[e.trade] # "none" /\ d.result[e.trade] = "none")
        BY <1>6, StoredByKind, Zenon
    <2>3. Stored(d, e, o) = StoredClose(d, e, o)
        BY <1>6, Zenon DEF Stored
    <2>4. CASE o.wrote = "none" \/ ~Refers(d, e)
        <3>1. Stored(d, e, o) = d
            BY <2>3, <2>4, Zenon DEF StoredClose
        <3> QED BY <1>1, <1>2, <1>6, <2>4, <3>1
    <2>5. CASE o.wrote # "none" /\ Refers(d, e)
        <3> DEFINE more == IF o.wrote = "all" THEN {<< e.trade, e.result >>} ELSE {}
        <3>1. /\ more \subseteq Trades \X Whose
              /\ o.wrote = "all" => more = {<< e.trade, e.result >>}
            BY <2>1
        <3>2. Stored(d, e, o) = [d EXCEPT !.trade[e.trade] = "closed",
                                          !.result[e.trade] = e.result,
                                          !.balance = @ \cup more]
            BY <2>3, <2>5 DEF StoredClose
        <3> HIDE DEF more
        <3> DEFINE n == Stored(d, e, o)
        <3>3. /\ n.market = d.market /\ n.ready = d.ready /\ n.fresh = d.fresh
              /\ n.trade = [d.trade EXCEPT ![e.trade] = "closed"]
              /\ n.result = [d.result EXCEPT ![e.trade] = e.result]
              /\ n.balance = d.balance \cup more
            BY <3>2 DEF DbRecords
        <3>4. n \in DbRecords
            <4>1. [d.trade EXCEPT ![e.trade] = "closed"] \in [Trades -> Status]
                BY <2>1 DEF DbRecords, Status
            <4>2. d.balance \cup more \in SUBSET (Trades \X Whose)
                BY <3>1 DEF DbRecords
            <4>3. [d.result EXCEPT ![e.trade] = e.result]
                    \in [Trades -> {"none", "before"} \cup Whose]
                BY <2>1 DEF DbRecords
            <4> QED BY <3>2, <4>1, <4>2, <4>3 DEF DbRecords
        <3>5. o.wrote = "all" => StoresClose(d, n, e.trade, e.result)
            <4> HIDE DEF n
            <4>1. d.trade[e.trade] # "none" /\ d.result[e.trade] = "none"
                BY <2>2, <2>5, Zenon
            <4>2. d.trade \in [Trades -> Status]
                  /\ d.result \in [Trades -> {"none", "before"} \cup Whose]
                BY DEF DbRecords
            <4> QED BY <2>1, <3>1, <3>3, <4>1, <4>2 DEF StoresClose
        <3> QED BY <1>1, <1>2, <1>6, <3>4, <3>5
    <2> QED BY <2>4, <2>5
<1>7. CASE e.kind = "report"
    <2>1. Stored(d, e, o) = StoredReport(d, e, o) /\ e.ready \in BOOLEAN
        BY <1>7, StoredByKind, EventKinds
    <2> QED BY <1>1, <1>2, <1>7, <2>1, ReportStored DEF StoresNothing
<1> QED BY <1>3, <1>4, <1>5, <1>6, <1>7, EventKinds

\* Storing the first pending event in full keeps the ledger.
LEMMA StoredKeepsLedger ==
    ASSUME TypeOK, EvidenceInv, Backlog # << >>, NEW e \in Events, e = Head(Backlog),
           evidence.counted = {}, evidence.phase # "unopened",
           NEW o \in EventOutcomes(e), ~Fails(db, e, o),
           db' = Stored(db, e, o), Backlog' = Tail(Backlog),
           told' = told, trades' = trades
    PROVE  LedgerKept'
<1>1. /\ OnceOnly /\ (told => db.market \/ Pending(Market)) /\ (Pending(Market) => told)
      /\ \A t \in Trades : Kept(t)
    BY LedgerNow
<1>2. db \in DbRecords /\ trades \in TradeRecords
    BY EvidenceNow DEF LedgerTypeOK, DbRecords, TradeRecords
<1>3. /\ Once(Tail(Backlog)) /\ In(Backlog, e)
      /\ \A x : In(Tail(Backlog), x) => In(Backlog, x)
      /\ \A x : In(Backlog, x) /\ x # e => In(Tail(Backlog), x)
      /\ e.kind \notin {"note", "report"} => ~In(Tail(Backlog), e)
    BY <1>1, EvidenceNow, PendingIsIn, InTail
<1>4. /\ OnceOnly' /\ Pending(e)
      /\ \A x : x # e => (Pending(x)' <=> Pending(x))
      /\ e.kind \notin {"note", "report"} => ~Pending(e)'
    <2>1. \A x : Pending(x)' <=> In(Tail(Backlog), x)
        BY PendingIsInNext
    <2>2. OnceOnly' <=> Once(Tail(Backlog))
        BY PendingIsInNext
    <2>3. \A x : Pending(x) <=> In(Backlog, x)
        BY PendingIsIn
    <2> QED BY <1>3, <2>1, <2>2, <2>3
<1>5. /\ e.kind = "market" => StoresMarket(db, db')
      /\ e.kind = "open" => StoresOpen(db, db', e.trade)
      /\ e.kind = "close" => StoresClose(db, db', e.trade, e.result)
      /\ e.kind \in {"note", "report"} => StoresNothing(db, db')
    BY <1>2, StoredDb
<1> SUFFICES ASSUME TRUE
             PROVE  /\ told' => db'.market \/ Pending(Market)'
                    /\ Pending(Market)' => told'
                    /\ \A t \in Trades : Kept(t)'
    BY <1>4, LedgerNext
<1>7. CASE e.kind \in {"note", "report"}
    <2>1. e # Market /\ \A t \in Trades : e # Opened(t) /\ \A w \in Whose : e # Closed(t, w)
        BY <1>7, EventsDiffer
    <2>2. Pending(Market)' <=> Pending(Market)
        BY <1>4, <2>1
    <2>3. ASSUME NEW t \in Trades PROVE Kept(t)'
        <3>1. SamePending(t)
            BY <1>4, <2>1 DEF SamePending
        <3> QED BY <1>1, <1>5, <1>7, <3>1, SameKept DEF StoresNothing
    <2> QED BY <1>1, <1>5, <1>7, <2>2, <2>3 DEF StoresNothing
<1>8. CASE e.kind = "market"
    <2>0. e = Market
        BY <1>8, EventKinds
    <2>1. /\ ~Pending(Market)' /\ Pending(Market)
          /\ db'.market = TRUE /\ db'.trade = db.trade /\ db'.result = db.result
          /\ db'.balance = db.balance
        BY <1>4, <1>5, <1>8, <2>0 DEF StoresMarket
    <2>2. ASSUME NEW t \in Trades PROVE Kept(t)'
        <3>1. SamePending(t)
            BY <1>4, <2>0, EventsDiffer DEF SamePending
        <3> QED BY <1>1, <2>1, <3>1, SameKept
    <2> QED BY <1>1, <2>1, <2>2
<1>9. CASE e.kind = "open"
    <2>1. PICK t \in Trades : e = Opened(t) /\ e.trade = t
        BY <1>9, EventKinds
    <2>2. /\ db'.market = db.market /\ db'.result = db.result /\ db'.balance = db.balance
          /\ db'.trade[t] = "open"
          /\ \A u \in Trades : u # t => db'.trade[u] = db.trade[u]
        BY <1>5, <1>9, <2>1 DEF StoresOpen
    <2>3. Pending(Market)' <=> Pending(Market)
        BY <1>4, <2>1, EventsDiffer
    <2>4. ASSUME NEW u \in Trades, u # t PROVE Kept(u)'
        <3>1. SamePending(u)
            BY <1>4, <2>1, <2>4, EventsDiffer DEF SamePending
        <3> QED BY <1>1, <2>2, <2>4, <3>1, SameKept
    <2>5. Kept(t)'
        <3>1. Pending(Opened(t)) /\ ~Pending(Opened(t))'
            BY <1>4, <1>9, <2>1
        <3>2. /\ Pending(Closed(t, "own"))' <=> Pending(Closed(t, "own"))
              /\ Pending(Closed(t, "earlier"))' <=> Pending(Closed(t, "earlier"))
            BY <1>4, <2>1, EventsDiffer DEF Whose
        <3>3. IdKept(t) /\ trades.own[t] # "none" /\ ~trades.live
            BY <1>1, <3>1 DEF Kept, IdKept
        <3>4. IdKept(t)'
            BY <2>2, <3>1, <3>2, <3>3 DEF IdKept
        <3>5. ASSUME t \notin trades'.dropped PROVE TradeKept(t)'
            <4>1. TradeKept(t)
                BY <1>1, <3>5 DEF Kept
            <4>2. trades.own[t] \in {"open", "closed"}
                BY <1>2, <3>3 DEF TradeRecords, Status
            <4>3. (trades.own[t] = "closed" /\ trades.earlier[t] \in {"none", "settled"})
                    => Pending(Closed(t, "own"))
                <5> SUFFICES ASSUME trades.own[t] = "closed",
                                    trades.earlier[t] \in {"none", "settled"},
                                    ~Pending(Closed(t, "own"))
                             PROVE  FALSE
                    OBVIOUS
                <5>1. db.result[t] = "own"
                    BY <4>1 DEF TradeKept
                <5> QED BY <3>1, <3>3, <5>1 DEF IdKept
            <4>4. trades.own[t] = "open" => ~Pending(Closed(t, "own"))
                BY <3>3 DEF IdKept
            <4> QED BY <2>2, <3>2, <3>3, <4>1, <4>2, <4>3, <4>4 DEF TradeKept
        <3> QED BY <3>4, <3>5 DEF Kept
    <2> QED BY <1>1, <2>2, <2>3, <2>4, <2>5
<1>10. CASE e.kind = "close"
    <2>1. PICK t \in Trades, w \in Whose : e = Closed(t, w) /\ e.trade = t /\ e.result = w
        BY <1>10, EventKinds
    <2>2. /\ db.trade[t] # "none" /\ db.result[t] = "none"
          /\ db'.market = db.market /\ db'.balance = db.balance \cup {<< t, w >>}
          /\ db'.trade[t] = "closed" /\ db'.result[t] = w
          /\ \A u \in Trades : u # t => db'.trade[u] = db.trade[u] /\ db'.result[u] = db.result[u]
        BY <1>5, <1>10, <2>1 DEF StoresClose
    <2>3. Pending(Market)' <=> Pending(Market)
        BY <1>4, <2>1, EventsDiffer
    <2>4. ASSUME NEW u \in Trades, u # t PROVE Kept(u)'
        <3>1. SamePending(u)
            BY <1>4, <2>1, <2>4, EventsDiffer DEF SamePending
        <3> QED BY <1>1, <2>2, <2>4, <3>1, SameKept
    <2>5. Kept(t)'
        <3>1. Pending(Closed(t, w)) /\ ~Pending(Closed(t, w))'
            BY <1>4, <1>10, <2>1
        <3>2. /\ Pending(Opened(t))' <=> Pending(Opened(t))
              /\ \A x \in Whose : x # w => (Pending(Closed(t, x))' <=> Pending(Closed(t, x)))
            BY <1>4, <2>1, EventsDiffer
        <3>3. IdKept(t) /\ trades.earlier[t] # "settled"
            BY <1>1, <2>2 DEF Kept, IdKept
        <3>4. CASE w = "own"
            <4>1. /\ Pending(Closed(t, "earlier"))' <=> Pending(Closed(t, "earlier"))
                  /\ trades.own[t] = "closed" /\ trades'.own[t] = "closed"
                BY <3>1, <3>2, <3>3, <3>4 DEF Whose, IdKept
            <4>2. IdKept(t)'
                BY <2>2, <3>1, <3>2, <3>3, <3>4, <4>1 DEF IdKept
            <4>3. ASSUME t \notin trades'.dropped PROVE TradeKept(t)'
                <5>1. TradeKept(t)
                    BY <1>1, <4>3 DEF Kept
                <5>2. << t, "own" >> \in db'.balance
                    BY <2>2, <3>4
                <5>3. trades.earlier[t] = "closed" => Pending(Closed(t, "earlier"))
                    BY <2>2, <5>1 DEF TradeKept
                <5> QED BY <2>2, <3>1, <3>2, <3>4, <4>1, <5>1, <5>2, <5>3 DEF TradeKept
            <4> QED BY <4>2, <4>3 DEF Kept
        <3>5. CASE w = "earlier"
            <4>1. /\ Pending(Closed(t, "own"))' <=> Pending(Closed(t, "own"))
                  /\ trades.earlier[t] = "closed" /\ trades'.earlier[t] = "closed"
                BY <3>1, <3>2, <3>3, <3>5 DEF Whose, IdKept
            <4>2. IdKept(t)'
                BY <2>2, <3>1, <3>2, <3>3, <3>5, <4>1 DEF IdKept
            <4>3. ASSUME t \notin trades'.dropped PROVE TradeKept(t)'
                <5>1. TradeKept(t)
                    BY <1>1, <4>3 DEF Kept
                <5>2. << t, "earlier" >> \in db'.balance
                    BY <2>2, <3>5
                <5>3. trades.own[t] = "closed" => Pending(Closed(t, "own"))
                    BY <2>2, <5>1 DEF TradeKept
                <5>4. RowOf("closed") = "closed"
                    BY DEF RowOf
                <5> QED BY <2>2, <3>1, <3>2, <3>5, <4>1, <5>2, <5>3, <5>4 DEF TradeKept
            <4> QED BY <4>2, <4>3 DEF Kept
        <3> QED BY <3>4, <3>5 DEF Whose
    <2> QED BY <1>1, <2>2, <2>3, <2>4, <2>5
<1> QED BY <1>7, <1>8, <1>9, <1>10, EventKinds

\* The events that a thread is draining, or begins to drain: w is the writer with the
\* batch it drains, before its first event.
Draining(w) ==
    /\ w \in EvidenceRecords /\ w.batch # << >> /\ w.phase \in {"flushing", "stopping"}
    /\ Len(w.batch) <= BatchSize /\ Len(w.queue) <= EvidenceCap
    /\ w.batch \o w.queue = Backlog /\ w.counted = evidence.counted
    /\ evidence.phase \in {"running", "flushing", "stopping"}
    /\ \A i \in DOMAIN w.queue :
         w.queue[i] = ShutdownEvent => i = Len(w.queue) /\ EvidenceHungUp
    /\ (w.phase = "stopping" /\ w.counted = {})
         => EvidenceHungUp /\ w.queue \in {<< >>, << ShutdownEvent >>}

\* One event of a batch.
LEMMA FlushKeeps ==
    ASSUME TypeOK, EvidenceInv, NEW w, Draining(w), FlushEvent(w),
           UNCHANGED << stage, told, trades >>
    PROVE  EvidenceTypeOK' /\ LedgerTypeOK' /\ EvidenceInv'
<1> DEFINE e == Head(w.batch)
<1>1. /\ w \in EvidenceRecords /\ w.batch \in Seq(Events) /\ w.batch # << >>
      /\ w.queue \in Seq(Messages) /\ w.phase \in Phases /\ w.counted \in SUBSET Counters
      /\ w.batch \in Seq(Messages) /\ Tail(w.batch) \in Seq(Events)
      /\ Len(Tail(w.batch)) < BatchSize /\ e \in Events /\ BatchSize \in Nat \ {0}
    <2>1. /\ w \in EvidenceRecords /\ w.batch \in Seq(Events) /\ w.batch # << >>
          /\ w.queue \in Seq(Messages) /\ w.phase \in Phases /\ w.counted \in SUBSET Counters
        BY DEF Draining, EvidenceRecords
    <2>2. Tail(w.batch) \in Seq(Events) /\ e \in Events /\ w.batch \in Seq(Messages)
        BY <2>1 DEF Messages
    <2>3. Len(Tail(w.batch)) = Len(w.batch) - 1 /\ Len(w.batch) \in Nat
        BY <2>1
    <2>4. BatchSize \in Nat \ {0} /\ Len(w.batch) <= BatchSize
        BY CaptureAssumption DEF Draining
    <2> QED BY <2>1, <2>2, <2>3, <2>4
<1>2. PICK o \in EventOutcomes(e) :
        LET rest == IF o.terminal THEN << >> ELSE Tail(w.batch)
        IN  /\ db' = Stored(db, e, o)
            /\ evidence' =
                 [w EXCEPT !.batch = rest,
                           !.counted = IF Fails(db, e, o) THEN @ \cup {"dropped"} ELSE @,
                           !.phase = IF rest # << >> THEN @
                                     ELSE IF o.terminal \/ @ = "stopping" THEN "closing"
                                     ELSE "running"]
    BY DEF FlushEvent
<1> DEFINE rest == IF o.terminal THEN << >> ELSE Tail(w.batch)
           next == IF rest # << >> THEN w.phase
                   ELSE IF o.terminal \/ w.phase = "stopping" THEN "closing" ELSE "running"
           counters == IF Fails(db, e, o) THEN w.counted \cup {"dropped"} ELSE w.counted
<1>3. /\ rest \in Seq(Events) /\ Len(rest) < BatchSize
      /\ ~o.terminal => rest = Tail(w.batch)
    <2>1. << >> \in Seq(Events) /\ Len(<< >>) = 0
        OBVIOUS
    <2> QED BY <1>1, <2>1
<1>4. /\ next \in Phases /\ (next \in {"flushing", "stopping"} => rest # << >>)
      /\ next \in {"stopping", "closing"} => o.terminal \/ w.phase = "stopping"
      /\ next = "closing" => rest = << >>
      /\ next \in {"running", "flushing", "stopping", "closing"}
    BY <1>1 DEF Phases, Draining
<1>5. /\ counters \in SUBSET Counters
      /\ counters = {} => ~Fails(db, e, o) /\ w.counted = {}
      /\ w.counted # {} => counters # {}
    BY <1>1 DEF Counters
<1>6. evidence' = [w EXCEPT !.batch = rest, !.counted = counters, !.phase = next]
    BY <1>2, Zenon
<1> HIDE DEF rest, next, counters, e
<1>7. /\ evidence'.queue = w.queue /\ evidence'.batch = rest /\ evidence'.phase = next
      /\ evidence'.counted = counters /\ evidence' \in EvidenceRecords
    BY <1>1, <1>3, <1>4, <1>5, <1>6 DEF EvidenceRecords
<1>8. EvidenceTypeOK'
    <2>1. Len(w.queue) <= EvidenceCap
        BY DEF Draining
    <2> QED BY <1>3, <1>4, <1>7, <2>1 DEF EvidenceTypeOK, EvidenceRecords, Messages
<1>9. db \in DbRecords /\ LedgerTypeOK
    BY EvidenceNow DEF LedgerTypeOK, DbRecords
<1>10. db' \in DbRecords
    BY <1>1, <1>2, <1>9, StoredDb
<1>11. LedgerTypeOK'
    BY <1>9, <1>10 DEF LedgerTypeOK, DbRecords
<1>12. ~Fails(db, e, o) => ~o.terminal
    BY <1>1, <1>9, StoredDb
<1>13. EvidenceStopsLast'
    <2>1. \A i \in DOMAIN w.queue :
            w.queue[i] = ShutdownEvent => i = Len(w.queue) /\ EvidenceHungUp
        BY DEF Draining
    <2>2. /\ FeedHungUp => evidence.counted # {}
          /\ stage # "exit"
        BY EvidenceNow DEF Draining, EvidenceStopsLast, Joined
    <2>3. evidence.counted # {} => counters # {}
        BY <1>5 DEF Draining
    <2> QED BY <1>7, <2>1, <2>2, <2>3 DEF EvidenceStopsLast, EvidenceHungUp, FeedHungUp
<1>14. EndsClean'
    <2> SUFFICES ASSUME next \in {"stopping", "closing", "ended"}, counters = {}
                 PROVE  /\ EvidenceHungUp' /\ w.queue \in {<< >>, << ShutdownEvent >>}
                        /\ next # "stopping" => rest = << >>
        BY <1>7 DEF EndsClean
    <2>1. w.counted = {} /\ ~o.terminal
        BY <1>5, <1>12
    <2>2. w.phase = "stopping"
        BY <1>4, <2>1
    <2> QED BY <1>4, <2>1, <2>2 DEF Draining, EvidenceHungUp
<1>15. LedgerKept'
    <2>1. CASE counters # {}
        BY <1>7, <2>1 DEF LedgerKept
    <2>2. CASE counters = {}
        <3>1. /\ ~Fails(db, e, o) /\ evidence.counted = {} /\ evidence.phase # "unopened"
              /\ rest = Tail(w.batch) /\ db' = Stored(db, e, o)
            BY <1>2, <1>3, <1>5, <1>12, <2>2 DEF Draining
        <3>2. /\ Backlog # << >> /\ Head(Backlog) = Head(w.batch)
              /\ Tail(w.batch) \o w.queue = Tail(Backlog)
            BY <1>1, TailSame DEF Draining
        <3>3. Backlog' = Tail(Backlog)
            BY <1>7, <3>1, <3>2 DEF Backlog
        <3>4. e = Head(Backlog)
            BY <3>2 DEF e
        <3> QED BY <1>1, <3>1, <3>2, <3>3, <3>4, StoredKeepsLedger
    <2> QED BY <2>1, <2>2
<1> QED BY <1>8, <1>11, <1>13, <1>14, <1>15 DEF EvidenceInv

LEMMA SameBacklog ==
    ASSUME TypeOK, EvidenceInv, Backlog' = Backlog,
           (evidence'.counted = {} /\ evidence'.phase # "unopened")
             => evidence.counted = {} /\ evidence.phase # "unopened",
           told' = told, trades' = trades,
           db'.market = db.market, db'.trade = db.trade, db'.result = db.result,
           db'.balance = db.balance
    PROVE  LedgerKept'
<1>1. /\ \A x : Pending(x)' <=> Pending(x)
      /\ OnceOnly' <=> OnceOnly
    BY PendingIsIn, PendingIsInNext
<1>2. \A t \in Trades : SamePending(t)
    BY <1>1 DEF SamePending
<1> QED BY <1>1, <1>2, SameLedger

\* What the queue of a running thread starts with, and what is left of it.
LEMMA QueueHead ==
    ASSUME TypeOK, EvidenceInv, evidence.queue # << >>
    PROVE  /\ Tail(evidence.queue) \in Seq(Messages)
           /\ Len(Tail(evidence.queue)) = Len(evidence.queue) - 1
           /\ \A i \in DOMAIN Tail(evidence.queue) :
                Tail(evidence.queue)[i] = ShutdownEvent
                  => i = Len(Tail(evidence.queue)) /\ EvidenceHungUp
           /\ Head(evidence.queue) # ShutdownEvent => Head(evidence.queue) \in Events
           /\ Head(evidence.queue) = ShutdownEvent
                => evidence.queue = << ShutdownEvent >> /\ EvidenceHungUp
<1> DEFINE q == evidence.queue
<1>1. /\ q \in Seq(Messages) /\ Len(q) \in Nat /\ q # << >>
      /\ \A i \in 1..Len(q) : q[i] = ShutdownEvent => i = Len(q) /\ EvidenceHungUp
    BY EvidenceNow DEF EvidenceStopsLast
<1> HIDE DEF q
<1>2. /\ Tail(q) \in Seq(Messages) /\ Len(Tail(q)) = Len(q) - 1 /\ Len(q) > 0
      /\ DOMAIN Tail(q) = 1..(Len(q) - 1) /\ Head(q) = q[1] /\ Head(q) \in Messages
      /\ \A i \in 1..(Len(q) - 1) : Tail(q)[i] = q[i + 1]
    BY <1>1
<1>3. \A i \in DOMAIN Tail(q) :
        Tail(q)[i] = ShutdownEvent => i = Len(Tail(q)) /\ EvidenceHungUp
    <2> SUFFICES ASSUME NEW i \in 1..(Len(q) - 1), Tail(q)[i] = ShutdownEvent
                 PROVE  i = Len(q) - 1 /\ EvidenceHungUp
        BY <1>2
    <2>1. Tail(q)[i] = q[i + 1]
        BY <1>2
    <2>2. q[i + 1] = ShutdownEvent
        BY <2>1
    <2>3. i + 1 \in 1..Len(q)
        <3>1. \A n \in Nat : \A k \in 1..(n - 1) : k + 1 \in 1..n
            OBVIOUS
        <3> QED BY <1>1, <3>1
    <2>4. i + 1 = Len(q) /\ EvidenceHungUp
        BY <1>1, <2>2, <2>3
    <2>5. \A k, n \in Int : k + 1 = n => k = n - 1
        OBVIOUS
    <2> QED BY <1>1, <2>4, <2>5
<1>4. Head(q) # ShutdownEvent => Head(q) \in Events
    BY <1>2 DEF Messages
<1>5. ASSUME Head(q) = ShutdownEvent PROVE q = << ShutdownEvent >> /\ EvidenceHungUp
    <2>0. \A n \in Nat : n > 0 => 1 \in 1..n
        OBVIOUS
    <2>1. 1 \in 1..Len(q) /\ q[1] = ShutdownEvent
        BY <1>1, <1>2, <1>5, <2>0
    <2>2. Len(q) = 1 /\ EvidenceHungUp
        BY <1>1, <2>1
    <2> QED BY <1>1, <2>1, <2>2
<1> QED BY <1>2, <1>3, <1>4, <1>5 DEF q

LEMMA EvidenceTakesKeeps ==
    ASSUME TypeOK, EvidenceInv, EvidenceTakes
    PROVE  EvidenceTypeOK' /\ LedgerTypeOK' /\ EvidenceInv'
<1> DEFINE h == Head(evidence.queue)
           w == [evidence EXCEPT !.queue = Tail(@), !.batch = Append(@, h)]
<1>1. /\ evidence.phase = "running" /\ evidence.queue # << >> /\ h # ShutdownEvent
      /\ UNCHANGED << stage, told, trades >>
      /\ IF Len(w.batch) >= BatchSize THEN FlushEvent([w EXCEPT !.phase = "flushing"])
         ELSE evidence' = w /\ UNCHANGED db
    BY DEF EvidenceTakes
<1>2. /\ evidence \in EvidenceRecords /\ EvidenceTypeOK /\ LedgerTypeOK
      /\ EvidenceStopsLast /\ LedgerKept /\ EndsClean
      /\ evidence.batch \in Seq(Messages) /\ evidence.queue \in Seq(Messages)
      /\ evidence.batch \in Seq(Events)
      /\ Len(evidence.queue) \in Nat /\ Len(evidence.batch) \in Nat
    BY EvidenceNow DEF EvidenceRecords
<1>3. /\ Tail(evidence.queue) \in Seq(Messages) /\ h \in Events
      /\ Len(Tail(evidence.queue)) = Len(evidence.queue) - 1
      /\ \A i \in DOMAIN Tail(evidence.queue) :
           Tail(evidence.queue)[i] = ShutdownEvent
             => i = Len(Tail(evidence.queue)) /\ EvidenceHungUp
    BY <1>1, QueueHead
<1>4. /\ Append(evidence.batch, h) \in Seq(Events) /\ Append(evidence.batch, h) # << >>
      /\ Len(Append(evidence.batch, h)) = Len(evidence.batch) + 1
      /\ Append(evidence.batch, h) \o Tail(evidence.queue) = Backlog
    <2>1. Append(evidence.batch, h) \o Tail(evidence.queue) = Backlog
        BY <1>1, <1>2, TakeSame DEF Backlog
    <2>2. \A b \in Seq(Events), e \in Events :
            /\ Append(b, e) \in Seq(Events) /\ Len(b) \in Nat
            /\ Len(Append(b, e)) = Len(b) + 1
        OBVIOUS
    <2>3. Len(<< >>) = 0 /\ \A n \in Nat : n + 1 # 0
        OBVIOUS
    <2> QED BY <1>2, <1>3, <2>1, <2>2, <2>3
<1> HIDE DEF h
<1>5. /\ w.queue = Tail(evidence.queue) /\ w.batch = Append(evidence.batch, h)
      /\ w.phase = "running" /\ w.counted = evidence.counted /\ w \in EvidenceRecords
    BY <1>1, <1>2, <1>3, <1>4 DEF EvidenceRecords
<1>6. /\ Len(w.batch) <= BatchSize /\ Len(w.queue) <= EvidenceCap
      /\ BatchSize \in Nat /\ Len(w.batch) \in Nat
    BY <1>2, <1>3, <1>4, <1>5, CaptureAssumption DEF EvidenceTypeOK
<1> HIDE DEF w
<1>7. CASE Len(w.batch) >= BatchSize
    <2> DEFINE v == [w EXCEPT !.phase = "flushing"]
    <2>1. /\ v.queue = w.queue /\ v.batch = w.batch /\ v.phase = "flushing"
          /\ v.counted = w.counted /\ v \in EvidenceRecords
        BY <1>5 DEF EvidenceRecords, Phases
    <2>2. FlushEvent(v)
        BY <1>1, <1>7
    <2> HIDE DEF v
    <2>3. Draining(v)
        BY <1>1, <1>3, <1>4, <1>5, <1>6, <2>1 DEF Draining
    <2> QED BY <1>1, <2>2, <2>3, FlushKeeps
<1>8. CASE ~(Len(w.batch) >= BatchSize)
    <2>1. evidence' = w /\ db' = db
        BY <1>1, <1>8
    <2>2. EvidenceTypeOK'
        <3>1. Len(w.batch) < BatchSize
            BY <1>6, <1>8
        <3> QED BY <1>5, <1>6, <2>1, <3>1 DEF EvidenceTypeOK, EvidenceRecords, Messages
    <2>3. LedgerTypeOK'
        BY <1>1, <1>2, <2>1 DEF LedgerTypeOK
    <2>4. EvidenceStopsLast'
        BY <1>1, <1>2, <1>3, <1>5, <2>1
        DEF EvidenceStopsLast, FeedHungUp, EvidenceHungUp, Joined
    <2>5. EndsClean'
        BY <1>5, <2>1 DEF EndsClean
    <2>6. LedgerKept'
        <3>1. Backlog' = Backlog
            BY <1>4, <1>5, <2>1 DEF Backlog
        <3>2. /\ evidence'.counted = evidence.counted /\ evidence'.phase = evidence.phase
            BY <1>1, <1>5, <2>1
        <3> QED BY <1>1, <2>1, <3>1, <3>2, SameBacklog
    <2> QED BY <2>2, <2>3, <2>4, <2>5, <2>6 DEF EvidenceInv
<1> QED BY <1>7, <1>8

\* A thread that begins to drain its batch leaves the channel as it is.
LEMMA DrainsFrom ==
    ASSUME TypeOK, EvidenceInv, evidence.batch # << >>,
           NEW p \in {"flushing", "stopping"},
           evidence.phase \in {"running", p},
           (p = "stopping" /\ evidence.counted = {})
             => EvidenceHungUp /\ evidence.queue \in {<< >>, << ShutdownEvent >>}
    PROVE  Draining([evidence EXCEPT !.phase = p])
<1> DEFINE w == [evidence EXCEPT !.phase = p]
<1>1. /\ evidence \in EvidenceRecords /\ EvidenceTypeOK /\ EvidenceStopsLast
      /\ Len(evidence.batch) \in Nat
    BY EvidenceNow
<1>2. /\ w \in EvidenceRecords /\ w.queue = evidence.queue /\ w.batch = evidence.batch
      /\ w.counted = evidence.counted /\ w.phase = p
    BY <1>1 DEF EvidenceRecords, Phases
<1>3. Len(w.batch) <= BatchSize /\ Len(w.queue) <= EvidenceCap
    BY <1>1, <1>2, CaptureAssumption DEF EvidenceTypeOK
<1>4. w.batch \o w.queue = Backlog
    BY <1>2 DEF Backlog
<1> HIDE DEF w
<1>5. \A i \in DOMAIN w.queue :
        w.queue[i] = ShutdownEvent => i = Len(w.queue) /\ EvidenceHungUp
    BY <1>1, <1>2 DEF EvidenceStopsLast
<1>6. Draining(w)
    BY <1>2, <1>3, <1>4, <1>5 DEF Draining
<1> QED BY <1>6 DEF w

LEMMA EvidenceTimesOutKeeps ==
    ASSUME TypeOK, EvidenceInv, EvidenceTimesOut
    PROVE  EvidenceTypeOK' /\ LedgerTypeOK' /\ EvidenceInv'
<1> DEFINE w == [evidence EXCEPT !.phase = "flushing"]
<1>1. /\ evidence.phase = "running" /\ evidence.batch # << >> /\ FlushEvent(w)
      /\ UNCHANGED << stage, told, trades >>
    BY DEF EvidenceTimesOut
<1>2. Draining(w)
    BY <1>1, DrainsFrom
<1> HIDE DEF w
<1> QED BY <1>1, <1>2, FlushKeeps

LEMMA EvidenceFlushesKeeps ==
    ASSUME TypeOK, EvidenceInv, EvidenceFlushes
    PROVE  EvidenceTypeOK' /\ LedgerTypeOK' /\ EvidenceInv'
<1>1. /\ evidence.phase \in {"flushing", "stopping"} /\ FlushEvent(evidence)
      /\ UNCHANGED << stage, told, trades >>
    BY DEF EvidenceFlushes
<1>2. /\ evidence \in EvidenceRecords /\ EvidenceTypeOK /\ EvidenceStopsLast /\ EndsClean
      /\ Len(evidence.batch) \in Nat
    BY EvidenceNow
<1>3. Len(evidence.batch) <= BatchSize /\ Len(evidence.queue) <= EvidenceCap
    BY <1>2, CaptureAssumption DEF EvidenceTypeOK
<1>4. /\ evidence.batch # << >>
      /\ \A i \in DOMAIN evidence.queue :
           evidence.queue[i] = ShutdownEvent => i = Len(evidence.queue) /\ EvidenceHungUp
      /\ (evidence.phase = "stopping" /\ evidence.counted = {})
           => EvidenceHungUp /\ evidence.queue \in {<< >>, << ShutdownEvent >>}
    BY <1>1, <1>2 DEF EvidenceTypeOK, EvidenceStopsLast, EndsClean
<1>5. Draining(evidence)
    BY <1>1, <1>2, <1>3, <1>4 DEF Draining, Backlog
<1> QED BY <1>1, <1>5, FlushKeeps

LEMMA EvidenceStopsKeeps ==
    ASSUME TypeOK, EvidenceInv, EvidenceStops
    PROVE  EvidenceTypeOK' /\ LedgerTypeOK' /\ EvidenceInv'
<1> DEFINE w == [evidence EXCEPT !.phase = "stopping"]
<1>1. /\ evidence.phase = "running" /\ UNCHANGED << stage, told, trades >>
      /\ IF evidence.queue = << >> THEN EvidenceHungUp
         ELSE Head(evidence.queue) = ShutdownEvent
      /\ IF evidence.batch # << >> THEN FlushEvent(w)
         ELSE evidence' = [evidence EXCEPT !.phase = "closing"] /\ UNCHANGED db
    BY DEF EvidenceStops
<1>2. EvidenceHungUp /\ evidence.queue \in {<< >>, << ShutdownEvent >>}
    BY <1>1, QueueHead
<1>3. CASE evidence.batch # << >>
    <2>1. Draining(w)
        BY <1>1, <1>2, <1>3, DrainsFrom
    <2>2. FlushEvent(w)
        BY <1>1, <1>3
    <2> HIDE DEF w
    <2> QED BY <1>1, <2>1, <2>2, FlushKeeps
<1>4. CASE evidence.batch = << >>
    <2>1. /\ evidence \in EvidenceRecords /\ EvidenceTypeOK /\ LedgerTypeOK
          /\ EvidenceStopsLast
        BY EvidenceNow
    <2>2. evidence' = [evidence EXCEPT !.phase = "closing"] /\ db' = db
        BY <1>1, <1>4
    <2>3. /\ evidence'.queue = evidence.queue /\ evidence'.batch = evidence.batch
          /\ evidence'.counted = evidence.counted /\ evidence'.phase = "closing"
          /\ evidence' \in EvidenceRecords
        BY <2>1, <2>2 DEF EvidenceRecords, Phases
    <2>4. EvidenceTypeOK' /\ LedgerTypeOK'
        BY <1>1, <2>1, <2>2, <2>3
        DEF EvidenceTypeOK, LedgerTypeOK, EvidenceRecords, Messages
    <2>5. EvidenceStopsLast'
        BY <1>1, <2>1, <2>3 DEF EvidenceStopsLast, FeedHungUp, EvidenceHungUp, Joined
    <2>6. EndsClean'
        BY <1>1, <1>2, <1>4, <2>3 DEF EndsClean, EvidenceHungUp
    <2>7. LedgerKept'
        <3>1. Backlog' = Backlog
            BY <2>3 DEF Backlog
        <3>2. evidence.phase # "unopened"
            BY <1>1
        <3> QED BY <1>1, <2>2, <2>3, <3>1, <3>2, SameBacklog
    <2> QED BY <2>4, <2>5, <2>6, <2>7 DEF EvidenceInv
<1> QED BY <1>3, <1>4

\* The thread opens its database, or fails to and returns.
LEMMA EvidenceOpensKeeps ==
    ASSUME TypeOK, EvidenceInv, EvidenceOpens
    PROVE  EvidenceTypeOK' /\ LedgerTypeOK' /\ EvidenceInv'
<1>1. /\ evidence.phase = "opening" /\ UNCHANGED << stage, told, trades, db >>
      /\ \/ evidence' = [evidence EXCEPT !.phase = "running"]
         \/ evidence' = [evidence EXCEPT !.phase = "unopened", !.queue = << >>]
    BY DEF EvidenceOpens
<1>2. /\ evidence \in EvidenceRecords /\ EvidenceTypeOK /\ LedgerTypeOK
      /\ EvidenceStopsLast /\ EvidenceCap \in Nat
    BY EvidenceNow, CaptureAssumption
<1>3. LedgerTypeOK'
    BY <1>1, <1>2 DEF LedgerTypeOK
<1>4. CASE evidence' = [evidence EXCEPT !.phase = "running"]
    <2>1. /\ evidence'.queue = evidence.queue /\ evidence'.batch = evidence.batch
          /\ evidence'.counted = evidence.counted /\ evidence'.phase = "running"
          /\ evidence' \in EvidenceRecords
        BY <1>2, <1>4 DEF EvidenceRecords, Phases
    <2>2. EvidenceTypeOK'
        BY <1>1, <1>2, <2>1 DEF EvidenceTypeOK, EvidenceRecords, Messages
    <2>3. EvidenceStopsLast' /\ EndsClean'
        BY <1>1, <1>2, <2>1
        DEF EvidenceStopsLast, EndsClean, FeedHungUp, EvidenceHungUp, Joined
    <2>4. Backlog' = Backlog /\ evidence.phase # "unopened"
        BY <1>1, <2>1 DEF Backlog
    <2>5. LedgerKept'
        BY <1>1, <2>1, <2>4, SameBacklog
    <2> QED BY <1>3, <2>2, <2>3, <2>5 DEF EvidenceInv
<1>5. CASE evidence' = [evidence EXCEPT !.phase = "unopened", !.queue = << >>]
    <2>1. << >> \in Seq(Messages) /\ Len(<< >>) = 0 /\ DOMAIN << >> = {}
        OBVIOUS
    <2>2. /\ evidence'.queue = << >> /\ evidence'.batch = evidence.batch
          /\ evidence'.counted = evidence.counted /\ evidence'.phase = "unopened"
          /\ evidence' \in EvidenceRecords
        BY <1>2, <1>5, <2>1 DEF EvidenceRecords, Phases
    <2>3. EvidenceTypeOK'
        BY <1>1, <1>2, <2>1, <2>2 DEF EvidenceTypeOK, EvidenceRecords, Messages
    <2>4. EvidenceStopsLast'
        BY <1>1, <1>2, <2>1, <2>2
        DEF EvidenceStopsLast, FeedHungUp, EvidenceHungUp, Joined
    <2>5. EndsClean' /\ LedgerKept'
        BY <2>2 DEF EndsClean, LedgerKept
    <2> QED BY <1>3, <2>3, <2>4, <2>5 DEF EvidenceInv
<1> QED BY <1>1, <1>4, <1>5

\* A channel and a batch with nothing but the shutdown message.
LEMMA NothingPending ==
    ASSUME evidence.batch = << >>, evidence.queue \in {<< >>, << ShutdownEvent >>}
    PROVE  /\ \A x : Pending(x) => x = ShutdownEvent
           /\ Backlog = evidence.queue
<1>1. << >> \in Seq(Messages) /\ << ShutdownEvent >> \in Seq(Messages)
    BY DEF Messages
<1>2. \A s \in Seq(Messages) : << >> \o s = s
    BY ConcatEmptySeq
<1>3. Backlog = evidence.queue
    BY <1>1, <1>2 DEF Backlog
<1>4. ASSUME NEW x, Pending(x) PROVE x = ShutdownEvent
    <2>1. PICK i \in DOMAIN Backlog : Backlog[i] = x
        BY <1>4 DEF Pending
    <2>2. CASE evidence.queue = << >>
        BY <1>3, <2>1, <2>2
    <2>3. CASE evidence.queue = << ShutdownEvent >>
        BY <1>3, <2>1, <2>3
    <2> QED BY <2>2, <2>3
<1> QED BY <1>3, <1>4

\* A thread that has ended: its receiver is dropped, and nothing was left in it
\* unless a counter says so.
LEMMA EndsKeeps ==
    ASSUME TypeOK, EvidenceInv, evidence.phase \in {"closing", "ended"},
           evidence'.phase = "ended", evidence'.queue = << >>,
           evidence'.batch = evidence.batch,
           evidence'.counted = {} => evidence.counted = {},
           EvidenceHungUp => EvidenceHungUp',
           UNCHANGED << told, trades, db >>
    PROVE  EndsClean' /\ LedgerKept'
<1>1. ASSUME evidence'.counted = {}
      PROVE  /\ EvidenceHungUp /\ evidence.queue \in {<< >>, << ShutdownEvent >>}
             /\ evidence.batch = << >> /\ evidence.phase # "unopened"
    BY <1>1, EvidenceNow DEF EndsClean
<1>2. EndsClean'
    BY <1>1 DEF EndsClean
<1>3. ASSUME evidence'.counted = {}
      PROVE  /\ \A x : ~Pending(x)'
             /\ \A x : Pending(x) => x = ShutdownEvent
             /\ OnceOnly'
    <2>1. \A x : Pending(x) => x = ShutdownEvent
        BY <1>1, <1>3, NothingPending
    <2>2. << >> \o << >> = << >> /\ DOMAIN << >> = {}
        OBVIOUS
    <2>3. Backlog' = << >>
        BY <1>1, <1>3, <2>2 DEF Backlog
    <2>4. (\A x : ~In(<< >>, x)) /\ Once(<< >>)
        BY <2>2 DEF In, Once
    <2> QED BY <2>1, <2>3, <2>4, PendingIsInNext
<1>4. /\ ShutdownEvent # Market
      /\ \A t \in Trades : /\ ShutdownEvent # Opened(t)
                           /\ \A w \in Whose : ShutdownEvent # Closed(t, w)
    BY EventsDiffer, EventKinds
<1>5. evidence'.counted = {} =>
        /\ evidence.counted = {} /\ evidence.phase # "unopened"
        /\ Pending(Market)' <=> Pending(Market)
        /\ \A t \in Trades : SamePending(t)
        /\ OnceOnly => OnceOnly'
    BY <1>1, <1>3, <1>4 DEF SamePending
<1>6. LedgerKept'
    BY <1>5, SameLedger
<1> QED BY <1>2, <1>6

LEMMA EvidenceEndsKeeps ==
    ASSUME TypeOK, EvidenceInv, EvidenceEnds
    PROVE  EvidenceTypeOK' /\ LedgerTypeOK' /\ EvidenceInv'
<1>1. /\ evidence.phase = "closing" /\ UNCHANGED << stage, told, trades, db >>
      /\ evidence' = [evidence EXCEPT !.phase = "ended", !.queue = << >>]
    BY DEF EvidenceEnds
<1>2. /\ evidence \in EvidenceRecords /\ EvidenceTypeOK /\ LedgerTypeOK
      /\ EvidenceStopsLast /\ EvidenceCap \in Nat
    BY EvidenceNow, CaptureAssumption
<1>3. << >> \in Seq(Messages) /\ Len(<< >>) = 0 /\ DOMAIN << >> = {}
    OBVIOUS
<1>4. /\ evidence'.queue = << >> /\ evidence'.batch = evidence.batch
      /\ evidence'.counted = evidence.counted /\ evidence'.phase = "ended"
      /\ evidence' \in EvidenceRecords
    BY <1>1, <1>2, <1>3 DEF EvidenceRecords, Phases
<1>5. EvidenceTypeOK' /\ LedgerTypeOK'
    BY <1>1, <1>2, <1>3, <1>4 DEF EvidenceTypeOK, LedgerTypeOK, EvidenceRecords, Messages
<1>6. EvidenceStopsLast'
    BY <1>1, <1>2, <1>3, <1>4 DEF EvidenceStopsLast, FeedHungUp, EvidenceHungUp, Joined
<1>7. EndsClean' /\ LedgerKept'
    BY <1>1, <1>4, EndsKeeps DEF EvidenceHungUp
<1> QED BY <1>5, <1>6, <1>7 DEF EvidenceInv

\* The main loop returns and sends the shutdown message, if there is room for it.
LEMMA StopRuntimeKeeps ==
    ASSUME TypeOK, EvidenceInv, StopRuntime
    PROVE  EvidenceTypeOK' /\ LedgerTypeOK' /\ EvidenceInv'
<1>1. /\ stage = "running" /\ stage' = "evidence" /\ UNCHANGED << told, trades, db >>
      /\ evidence' = AskedToStop(evidence, EvidenceCap, ShutdownEvent)
    BY DEF StopRuntime
<1>2. /\ evidence \in EvidenceRecords /\ EvidenceTypeOK /\ LedgerTypeOK
      /\ EvidenceStopsLast /\ EndsClean /\ EvidenceCap \in Nat /\ ~EvidenceHungUp
      /\ EvidenceHungUp' /\ ~FeedHungUp' /\ stage' # "exit"
      /\ evidence.queue \in Seq(Messages) /\ evidence.batch \in Seq(Messages)
      /\ evidence.batch \in Seq(Events) /\ Len(evidence.queue) \in Nat
    BY <1>1, EvidenceNow, CaptureAssumption DEF EvidenceHungUp, FeedHungUp, EvidenceRecords
<1>3. LedgerTypeOK'
    BY <1>1, <1>2 DEF LedgerTypeOK
<1>4. evidence.counted = {} => evidence.phase \notin {"stopping", "closing", "ended"}
    BY <1>2 DEF EndsClean
<1>5. \A i \in DOMAIN evidence.queue : evidence.queue[i] # ShutdownEvent
    BY <1>2 DEF EvidenceStopsLast
<1>6. CASE Connected(evidence) /\ HasRoom(evidence, EvidenceCap)
    <2> DEFINE s == Append(evidence.queue, ShutdownEvent)
    <2>1. evidence' = [evidence EXCEPT !.queue = s]
        BY <1>1, <1>6 DEF AskedToStop
    <2>2. /\ s \in Seq(Messages) /\ Len(s) = Len(evidence.queue) + 1
          /\ DOMAIN s = 1..Len(s) /\ DOMAIN evidence.queue = 1..Len(evidence.queue)
          /\ \A i \in 1..Len(evidence.queue) : s[i] = evidence.queue[i]
        BY <1>2 DEF Messages
    <2> HIDE DEF s
    <2>3. /\ evidence'.queue = s /\ evidence'.batch = evidence.batch
          /\ evidence'.phase = evidence.phase /\ evidence'.counted = evidence.counted
          /\ evidence' \in EvidenceRecords
        BY <1>2, <2>1, <2>2 DEF EvidenceRecords
    <2>4. Len(s) <= EvidenceCap
        BY <1>2, <1>6, <2>2 DEF HasRoom
    <2>5. EvidenceTypeOK'
        BY <1>2, <2>3, <2>4 DEF EvidenceTypeOK, EvidenceRecords, Messages
    <2>6. EvidenceStopsLast'
        <3>1. \A n \in Nat : \A i \in 1..(n + 1) : i \in 1..n \/ i = n + 1
            OBVIOUS
        <3>2. \A i \in DOMAIN s : i \in DOMAIN evidence.queue \/ i = Len(s)
            BY <1>2, <2>2, <3>1
        <3> QED BY <1>2, <1>5, <2>2, <2>3, <3>2 DEF EvidenceStopsLast
    <2>7. EndsClean'
        BY <1>4, <2>3 DEF EndsClean
    <2>8. LedgerKept'
        <3>1. Backlog' = Append(Backlog, ShutdownEvent)
            BY <1>2, <2>3, AppendSame DEF Backlog, s, Messages
        <3>2. ~In(Backlog, ShutdownEvent)
            <4>1. \A e \in Events : e # ShutdownEvent
                BY EventKinds
            <4>2. \A i \in DOMAIN evidence.batch : evidence.batch[i] \in Events
                BY <1>2
            <4>3. ~In(evidence.batch, ShutdownEvent) /\ ~In(evidence.queue, ShutdownEvent)
                BY <1>5, <4>1, <4>2 DEF In
            <4> QED BY <1>2, <4>3, InConcat DEF Backlog
        <3>3. ShutdownEvent \in Messages
            BY DEF Messages
        <3>4. /\ \A x : In(Backlog', x) <=> In(Backlog, x) \/ x = ShutdownEvent
              /\ Once(Backlog) => Once(Backlog')
            BY <3>1, <3>2, <3>3, EvidenceNow, InAppend
        <3>5. /\ ShutdownEvent # Market
              /\ \A t \in Trades : /\ ShutdownEvent # Opened(t)
                                   /\ \A w \in Whose : ShutdownEvent # Closed(t, w)
            BY EventsDiffer, EventKinds
        <3>6. /\ \A x : Pending(x)' <=> Pending(x) \/ x = ShutdownEvent
              /\ OnceOnly => OnceOnly'
            BY <3>4, PendingIsIn, PendingIsInNext
        <3>7. (Pending(Market)' <=> Pending(Market)) /\ \A t \in Trades : SamePending(t)
            BY <3>5, <3>6 DEF SamePending
        <3> QED BY <1>1, <2>3, <3>6, <3>7, SameLedger
    <2> QED BY <1>3, <2>5, <2>6, <2>7, <2>8 DEF EvidenceInv
<1>7. CASE ~(Connected(evidence) /\ HasRoom(evidence, EvidenceCap))
    <2>1. evidence' = evidence
        BY <1>1, <1>7 DEF AskedToStop
    <2>2. EvidenceTypeOK' /\ EvidenceStopsLast' /\ EndsClean'
        BY <1>2, <1>4, <2>1 DEF EvidenceTypeOK, EvidenceStopsLast, EndsClean
    <2>3. LedgerKept'
        BY <1>1, <2>1, SameBacklog DEF Backlog
    <2> QED BY <1>3, <2>2, <2>3 DEF EvidenceInv
<1> QED BY <1>6, <1>7

\* The join of the evidence writer's thread, in time or not.
LEMMA EvidenceJoinedKeeps ==
    ASSUME TypeOK, EvidenceInv, EvidenceJoined
    PROVE  EvidenceTypeOK' /\ LedgerTypeOK' /\ EvidenceInv'
<1>1. /\ stage = "evidence" /\ stage' = "feed" /\ UNCHANGED << told, trades, db >>
      /\ evidence' = TimedOut(evidence)
    BY DEF EvidenceJoined
<1>2. /\ evidence \in EvidenceRecords /\ EvidenceTypeOK /\ LedgerTypeOK
      /\ EvidenceStopsLast /\ EndsClean
    BY EvidenceNow
<1>3. LedgerTypeOK'
    BY <1>1, <1>2 DEF LedgerTypeOK
<1>4. /\ evidence'.queue = evidence.queue /\ evidence'.batch = evidence.batch
      /\ evidence'.phase = evidence.phase /\ evidence' \in EvidenceRecords
      /\ evidence'.counted = {} => evidence.counted = {}
      /\ Joined(evidence) \/ evidence'.counted # {}
    <2>1. CASE Joined(evidence)
        <3>1. evidence' = evidence
            BY <1>1, <2>1 DEF TimedOut
        <3> QED BY <1>2, <2>1, <3>1
    <2>2. CASE ~Joined(evidence)
        <3>1. evidence' = [evidence EXCEPT !.counted = @ \cup {"shutdown_timed_out"}]
            BY <1>1, <2>2 DEF TimedOut
        <3>2. evidence.counted \cup {"shutdown_timed_out"} \in SUBSET Counters
            BY <1>2 DEF EvidenceRecords, Counters
        <3> QED BY <1>2, <3>1, <3>2 DEF EvidenceRecords
    <2> QED BY <2>1, <2>2
<1>5. EvidenceTypeOK'
    BY <1>2, <1>4 DEF EvidenceTypeOK, EvidenceRecords, Messages
<1>6. EvidenceStopsLast'
    BY <1>1, <1>2, <1>4 DEF EvidenceStopsLast, FeedHungUp, EvidenceHungUp, Joined
<1>7. EndsClean'
    BY <1>1, <1>2, <1>4 DEF EndsClean, EvidenceHungUp
<1>8. LedgerKept'
    <2>1. Backlog' = Backlog
        BY <1>4 DEF Backlog
    <2> QED BY <1>1, <1>4, <2>1, SameBacklog
<1> QED BY <1>3, <1>5, <1>6, <1>7, <1>8 DEF EvidenceInv

\* The process ends, and a thread that was left behind ends with it.
LEMMA ProcessEndsKeeps ==
    ASSUME TypeOK, EvidenceInv, FeedJoined
    PROVE  EvidenceTypeOK' /\ LedgerTypeOK' /\ EvidenceInv'
<1>1. /\ stage = "feed" /\ stage' = "exit" /\ UNCHANGED << told, trades, db >>
      /\ evidence' = Gone(evidence)
    BY DEF FeedJoined
<1>2. /\ evidence \in EvidenceRecords /\ EvidenceTypeOK /\ LedgerTypeOK
      /\ EvidenceStopsLast /\ EvidenceCap \in Nat
    BY EvidenceNow, CaptureAssumption
<1>3. LedgerTypeOK'
    BY <1>1, <1>2 DEF LedgerTypeOK
<1>4. << >> \in Seq(Messages) /\ Len(<< >>) = 0 /\ DOMAIN << >> = {}
    OBVIOUS
<1> DEFINE p == IF evidence.phase = "unopened" THEN "unopened" ELSE "ended"
<1>5. p \in Phases /\ p \in {"unopened", "ended"}
      /\ (p = "ended" => evidence.phase # "unopened")
    BY DEF Phases
<1>6. evidence' = [evidence EXCEPT !.phase = p, !.queue = << >>]
    BY <1>1, <1>2 DEF Gone, EvidenceRecords
<1> HIDE DEF p
<1>7. /\ evidence'.queue = << >> /\ evidence'.batch = evidence.batch
      /\ evidence'.counted = evidence.counted /\ evidence'.phase = p
      /\ evidence' \in EvidenceRecords
    BY <1>2, <1>4, <1>5, <1>6 DEF EvidenceRecords
<1>8. EvidenceTypeOK'
    BY <1>2, <1>4, <1>5, <1>7 DEF EvidenceTypeOK, EvidenceRecords, Messages
<1>9. EvidenceStopsLast'
    BY <1>4, <1>5, <1>7 DEF EvidenceStopsLast, Joined
<1>10. EndsClean' /\ LedgerKept'
    <2>1. CASE p = "unopened" \/ evidence.counted # {}
        BY <1>7, <2>1 DEF EndsClean, LedgerKept
    <2>2. CASE p = "ended" /\ evidence.counted = {}
        <3>1. evidence.phase = "ended"
            BY <1>1, <1>2, <1>5, <2>2 DEF EvidenceStopsLast, FeedHungUp, Joined
        <3>2. EvidenceHungUp'
            BY <1>1 DEF EvidenceHungUp
        <3> QED BY <1>1, <1>7, <2>2, <3>1, <3>2, EndsKeeps
    <2> QED BY <1>5, <2>1, <2>2
<1> QED BY <1>3, <1>8, <1>9, <1>10 DEF EvidenceInv

\* What a step leaves alone when it has nothing to do with the evidence writer: all but
\* what the reports say.
EvidenceQuiet ==
    /\ UNCHANGED << evidence, told, trades >>
    /\ db' = db \/ db' = [db EXCEPT !.fresh = FALSE]
    /\ EvidenceHungUp' = EvidenceHungUp /\ FeedHungUp' = FeedHungUp
    /\ stage' = "exit" => stage = "exit"

LEMMA EvidenceQuietKeeps ==
    ASSUME TypeOK, EvidenceInv, EvidenceQuiet
    PROVE  EvidenceTypeOK' /\ LedgerTypeOK' /\ EvidenceInv'
<1>1. /\ evidence' = evidence /\ told' = told /\ trades' = trades
      /\ db' = db \/ db' = [db EXCEPT !.fresh = FALSE]
      /\ EvidenceHungUp' = EvidenceHungUp /\ FeedHungUp' = FeedHungUp
      /\ stage' = "exit" => stage = "exit"
    BY DEF EvidenceQuiet
<1>2. /\ EvidenceTypeOK /\ LedgerTypeOK /\ EvidenceStopsLast /\ EndsClean
      /\ db \in DbRecords
    BY EvidenceNow DEF LedgerTypeOK, DbRecords
<1>3. /\ db' \in DbRecords /\ db'.market = db.market /\ db'.trade = db.trade
      /\ db'.result = db.result /\ db'.balance = db.balance
    BY <1>1, <1>2 DEF DbRecords
<1>4. EvidenceTypeOK'
    BY <1>1, <1>2 DEF EvidenceTypeOK
<1>5. LedgerTypeOK'
    BY <1>1, <1>2, <1>3 DEF LedgerTypeOK, DbRecords
<1>6. EvidenceStopsLast'
    BY <1>1, <1>2 DEF EvidenceStopsLast
<1>7. EndsClean'
    BY <1>1, <1>2 DEF EndsClean
<1>8. LedgerKept'
    <2>1. Backlog' = Backlog
        BY <1>1 DEF Backlog
    <2> QED BY <1>1, <1>3, <2>1, SameBacklog
<1> QED BY <1>4, <1>5, <1>6, <1>7, <1>8 DEF EvidenceInv

\* Every step keeps what the evidence writer holds and what the database says.
LEMMA EvidenceStep ==
    ASSUME TypeOK, EvidenceInv, [Next]_vars
    PROVE  EvidenceTypeOK' /\ LedgerTypeOK' /\ EvidenceInv'
<1>1. CASE MarketFound \/ Note \/ StorageReport
    BY <1>1, MarketFoundKeeps, NoteKeeps
<1>2. CASE \E t \in Trades : TradeOpens(t) \/ LiveFill(t) \/ \E w \in Whose : TradeCloses(t, w)
    BY <1>2, TradeOpensKeeps, LiveFillKeeps, TradeClosesKeeps
<1>3. CASE EvidenceThread
    BY <1>3, EvidenceOpensKeeps, EvidenceTakesKeeps, EvidenceTimesOutKeeps,
       EvidenceStopsKeeps, EvidenceFlushesKeeps, EvidenceEndsKeeps DEF EvidenceThread
<1>4. CASE StopRuntime
    BY <1>4, StopRuntimeKeeps
<1>5. CASE EvidenceJoined
    BY <1>5, EvidenceJoinedKeeps
<1>6. CASE FeedJoined
    BY <1>6, ProcessEndsKeeps
<1>7. CASE EvidenceQuiet
    BY <1>7, EvidenceQuietKeeps
<1>8. BinanceMessage \/ ChainlinkMessage \/ ClobMessage => EvidenceQuiet
    BY DEF BinanceMessage, ChainlinkMessage, ClobMessage, FeedRows, EvidenceQuiet,
           EvidenceHungUp, FeedHungUp
<1>9. FeedThread => EvidenceQuiet
    <2>1. FeedOpens \/ FeedEnds => EvidenceQuiet
        BY DEF FeedOpens, FeedEnds, EvidenceQuiet, EvidenceHungUp, FeedHungUp
    <2>2. FeedTakes => EvidenceQuiet
        BY DEF FeedTakes, EvidenceQuiet, EvidenceHungUp, FeedHungUp
    <2>3. FeedTimesOut => EvidenceQuiet
        BY DEF FeedTimesOut, EvidenceQuiet, EvidenceHungUp, FeedHungUp
    <2>4. FeedStops => EvidenceQuiet
        BY DEF FeedStops, EvidenceQuiet, EvidenceHungUp, FeedHungUp
    <2> QED BY <2>1, <2>2, <2>3, <2>4 DEF FeedThread
<1>10. MetadataAges \/ RefreshWorker \/ Arm => EvidenceQuiet
    BY DEF MetadataAges, RefreshWorker, RefreshReads, RefreshMerges, Arm,
           EvidenceQuiet, EvidenceHungUp, FeedHungUp
<1>11. UNCHANGED vars => EvidenceQuiet
    BY DEF vars, EvidenceQuiet, EvidenceHungUp, FeedHungUp
<1> QED BY <1>1, <1>2, <1>3, <1>4, <1>5, <1>6, <1>7, <1>8, <1>9, <1>10, <1>11 DEF Next
-----------------------------------------------------------------------------
(* The main loop, the monitor and its refresh. *)
RestTypeOK ==
    /\ stage \in {"running", "evidence", "feed", "exit"} /\ observed \subseteq Classes
    /\ monitor \in {"disarmed"} \cup Verdicts /\ refresh \in {NoRefresh} \cup Verdicts

\* A refusal blocks a monitor, or leaves it as it is.
LEMMA BlockedType ==
    ASSUME TypeOK, NEW r
    PROVE  Blocked(r) \in {"disarmed"} \cup Verdicts
BY DEF Blocked, TypeOK, Verdicts

LEMMA RestStep ==
    ASSUME TypeOK, [Next]_vars
    PROVE  RestTypeOK'
<1>1. RestTypeOK
    BY DEF TypeOK, RestTypeOK
<1>2. CASE \E class \in Classes, n \in Nat : FeedRows(class, n)
    <2>1. PICK class \in Classes : \E n \in Nat : FeedRows(class, n)
        BY <1>2
    <2>2. PICK n \in Nat : FeedRows(class, n)
        BY <2>1
    <2>3. /\ observed' = observed \cup (IF Taken(n) > 0 THEN {class} ELSE {})
          /\ monitor' = Blocked(Taken(n) < n) /\ stage' = stage /\ refresh' = refresh
        BY <2>2 DEF FeedRows
    <2>4. observed' \subseteq Classes
        BY <1>1, <2>3 DEF RestTypeOK
    <2>5. monitor' \in {"disarmed"} \cup Verdicts
        BY <2>3, BlockedType
    <2> QED BY <1>1, <2>3, <2>4, <2>5 DEF RestTypeOK
<1>3. BinanceMessage \/ ChainlinkMessage \/ ClobMessage
        => \E class \in Classes, n \in Nat : FeedRows(class, n)
    BY DEF BinanceMessage, ChainlinkMessage, ClobMessage, Prepared, ClobRows, Classes
<1>4. CASE \/ MarketFound \/ Note
           \/ \E t \in Trades : TradeOpens(t) \/ LiveFill(t) \/ \E w \in Whose : TradeCloses(t, w)
    <2>1. /\ monitor' = Blocked(~Accepting) \/ monitor' = monitor
          /\ UNCHANGED << stage, observed, refresh >>
        BY <1>4 DEF MarketFound, Note, TradeOpens, LiveFill, TradeCloses, Reports, Handled
    <2> QED BY <1>1, <2>1, BlockedType DEF RestTypeOK
<1>5. CASE StorageReport
    <2>1. /\ \E oversize \in BOOLEAN : monitor' = Blocked(oversize \/ ~Accepting)
          /\ observed' = {} /\ stage' = stage /\ refresh' = refresh
        BY <1>5 DEF StorageReport
    <2>2. monitor' \in {"disarmed"} \cup Verdicts
        BY <2>1, BlockedType
    <2> QED BY <1>1, <2>1, <2>2 DEF RestTypeOK
<1>6. CASE RefreshReads
    <2>1. /\ refresh' \in Verdicts /\ UNCHANGED << stage, observed, monitor >>
        BY <1>6 DEF RefreshReads, Verdicts
    <2> QED BY <1>1, <2>1 DEF RestTypeOK
<1>7. CASE RefreshMerges
    BY <1>1, <1>7 DEF RefreshMerges, RestTypeOK, NoRefresh
<1>8. CASE Arm
    BY <1>1, <1>8 DEF Arm, RestTypeOK, Verdicts
<1>9. CASE StopRuntime
    BY <1>9 DEF StopRuntime, RestTypeOK
<1>10. CASE EvidenceJoined \/ FeedJoined
    BY <1>1, <1>10 DEF EvidenceJoined, FeedJoined, RestTypeOK
<1>11. CASE UNCHANGED << stage, observed, monitor, refresh >>
    BY <1>1, <1>11 DEF RestTypeOK
<1>12. FeedThread => UNCHANGED << stage, observed, monitor, refresh >>
    <2>1. FeedOpens \/ FeedEnds => UNCHANGED << stage, observed, monitor, refresh >>
        BY DEF FeedOpens, FeedEnds
    <2>2. FeedTakes => UNCHANGED << stage, observed, monitor, refresh >>
        BY DEF FeedTakes
    <2>3. FeedTimesOut => UNCHANGED << stage, observed, monitor, refresh >>
        BY DEF FeedTimesOut
    <2>4. FeedStops => UNCHANGED << stage, observed, monitor, refresh >>
        BY DEF FeedStops
    <2> QED BY <2>1, <2>2, <2>3, <2>4 DEF FeedThread
<1>13. EvidenceThread => UNCHANGED << stage, observed, monitor, refresh >>
    BY DEF EvidenceThread, EvidenceOpens, EvidenceTakes, EvidenceTimesOut, EvidenceStops,
           EvidenceFlushes, EvidenceEnds
<1>14. MetadataAges => UNCHANGED << stage, observed, monitor, refresh >>
    BY DEF MetadataAges
<1>15. UNCHANGED vars => UNCHANGED << stage, observed, monitor, refresh >>
    BY DEF vars
<1> QED BY <1>2, <1>3, <1>4, <1>5, <1>6, <1>7, <1>8, <1>9, <1>10, <1>11, <1>12, <1>13,
           <1>14, <1>15 DEF Next, RefreshWorker

LEMMA TypeParts ==
    TypeOK <=> FeedTypeOK /\ EvidenceTypeOK /\ LedgerTypeOK /\ RestTypeOK
BY DEF TypeOK, RestTypeOK

LEMMA InitIInv == Init => IInv
<1> SUFFICES ASSUME Init PROVE IInv
    OBVIOUS
<1>1. /\ FeedCap \in Nat /\ EvidenceCap \in Nat /\ BatchSize \in Nat \ {0}
      /\ BlockRows \in Nat \ {0} /\ MaxRows \in Nat
    BY CaptureAssumption
<1>2. Len(<< >>) = 0 /\ DOMAIN << >> = {} /\ << >> \in Seq(Classes \cup {Shutdown})
      /\ << >> \in Seq(Events \cup {ShutdownEvent}) /\ << >> \in Seq(Events)
      /\ << >> \o << >> = << >>
    OBVIOUS
<1>3. FeedTypeOK
    BY <1>1, <1>2 DEF Init, FeedTypeOK, Phases
<1>4. EvidenceTypeOK
    BY <1>1, <1>2 DEF Init, EvidenceTypeOK, Phases
<1> DEFINE Left == {"none", "settled", "open"}
<1> PICK left \in [Trades -> Left], live \in Modes : trades = Seeded(left, live) /\ db \in Used(left)
    BY DEF Init
<1> HIDE DEF Left
<1>a. /\ trades.own = [t \in Trades |-> "none"] /\ trades.earlier = left
      /\ trades.live = live /\ trades.dropped = {} /\ trades \in TradeRecords
    <2>1. [t \in Trades |-> "none"] \in [Trades -> Status]
        BY DEF Status
    <2>2. left \in [Trades -> Status \cup {"settled"}] /\ live \in BOOLEAN
        BY CaptureAssumption DEF Left, Status
    <2> QED BY <2>1, <2>2 DEF Seeded, TradeRecords
<1>b. \A t \in Trades : RowOf(left[t]) \in Status /\ left[t] \in Left
                        /\ (left[t] = "none" <=> RowOf(left[t]) = "none")
    <2> SUFFICES ASSUME NEW t \in Trades
                 PROVE  /\ RowOf(left[t]) \in Status /\ left[t] \in Left
                        /\ left[t] = "none" <=> RowOf(left[t]) = "none"
        OBVIOUS
    <2>1. left[t] \in Left
        OBVIOUS
    <2> QED BY <2>1 DEF RowOf, Status, Left
<1>c. /\ db \in DbRecords /\ db.trade = [t \in Trades |-> RowOf(left[t])]
      /\ \A t \in Trades : /\ db.result[t] \in {"none", "before"}
                           /\ left[t] = "none" => db.result[t] = "none"
                           /\ left[t] = "settled" => db.result[t] = "before"
    <2>1. [t \in Trades |-> RowOf(left[t])] \in [Trades -> Status]
        BY <1>b
    <2>2. {r \in [Trades -> {"none", "before"}] :
             \A t \in Trades : /\ left[t] = "none" => r[t] = "none"
                               /\ left[t] = "settled" => r[t] = "before"}
            \subseteq [Trades -> {"none", "before"} \cup Whose]
        OBVIOUS
    <2> QED BY <2>1, <2>2 DEF Used, DbRecords
<1>5. LedgerTypeOK /\ RestTypeOK
    BY <1>a, <1>c DEF Init, LedgerTypeOK, RestTypeOK, TradeRecords, DbRecords, Classes
<1>6. FeedInv
    <2>1. FeedStopsLast
        BY <1>2 DEF Init, FeedStopsLast
    <2>2. Unwritten(feed) = 0
        <3>1. {i \in DOMAIN feed.queue : feed.queue[i] # Shutdown} = {}
            BY <1>2 DEF Init
        <3>2. Queued(feed) = 0
            BY <3>1, FS_EmptySet DEF Queued
        <3> QED BY <3>2 DEF Init, Unwritten, Held, Connected
    <2>3. RowsAccounted
        BY <2>2 DEF Init, RowsAccounted
    <2> QED BY <2>1, <2>3 DEF FeedInv
<1>7. EvidenceInv
    <2>1. EvidenceStopsLast /\ EndsClean
        BY <1>2 DEF Init, EvidenceStopsLast, EndsClean, FeedHungUp
    <2>2. Backlog = << >>
        BY <1>2 DEF Init, Backlog
    <2>3. OnceOnly /\ \A x : ~Pending(x)
        BY <1>2, <2>2 DEF OnceOnly, Pending
    <2>4. ASSUME NEW t \in Trades PROVE IdKept(t) /\ TradeKept(t)
        <3>1. /\ trades.own[t] = "none" /\ trades.earlier[t] = left[t]
              /\ db.trade[t] = RowOf(left[t]) /\ left[t] \in Left
              /\ left[t] = "none" <=> RowOf(left[t]) = "none"
            BY <1>a, <1>b, <1>c
        <3>2. IdKept(t)
            BY <1>c, <2>3, <3>1 DEF IdKept
        <3>3. TradeKept(t)
            BY <2>3, <3>1 DEF TradeKept, Left
        <3> QED BY <3>2, <3>3
    <2>5. LedgerKept
        BY <2>3, <2>4 DEF Init, LedgerKept
    <2> QED BY <2>1, <2>5 DEF EvidenceInv
<1> QED BY <1>3, <1>4, <1>5, <1>6, <1>7, TypeParts DEF IInv

LEMMA IInvStep == IInv /\ [Next]_vars => IInv'
<1> SUFFICES ASSUME IInv, [Next]_vars PROVE IInv'
    OBVIOUS
<1>1. TypeOK /\ FeedInv /\ EvidenceInv
    BY DEF IInv
<1>2. FeedTypeOK' /\ FeedInv'
    BY <1>1, FeedStep
<1>3. EvidenceTypeOK' /\ LedgerTypeOK' /\ EvidenceInv'
    BY <1>1, EvidenceStep
<1>4. RestTypeOK'
    BY <1>1, RestStep
<1>5. TypeOK'
    BY <1>2, <1>3, <1>4 DEF TypeOK, RestTypeOK
<1> QED BY <1>2, <1>3, <1>5 DEF IInv

\* The inductive invariant holds of every behaviour, whatever the capacities, the batch
\* sizes and the trades.
THEOREM Invariance == Spec => []IInv
BY InitIInv, IInvStep, PTL DEF Spec

\* Channels stay within their capacities, batches below the size at which they are
\* flushed, and a thread drains no empty batch.
THEOREM TypeCorrect == Spec => []TypeOK
<1>1. IInv => TypeOK
    BY DEF IInv
<1> QED BY <1>1, Invariance, PTL

\* live_feed_writer.rs: a row that the writer accepted and that is neither stored nor
\* on its way is seen in a counter, or its thread never opened the database.
THEOREM LossIsVisibleHolds == Spec => []LossIsVisible
<1>1. IInv => LossIsVisible
    <2> SUFFICES ASSUME IInv, Unwritten(feed) > 0, feed.counted = {},
                        feed.phase # "unopened"
                 PROVE  FALSE
        BY DEF LossIsVisible
    <2>1. RowsAccounted /\ feed.phase \in Phases
        BY DEF IInv, FeedInv, TypeOK, FeedTypeOK
    <2>2. CASE Connected(feed)
        BY <2>1, <2>2 DEF RowsAccounted
    <2>3. CASE ~Connected(feed)
        BY <2>1, <2>3 DEF RowsAccounted, Connected
    <2> QED BY <2>2, <2>3
<1> QED BY <1>1, Invariance, PTL

\* live_persistence_writer.rs: once the evidence writer has nothing left and no counter of
\* it has moved, the market and every trade whose outputs all left the engine are
\* recorded, on a run database that earlier processes may have used.
THEOREM LedgerGapIsVisibleHolds == Spec => []LedgerGapIsVisible
<1>1. IInv => LedgerGapIsVisible
    <2> SUFFICES ASSUME IInv, Settled(evidence), evidence.counted = {},
                        evidence.phase # "unopened"
                 PROVE  /\ told => db.market
                        /\ \A t \in Trades \ trades.dropped : Recorded(t)
        BY DEF LedgerGapIsVisible
    <2>1. TypeOK /\ EvidenceInv
        BY DEF IInv
    <2>2. LedgerTypeOK /\ LedgerKept /\ EndsClean
        BY <2>1, EvidenceNow
    <2>3. evidence.batch = << >> /\ evidence.queue \in {<< >>, << ShutdownEvent >>}
        BY <2>2 DEF Settled, Connected, EndsClean
    <2>4. \A x : Pending(x) => x = ShutdownEvent
        BY <2>3, NothingPending
    <2>5. /\ ~Pending(Market)
          /\ \A t \in Trades : ~Pending(Opened(t)) /\ \A w \in Whose : ~Pending(Closed(t, w))
        BY <2>4, EventsDiffer, EventKinds
    <2>6. (told => db.market) /\ \A t \in Trades : Kept(t)
        BY <2>1, <2>5, LedgerNow
    <2>7. ASSUME NEW t \in Trades \ trades.dropped PROVE Recorded(t)
        <3>1. IdKept(t) /\ TradeKept(t)
            BY <2>6, <2>7 DEF Kept
        <3>2. ~Pending(Opened(t)) /\ ~Pending(Closed(t, "own")) /\ ~Pending(Closed(t, "earlier"))
            BY <2>5, <2>7 DEF Whose
        <3>3. trades.earlier[t] \in {"none", "open", "closed", "settled"}
            BY <2>2, <2>7 DEF LedgerTypeOK, Status
        <3>4. ASSUME trades.live, trades.own[t] = "closed" PROVE trades.earlier[t] = "open"
            <4>1. db.result[t] = "own"
                BY <3>1, <3>2, <3>4 DEF TradeKept
            <4>2. trades.earlier[t] # "settled" /\ trades.earlier[t] # "none"
                BY <3>1, <3>4, <4>1 DEF IdKept
            <4>3. trades.earlier[t] # "closed"
                BY <3>1, <3>2, <4>1 DEF TradeKept
            <4> QED BY <3>3, <4>2, <4>3
        <3> QED BY <3>1, <3>2, <3>4 DEF TradeKept, Recorded
    <2> QED BY <2>6, <2>7
<1> QED BY <1>1, Invariance, PTL
=============================================================================
