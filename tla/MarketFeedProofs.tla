-------------------------- MODULE MarketFeedProofs --------------------------
(***************************************************************************)
(* The safety properties of the market windows and of the CLOB feed, for   *)
(* any number and length of windows, any channel capacities and any        *)
(* horizon.                                                                *)
(*                                                                         *)
(* The two halves are proved apart: Windows are on their way to their      *)
(* settlement through the command queue (SettleInv), announcements are on  *)
(* their way to the runtime through the feed channel (HealthInv).          *)
(***************************************************************************)
EXTENDS MarketFeed, TLAPS

USE MarketFeedAssumption

-----------------------------------------------------------------------------
(***************************************************************************)
(* Queues.                                                                 *)
(***************************************************************************)
LEMMA AppendFact ==
  ASSUME NEW S, NEW q \in Seq(S), NEW e \in S
  PROVE  /\ Append(q, e) \in Seq(S)
         /\ Len(Append(q, e)) = Len(q) + 1 /\ Len(q) \in Nat
         /\ DOMAIN q = 1..Len(q) /\ DOMAIN Append(q, e) = 1..(Len(q) + 1)
         /\ \A i \in 1..Len(q) : Append(q, e)[i] = q[i]
         /\ Append(q, e)[Len(q) + 1] = e
OBVIOUS

LEMMA TailFact ==
  ASSUME NEW S, NEW q \in Seq(S), q # << >>
  PROVE  /\ Tail(q) \in Seq(S) /\ Head(q) \in S /\ Head(q) = q[1]
         /\ Len(q) \in Nat \ {0} /\ DOMAIN q = 1..Len(q)
         /\ DOMAIN Tail(q) = 1..(Len(q) - 1)
         /\ \A i \in 1..(Len(q) - 1) : Tail(q)[i] = q[i + 1]
OBVIOUS

-----------------------------------------------------------------------------
(***************************************************************************)
(* The feed and its announcements.                                         *)
(***************************************************************************)
HealthInv == FeedTypeOK /\ HealthFollowsFeed /\ NewestAnnounced

feedVars == << messages, feed, down >>
otherFeedVars == << resubs, current, book, asks, raced >>

\* A message is queued that agrees with what the feed is afterwards.
LEMMA PublishFact ==
  ASSUME HealthInv, NEW m \in Messages, Publish(m), UNCHANGED down,
         \/ m.kind = "book" /\ feed'.pc = feed.pc
         \/ m.kind = "connected" /\ feed'.pc = "up"
         \/ m.kind = "disconnected" /\ feed'.pc = "asleep"
  PROVE  messages' \in Seq(Messages) /\ HealthFollowsFeed' /\ NewestAnnounced'
<1> DEFINE n == Len(messages)
<1>1. messages \in Seq(Messages) /\ messages' = Append(messages, m)
  BY DEF HealthInv, FeedTypeOK, Publish
<1>2. /\ messages' \in Seq(Messages) /\ n \in Nat
      /\ DOMAIN messages = 1..n /\ DOMAIN messages' = 1..(n + 1)
      /\ \A i \in 1..n : messages'[i] = messages[i]
      /\ messages'[n + 1] = m
  BY <1>1, AppendFact
<1> HIDE DEF n
<1>3. CASE m.kind = "book" /\ feed'.pc = feed.pc
  <2>1. HealthQueued' <=> HealthQueued
    BY <1>2, <1>3 DEF HealthQueued
  <2>2. HealthFollowsFeed'
    BY <1>3, <2>1 DEF HealthFollowsFeed, HealthInv
  <2>3. NewestAnnounced'
    <3> SUFFICES ASSUME NEW i \in 1..(n + 1), messages'[i].kind # "book",
                        \A k \in 1..(n + 1) : k > i => messages'[k].kind = "book"
                 PROVE  /\ feed'.pc = "asleep" => messages'[i].kind = "disconnected"
                        /\ feed'.pc = "up" => messages'[i].kind = "connected"
      BY <1>2 DEF NewestAnnounced
    <3>1. i \in 1..n
      BY <1>2, <1>3
    <3>2. \A k \in 1..n : k > i => messages[k].kind = "book"
      BY <1>2
    <3> QED BY <1>2, <1>3, <3>1, <3>2 DEF NewestAnnounced, HealthInv
  <2> QED BY <1>2, <2>2, <2>3
<1>4. CASE m.kind # "book"
  <2>1. HealthQueued'
    BY <1>2, <1>4 DEF HealthQueued
  <2>2. NewestAnnounced'
    <3> SUFFICES ASSUME NEW i \in 1..(n + 1),
                        \A k \in 1..(n + 1) : k > i => messages'[k].kind = "book"
                 PROVE  /\ feed'.pc = "asleep" => messages'[i].kind = "disconnected"
                        /\ feed'.pc = "up" => messages'[i].kind = "connected"
      BY <1>2 DEF NewestAnnounced
    <3>1. i = n + 1
      BY <1>2, <1>4
    <3> QED BY <1>2, <1>4, <3>1
  <2> QED BY <1>2, <2>1, <2>2 DEF HealthFollowsFeed
<1> QED BY <1>3, <1>4

\* The runtime takes the oldest message.
LEMMA HandleFact ==
  ASSUME HealthInv, HandleFeed
  PROVE  HealthInv'
<1> DEFINE n == Len(messages)
<1>1. messages \in Seq(Messages) /\ messages # << >> /\ messages' = Tail(messages)
      /\ UNCHANGED << feed, resubs, current, asks, raced >>
  BY DEF HealthInv, FeedTypeOK, HandleFeed
<1>2. /\ messages' \in Seq(Messages) /\ Head(messages) \in Messages
      /\ Head(messages) = messages[1] /\ n \in Nat \ {0}
      /\ DOMAIN messages = 1..n /\ DOMAIN messages' = 1..(n - 1)
      /\ \A i \in 1..(n - 1) : messages'[i] = messages[i + 1]
  BY <1>1, TailFact
<1> HIDE DEF n
<1>3. NewestAnnounced'
  <2> SUFFICES ASSUME NEW i \in 1..(n - 1), messages'[i].kind # "book",
                      \A k \in 1..(n - 1) : k > i => messages'[k].kind = "book"
               PROVE  /\ feed.pc = "asleep" => messages'[i].kind = "disconnected"
                      /\ feed.pc = "up" => messages'[i].kind = "connected"
    BY <1>1, <1>2 DEF NewestAnnounced
  <2>1. i + 1 \in 1..n /\ messages[i + 1].kind # "book"
    BY <1>2
  <2>2. \A k \in 1..n : k > i + 1 => messages[k].kind = "book"
    <3> SUFFICES ASSUME NEW k \in 1..n, k > i + 1 PROVE messages[k].kind = "book"
      OBVIOUS
    <3>1. k - 1 \in 1..(n - 1) /\ k - 1 > i /\ (k - 1) + 1 = k
      BY <1>2
    <3> QED BY <1>2, <3>1
  <2> QED BY <1>2, <2>1, <2>2 DEF NewestAnnounced, HealthInv
<1>4. CASE Head(messages).kind = "book"
  <2>1. HealthQueued => HealthQueued'
    <3> SUFFICES ASSUME NEW i \in 1..n, messages[i].kind # "book" PROVE HealthQueued'
      BY <1>2 DEF HealthQueued
    <3>1. i # 1
      BY <1>2, <1>4
    <3>2. i - 1 \in 1..(n - 1) /\ (i - 1) + 1 = i
      BY <1>2, <3>1
    <3>3. messages'[i - 1] = messages[i]
      BY <1>2, <3>2
    <3> QED BY <1>2, <3>2, <3>3 DEF HealthQueued
  <2>2. UNCHANGED down /\ book' = Head(messages).book
    BY <1>4 DEF HandleFeed
  <2>3. book' \in Books
    BY <1>2, <1>4, <2>2 DEF Messages
  <2> QED BY <1>1, <1>2, <1>3, <2>1, <2>2, <2>3 DEF HealthFollowsFeed, HealthInv, FeedTypeOK
<1>5. CASE Head(messages).kind # "book"
  <2>1. UNCHANGED book /\ down' = (Head(messages).kind = "disconnected")
    BY <1>5 DEF HandleFeed, NoteHealth
  <2>2. ASSUME ~HealthQueued'
        PROVE  (feed.pc = "asleep" => down') /\ (feed.pc = "up" => ~down')
    <3>1. \A k \in 1..n : k > 1 => messages[k].kind = "book"
      <4> SUFFICES ASSUME NEW k \in 1..n, k > 1 PROVE messages[k].kind = "book"
        OBVIOUS
      <4>1. k - 1 \in 1..(n - 1) /\ (k - 1) + 1 = k
        BY <1>2
      <4> QED BY <1>2, <2>2, <4>1 DEF HealthQueued
    <3>2. 1 \in 1..n
      BY <1>2
    <3>3. /\ feed.pc = "asleep" => messages[1].kind = "disconnected"
          /\ feed.pc = "up" => messages[1].kind = "connected"
      BY <1>2, <1>5, <3>1, <3>2 DEF NewestAnnounced, HealthInv
    <3>4. /\ feed.pc = "asleep" => Head(messages).kind = "disconnected"
          /\ feed.pc = "up" => Head(messages).kind # "disconnected"
      BY <1>2, <3>3
    <3> QED BY <2>1, <3>4, Zenon
  <2>3. HealthFollowsFeed'
    BY <1>1, <2>2 DEF HealthFollowsFeed
  <2> QED BY <1>1, <1>2, <1>3, <2>1, <2>3 DEF HealthInv, FeedTypeOK
<1> QED BY <1>4, <1>5

LEMMA HealthSteady ==
  ASSUME HealthInv, UNCHANGED << messages, down >>, feed'.pc = "connecting" \/ UNCHANGED feed
  PROVE  HealthFollowsFeed' /\ NewestAnnounced'
BY DEF HealthInv, HealthFollowsFeed, NewestAnnounced, HealthQueued

LEMMA LatestFact ==
  ASSUME FeedTypeOK, NEW t \in Windows \cup {None}
  PROVE  LatestRequest(t) \in Windows \cup {None}
BY DEF FeedTypeOK, LatestRequest

\* The steps of the feed task.
LEMMA FeedStepsSafe ==
  ASSUME HealthInv, WindowTypeOK,
         \/ FeedStarts \/ Connects \/ ConnectFails \/ Disconnects \/ Wakes \/ Resubscribes
  PROVE  HealthInv'
<1>1. /\ FeedTypeOK /\ UNCHANGED << current, book, down, asks, raced >>
      /\ feed \in Feeds /\ resubs \in Seq(Windows) /\ NoBook \in Books
      /\ now \in 0..Horizon
  BY DEF HealthInv, FeedTypeOK, WindowTypeOK, FeedStarts, Connects, ConnectFails,
         Disconnects, Wakes, Resubscribes, Lost, FeedStep, runtime, Books, NoBook
<1>2. /\ feed.tokens \in Windows \cup {None} /\ feed.book \in Books
      /\ feed.attempt \in 0..MaxFailures /\ feed.wake \in 0..Horizon
      /\ LatestRequest(None) \in Windows \cup {None}
      /\ LatestRequest(feed.tokens) \in Windows \cup {None}
      /\ resubs' \in Seq(Windows)
  <2>1. feed.tokens \in Windows \cup {None} /\ feed.book \in Books
        /\ feed.attempt \in 0..MaxFailures /\ feed.wake \in 0..Horizon
    BY <1>1 DEF Feeds
  <2>2. resubs' = << >> \/ resubs' = resubs
    BY DEF FeedStarts, Connects, ConnectFails, Disconnects, Wakes, Resubscribes, Lost
  <2>3. << >> \in Seq(Windows)
    OBVIOUS
  <2>4. resubs' \in Seq(Windows)
    BY <1>1, <2>2, <2>3, Zenon
  <2> QED BY <1>1, <2>1, <2>4, LatestFact

<1>4. CASE FeedStarts \/ Wakes \/ Resubscribes
  <2>1. feed' \in Feeds /\ feed'.pc = "connecting" /\ UNCHANGED messages
    <3>1. CASE FeedStarts
      BY <1>1, <1>2, <3>1 DEF FeedStarts, Feeds
    <3>2. CASE Wakes
      <4> DEFINE a == IF feed.attempt >= MaxFailures THEN 0 ELSE feed.attempt + 1
                 t == LatestRequest(feed.tokens)
      <4>1. a \in 0..MaxFailures /\ t \in Windows \cup {None} /\ 0 \in 0..Horizon
        BY <1>2
      <4>2. /\ feed' = [feed EXCEPT !.pc = "connecting", !.tokens = t, !.attempt = a,
                                    !.wake = 0]
            /\ UNCHANGED messages
        BY <3>2 DEF Wakes
      <4> HIDE DEF a, t
      <4> QED BY <1>1, <1>2, <4>1, <4>2 DEF Feeds
    <3>3. CASE Resubscribes
      <4> DEFINE t == LatestRequest(feed.tokens)
      <4>1. t \in Windows \cup {None} /\ 0 \in 0..MaxFailures
        BY <1>2
      <4>2. /\ feed' = [feed EXCEPT !.pc = "connecting", !.tokens = t, !.book = NoBook,
                                    !.attempt = 0]
            /\ UNCHANGED messages
        BY <3>3 DEF Resubscribes
      <4> HIDE DEF t
      <4> QED BY <1>1, <1>2, <4>1, <4>2 DEF Feeds
    <3> QED BY <1>4, <3>1, <3>2, <3>3
  <2> QED BY <1>1, <1>2, <2>1, HealthSteady DEF HealthInv, FeedTypeOK
<1>5. CASE Connects
  <2>1. feed' \in Feeds /\ feed'.pc = "up"
    BY <1>1, <1>2, <1>5 DEF Connects, Feeds
  <2>2. [kind |-> "connected"] \in Messages /\ Publish([kind |-> "connected"])
    BY <1>5 DEF Connects, Messages
  <2> QED BY <1>1, <1>2, <2>1, <2>2, PublishFact DEF HealthInv, FeedTypeOK
<1>6. CASE \E attempt \in 0..MaxFailures : Lost(attempt)
  <2>1. PICK attempt \in 0..MaxFailures : Lost(attempt)
    BY <1>6
  <2> DEFINE until == now + Delay(attempt)
             k == IF until < Horizon THEN until ELSE Horizon
  <2>2. k \in 0..Horizon
    BY <1>1 DEF Delay
  <2>3. feed' = [feed EXCEPT !.pc = "asleep", !.attempt = attempt, !.wake = k]
    BY <2>1 DEF Lost
  <2> HIDE DEF k
  <2>4. feed' \in Feeds /\ feed'.pc = "asleep"
    BY <1>1, <1>2, <2>2, <2>3 DEF Feeds
  <2>5. [kind |-> "disconnected"] \in Messages /\ Publish([kind |-> "disconnected"])
    BY <2>1 DEF Lost, Messages
  <2> QED BY <1>1, <1>2, <2>4, <2>5, PublishFact DEF HealthInv, FeedTypeOK
<1>7. ConnectFails \/ Disconnects => \E attempt \in 0..MaxFailures : Lost(attempt)
  BY <1>2 DEF ConnectFails, Disconnects, should_reset_backoff
<1> QED BY <1>4, <1>5, <1>6, <1>7

\* A quote of the venue.
LEMMA QuoteSafe ==
  ASSUME HealthInv, ProcessMessage
  PROVE  HealthInv'
<1>1. PICK u \in Parsed : Quote(u)
  BY DEF ProcessMessage
<1>2. /\ FeedTypeOK /\ UNCHANGED << resubs, current, book, down, asks, raced >>
      /\ feed \in Feeds /\ feed.pc = "up"
  BY <1>1 DEF HealthInv, FeedTypeOK, Quote, FeedStep, runtime
<1>3. CASE u.kind = "meta"
  <2>1. UNCHANGED << feed, messages >>
    BY <1>1, <1>3 DEF Quote
  <2> QED BY <1>2, <2>1, HealthSteady DEF HealthInv, FeedTypeOK
<1>4. CASE u.kind # "meta"
  <2>1. PICK b \in UpdatedBooks(feed.book, u) :
          feed' = [feed EXCEPT !.book = b] /\ Publish([kind |-> "book", book |-> b])
    BY <1>1, <1>4 DEF Quote
  <2>2. feed.book \in Books /\ feed.tokens \in Windows \cup {None}
    BY <1>2 DEF Feeds
  <2>3. b \in Books
    <3>1. CASE u.kind = "whole"
      BY <2>1, <2>2, <3>1 DEF UpdatedBooks, apply_book_snapshot, Books
    <3>2. CASE u.kind = "part"
      <4>1. u.side \in Sides
        BY <3>2 DEF Parsed
      <4>2. b \in apply_direct_tob(feed.book, u.side)
        BY <2>1, <3>2 DEF UpdatedBooks
      <4>3. PICK x \in {feed.tokens, IF feed.book[u.side] = None THEN feed.tokens
                                     ELSE feed.book[u.side]} :
              b = [feed.book EXCEPT ![u.side] = x]
        BY <4>2 DEF apply_direct_tob
      <4>4. x \in Windows \cup {None}
        BY <2>2, <4>1, <4>3 DEF Books
      <4> QED BY <2>2, <4>3, <4>4 DEF Books
    <3>3. CASE u.kind \notin {"whole", "part"}
      BY <2>1, <2>2, <3>3 DEF UpdatedBooks
    <3> QED BY <3>1, <3>2, <3>3
  <2>4. /\ feed' \in Feeds /\ feed'.pc = feed.pc
        /\ [kind |-> "book", book |-> b] \in Messages
    BY <1>2, <2>1, <2>3 DEF Feeds, Messages
  <2> QED BY <1>2, <2>1, <2>4, PublishFact DEF HealthInv, FeedTypeOK
<1> QED BY <1>3, <1>4

LEMMA SendSafe ==
  ASSUME HealthInv, NEW w \in Windows, SendResubscribe(w)
  PROVE  HealthInv'
<1>1. /\ FeedTypeOK /\ UNCHANGED << messages, feed, current, book, down, raced >>
  BY DEF HealthInv, SendResubscribe, runtime
<1>2. resubs' \in Seq(Windows) /\ asks' \subseteq Windows
  BY <1>1, AppendFact DEF SendResubscribe, FeedTypeOK
<1> QED BY <1>1, <1>2, HealthSteady DEF HealthInv, FeedTypeOK

\* The runtime's own steps leave the feed and its channel alone.
LEMMA WindowStepsQuiet ==
  ASSUME HealthInv, UNCHANGED << messages, feed, resubs, down >>,
         current' \in Windows \cup {None}, book' \in Books, asks' \subseteq Windows,
         raced' \in BOOLEAN
  PROVE  HealthInv'
BY HealthSteady DEF HealthInv, FeedTypeOK

-----------------------------------------------------------------------------
(***************************************************************************)
(* The windows and the command queue.                                      *)
(***************************************************************************)
OpenAt(w) == Queued({"new"}, w) \/ w \in known

\* The window is in exactly one place.
One(w) ==
  \/ /\ OpenAt(w) /\ w \notin pending /\ w \notin fetches /\ ~Queued(Answers, w)
     /\ w \notin settled /\ w \notin dropped
  \/ /\ ~OpenAt(w) /\ w \in pending /\ w \notin fetches /\ ~Queued(Answers, w)
     /\ w \notin settled /\ w \notin dropped
  \/ /\ ~OpenAt(w) /\ w \notin pending /\ w \in fetches /\ ~Queued(Answers, w)
     /\ w \notin settled /\ w \notin dropped
  \/ /\ ~OpenAt(w) /\ w \notin pending /\ w \notin fetches /\ Queued(Answers, w)
     /\ w \notin settled /\ w \notin dropped
  \/ /\ ~OpenAt(w) /\ w \notin pending /\ w \notin fetches /\ ~Queued(Answers, w)
     /\ w \in settled /\ w \notin dropped
  \/ /\ ~OpenAt(w) /\ w \notin pending /\ w \notin fetches /\ ~Queued(Answers, w)
     /\ w \notin settled /\ w \in dropped

Nowhere(w) ==
  /\ ~OpenAt(w) /\ w \notin pending /\ w \notin fetches /\ ~Queued(Answers, w)
  /\ w \notin settled /\ w \notin dropped

LEMMA PlacesFact ==
  ASSUME NEW w
  PROVE  /\ (\E p \in Places : \A q \in Places : At(q, w) <=> q = p) <=> One(w)
         /\ (\A p \in Places : ~At(p, w)) <=> Nowhere(w)
         /\ At("open", w) <=> OpenAt(w)
BY DEF Places, At, OpenAt, One, Nowhere, Answers

QueueOnce ==
  \A i, k \in DOMAIN commands : commands[i].w = commands[k].w =>
    /\ commands[i].kind = "new" /\ commands[k].kind = "new" => i = k
    /\ commands[i].kind \in Answers /\ commands[k].kind \in Answers => i = k
    /\ commands[i].kind = "new" /\ commands[k].kind = "closed" => i < k

Path(w) ==
  /\ w \in seen \cup seeded => One(w) /\ (OpenAt(w) => Closing(w))
  /\ w \notin seen \cup seeded => Nowhere(w)
  /\ Closing(w) => w \in seen
  /\ w \in known => ~Queued({"new"}, w)

SettleInv == WindowTypeOK /\ PollsAreFresh /\ QueueOnce /\ \A w \in Windows : Path(w)

LEMMA SettleParts ==
  ASSUME WindowTypeOK
  PROVE  SettleInv <=> /\ WindowInOnePlace /\ PollsAreFresh /\ UnseenIsNowhere
                       /\ CommandsOnce
<1>1. WindowInOnePlace <=>
        \A w \in seen \cup seeded : One(w) /\ (OpenAt(w) => Closing(w))
  BY PlacesFact DEF WindowInOnePlace
<1>2. UnseenIsNowhere <=> /\ \A w \in Windows \ (seen \cup seeded) : Nowhere(w)
                          /\ \A w \in Windows : Closing(w) => w \in seen
  BY PlacesFact DEF UnseenIsNowhere
<1>3. CommandsOnce <=> QueueOnce /\ \A w \in known : ~Queued({"new"}, w)
  BY DEF CommandsOnce, QueueOnce
<1>4. seen \subseteq Windows /\ seeded \subseteq Windows /\ known \subseteq Windows
  BY DEF WindowTypeOK
<1> QED BY <1>1, <1>2, <1>3, <1>4 DEF SettleInv, Path

\* A command is queued.
LEMMA QueuedAppend ==
  ASSUME WindowTypeOK, NEW k, NEW v, [kind |-> k, w |-> v] \in Commands,
         commands' = Append(commands, [kind |-> k, w |-> v])
  PROVE  /\ commands' \in Seq(Commands)
         /\ \A kinds, w : Queued(kinds, w)' <=> Queued(kinds, w) \/ (w = v /\ k \in kinds)
         /\ /\ QueueOnce
            /\ k = "new" => ~Queued({"new"}, v) /\ ~Queued({"closed"}, v)
            /\ k \in Answers => ~Queued(Answers, v)
            => QueueOnce'
<1> DEFINE n == Len(commands)
           e == [kind |-> k, w |-> v]
<1>1. /\ commands' \in Seq(Commands) /\ n \in Nat
      /\ DOMAIN commands = 1..n /\ DOMAIN commands' = 1..(n + 1)
      /\ \A i \in 1..n : commands'[i] = commands[i]
      /\ commands'[n + 1] = e
  BY AppendFact DEF WindowTypeOK
<1>2. e.kind = k /\ e.w = v
  OBVIOUS
<1> HIDE DEF n, e
<1>3. ASSUME NEW kinds, NEW w
      PROVE  Queued(kinds, w)' <=> Queued(kinds, w) \/ (w = v /\ k \in kinds)
  <2>1. ASSUME NEW i \in 1..(n + 1), commands'[i].w = w, commands'[i].kind \in kinds
        PROVE  Queued(kinds, w) \/ (w = v /\ k \in kinds)
    <3>1. CASE i \in 1..n
      BY <1>1, <2>1, <3>1 DEF Queued
    <3>2. CASE i = n + 1
      BY <1>1, <1>2, <2>1, <3>2
    <3> QED BY <1>1, <3>1, <3>2
  <2>2. ASSUME NEW i \in 1..n, commands[i].w = w, commands[i].kind \in kinds
        PROVE  Queued(kinds, w)'
    <3>1. i \in 1..(n + 1) /\ commands'[i] = commands[i]
      BY <1>1
    <3> QED BY <1>1, <2>2, <3>1 DEF Queued
  <2>3. ASSUME w = v, k \in kinds PROVE Queued(kinds, w)'
    <3>1. n + 1 \in 1..(n + 1)
      BY <1>1
    <3> QED BY <1>1, <1>2, <2>3, <3>1 DEF Queued
  <2>4. Queued(kinds, w) => Queued(kinds, w)'
    BY <1>1, <2>2 DEF Queued
  <2>5. Queued(kinds, w)' => Queued(kinds, w) \/ (w = v /\ k \in kinds)
    BY <1>1, <2>1 DEF Queued
  <2> QED BY <2>3, <2>4, <2>5
<1>4. ASSUME QueueOnce, k = "new" => ~Queued({"new"}, v) /\ ~Queued({"closed"}, v),
             k \in Answers => ~Queued(Answers, v)
      PROVE  QueueOnce'
  <2> SUFFICES ASSUME NEW i \in 1..(n + 1), NEW h \in 1..(n + 1),
                      commands'[i].w = commands'[h].w
               PROVE  /\ commands'[i].kind = "new" /\ commands'[h].kind = "new" => i = h
                      /\ commands'[i].kind \in Answers /\ commands'[h].kind \in Answers => i = h
                      /\ commands'[i].kind = "new" /\ commands'[h].kind = "closed" => i < h
    BY <1>1 DEF QueueOnce
  <2>1. \A j \in 1..n : commands[j].w = v =>
          /\ k = "new" => commands[j].kind \notin {"new", "closed"}
          /\ k \in Answers => commands[j].kind \notin Answers
    BY <1>1, <1>4 DEF Queued
  <2>2. CASE i \in 1..n /\ h \in 1..n
    BY <1>1, <1>4, <2>2 DEF QueueOnce
  <2>3. CASE i = n + 1 /\ h = n + 1
    BY <1>1, <1>2, <2>3 DEF Answers
  <2>4. CASE i = n + 1 /\ h \in 1..n
    BY <1>1, <1>2, <2>1, <2>4 DEF Answers
  <2>5. CASE i \in 1..n /\ h = n + 1
    BY <1>1, <1>2, <2>1, <2>5 DEF Answers
  <2> QED BY <1>1, <2>2, <2>3, <2>4, <2>5
<1> QED BY <1>1, <1>3, <1>4

\* The runtime takes the oldest command.
LEMMA QueuedTake ==
  ASSUME WindowTypeOK, QueueOnce, NEW k, TakeCommand(k), NEW v, Head(commands).w = v
  PROVE  /\ commands' \in Seq(Commands) /\ QueueOnce' /\ v \in Windows
         /\ \A kinds, w : Queued(kinds, w) <=> Queued(kinds, w)' \/ (w = v /\ k \in kinds)
         /\ k \in {"new", "closed"} => ~Queued({"new"}, v)'
         /\ k \in Answers => ~Queued(Answers, v)'
<1> DEFINE n == Len(commands)
<1>1. /\ commands' \in Seq(Commands) /\ Head(commands) = commands[1] /\ n \in Nat \ {0}
      /\ DOMAIN commands = 1..n /\ DOMAIN commands' = 1..(n - 1)
      /\ \A i \in 1..(n - 1) : commands'[i] = commands[i + 1]
      /\ Head(commands) \in Commands /\ 1 \in 1..n
  BY TailFact DEF WindowTypeOK, TakeCommand
<1>2. commands[1].kind = k /\ commands[1].w = v /\ v \in Windows
  BY <1>1 DEF TakeCommand, Commands
<1> HIDE DEF n
<1>3. \A i \in 1..(n - 1) : i + 1 \in 1..n /\ commands'[i] = commands[i + 1]
  BY <1>1
<1>4. QueueOnce'
  <2> SUFFICES ASSUME NEW i \in 1..(n - 1), NEW h \in 1..(n - 1),
                      commands'[i].w = commands'[h].w
               PROVE  /\ commands'[i].kind = "new" /\ commands'[h].kind = "new" => i = h
                      /\ commands'[i].kind \in Answers /\ commands'[h].kind \in Answers => i = h
                      /\ commands'[i].kind = "new" /\ commands'[h].kind = "closed" => i < h
    BY <1>1 DEF QueueOnce
  <2>1. commands[i + 1].w = commands[h + 1].w
    BY <1>3
  <2>2. /\ commands[i + 1].kind = "new" /\ commands[h + 1].kind = "new" => i + 1 = h + 1
        /\ commands[i + 1].kind \in Answers /\ commands[h + 1].kind \in Answers => i + 1 = h + 1
        /\ commands[i + 1].kind = "new" /\ commands[h + 1].kind = "closed" => i + 1 < h + 1
    BY <1>1, <1>3, <2>1 DEF QueueOnce
  <2> QED BY <1>1, <1>3, <2>2
<1>5. ASSUME NEW kinds, NEW w
      PROVE  Queued(kinds, w) <=> Queued(kinds, w)' \/ (w = v /\ k \in kinds)
  <2>1. ASSUME NEW i \in 1..n, commands[i].w = w, commands[i].kind \in kinds
        PROVE  Queued(kinds, w)' \/ (w = v /\ k \in kinds)
    <3>1. CASE i = 1
      BY <1>2, <2>1, <3>1
    <3>2. CASE i # 1
      <4>1. i - 1 \in 1..(n - 1) /\ (i - 1) + 1 = i
        BY <1>1, <3>2
      <4>2. commands'[i - 1] = commands[i]
        BY <1>3, <4>1
      <4> QED BY <1>1, <2>1, <4>1, <4>2 DEF Queued
    <3> QED BY <3>1, <3>2
  <2>2. ASSUME NEW i \in 1..(n - 1), commands'[i].w = w, commands'[i].kind \in kinds
        PROVE  Queued(kinds, w)
    BY <1>1, <1>3, <2>2 DEF Queued
  <2>3. Queued(kinds, w) => Queued(kinds, w)' \/ (w = v /\ k \in kinds)
    BY <1>1, <2>1 DEF Queued
  <2>4. Queued(kinds, w)' => Queued(kinds, w)
    BY <1>1, <2>2 DEF Queued
  <2>5. w = v /\ k \in kinds => Queued(kinds, w)
    BY <1>1, <1>2 DEF Queued
  <2> QED BY <2>3, <2>4, <2>5
<1>6. \A i \in 1..(n - 1) : commands'[i].w = v =>
        /\ k \in {"new", "closed"} => commands'[i].kind # "new"
        /\ k \in Answers => commands'[i].kind \notin Answers
  <2> SUFFICES ASSUME NEW i \in 1..(n - 1), commands'[i].w = v
               PROVE  /\ k \in {"new", "closed"} => commands'[i].kind # "new"
                      /\ k \in Answers => commands'[i].kind \notin Answers
    OBVIOUS
  <2>1. i + 1 \in 1..n /\ commands[i + 1].w = commands[1].w /\ i + 1 # 1 /\ ~(i + 1 < 1)
    BY <1>1, <1>2, <1>3
  <2>2. /\ commands[i + 1].kind = "new" /\ commands[1].kind = "new" => i + 1 = 1
        /\ commands[i + 1].kind \in Answers /\ commands[1].kind \in Answers => i + 1 = 1
        /\ commands[i + 1].kind = "new" /\ commands[1].kind = "closed" => i + 1 < 1
    BY <1>1, <2>1 DEF QueueOnce
  <2> QED BY <1>2, <1>3, <2>1, <2>2
<1>7. /\ k \in {"new", "closed"} => ~Queued({"new"}, v)'
      /\ k \in Answers => ~Queued(Answers, v)'
  BY <1>1, <1>6 DEF Queued
<1> QED BY <1>1, <1>2, <1>4, <1>5, <1>7

\* Nothing happens to a window.
SameAt(w) ==
  /\ Queued({"new"}, w)' <=> Queued({"new"}, w)
  /\ Queued(Answers, w)' <=> Queued(Answers, w)
  /\ Closing(w)' <=> Closing(w)
  /\ w \in known' <=> w \in known
  /\ w \in pending' <=> w \in pending
  /\ w \in fetches' <=> w \in fetches
  /\ w \in settled' <=> w \in settled
  /\ w \in dropped' <=> w \in dropped
  /\ w \in seen' <=> w \in seen

LEMMA SamePath ==
  ASSUME NEW w, Path(w), SameAt(w), UNCHANGED seeded
  PROVE  Path(w)'
BY DEF SameAt, Path, One, Nowhere, OpenAt

\* The queue and the timers do not change: neither does what is on its way.
LEMMA QuietQueue ==
  ASSUME UNCHANGED << commands, timers >>, NEW w
  PROVE  /\ \A kinds : Queued(kinds, w)' <=> Queued(kinds, w)
         /\ Closing(w)' <=> Closing(w)
         /\ QueueOnce' <=> QueueOnce
BY DEF Queued, Closing, QueueOnce

-----------------------------------------------------------------------------
(***************************************************************************)
(* Discovery and time.                                                     *)
(***************************************************************************)
LEMMA EndFact ==
  ASSUME NEW w \in Int
  PROVE  End(w) \in Int /\ Start(w) \in Int
BY DEF End, Start

\* The slot of a moment, and the one after it, end after it.
LEMMA SlotFact ==
  ASSUME NEW t \in Nat
  PROVE  Slot(t) \in Nat /\ End(Slot(t)) > t /\ End(Slot(t) + 1) > t
<1> DEFINE q == t \div Span
<1>1. q \in Nat /\ t < (q + 1) * Span
  OBVIOUS
<1>2. (q + 2) * Span = (q + 1) * Span + Span
  BY <1>1
<1>3. Slot(t) = q + 1 /\ Slot(t) + 1 = q + 2
  BY <1>1 DEF Slot
<1>4. (q + 1) * Span \in Nat
  BY <1>1
<1> HIDE DEF q
<1> QED BY <1>1, <1>2, <1>3, <1>4 DEF End

LEMMA ClosesFact ==
  ASSUME WindowTypeOK, NEW w \in Windows, End(w) > discovery.epoch
  PROVE  \E t \in Timers : t.kind = "closed" /\ t.w = w /\ Closes(w) = {t}
<1> DEFINE x == End(w) - discovery.epoch
           t == [kind |-> "closed", w |-> w, at |-> now + x]
<1>1. now \in Nat /\ discovery.epoch \in Nat /\ End(w) \in Int
  BY EndFact DEF WindowTypeOK, Windows
<1>2. x \in Nat /\ x > 0
  BY <1>1
<1>3. Closes(w) = {t}
  BY <1>2 DEF Closes
<1>4. now + x \in Nat
  BY <1>1, <1>2
<1> HIDE DEF x
<1>5. t \in Timers /\ t.kind = "closed" /\ t.w = w
  BY <1>4 DEF Timers
<1> QED BY <1>3, <1>5

LEMMA PollSafe ==
  ASSUME SettleInv, Poll
  PROVE  SettleInv'
<1> DEFINE a == Slot(now)
           b == Slot(now) + 1
           s == Unfound(a) \o Unfound(b)
<1>1. /\ WindowTypeOK /\ now \in Nat /\ now \in 0..Horizon /\ PollsAreFresh /\ QueueOnce
      /\ seeded \subseteq Windows
  BY DEF SettleInv, WindowTypeOK
<1>2. a \in Nat /\ b \in Nat /\ a # b /\ End(a) > now /\ End(b) > now
  BY <1>1, SlotFact
<1>3. discovery' = [slots |-> s, epoch |-> now]
  BY DEF Poll
<1> HIDE DEF a, b
<1>4. /\ s \in Seq(Windows)
      /\ \A i \in DOMAIN s : s[i] \in {a, b} /\ s[i] \notin seen
      /\ \A i, k \in DOMAIN s : s[i] = s[k] => i = k
  <2>1. CASE a \in Windows \ seen /\ b \in Windows \ seen
    <3>1. s = << a >> \o << b >>
      BY <2>1 DEF Unfound
    <3>2. << a >> \in Seq(Windows) /\ << b >> \in Seq(Windows)
      BY <2>1
    <3>3. /\ s \in Seq(Windows) /\ Len(s) = 2 /\ DOMAIN s = 1..2 /\ s[1] = a /\ s[2] = b
      BY <3>1, <3>2
    <3> HIDE DEF s
    <3> QED BY <1>2, <2>1, <3>3
  <2>2. CASE a \in Windows \ seen /\ b \notin Windows \ seen
    <3>1. s = << a >> \o << >>
      BY <2>2 DEF Unfound
    <3>2. << a >> \in Seq(Windows) /\ << >> \in Seq(Windows)
      BY <2>2
    <3>3. s \in Seq(Windows) /\ Len(s) = 1 /\ DOMAIN s = 1..1 /\ s[1] = a
      BY <3>1, <3>2
    <3> HIDE DEF s
    <3> QED BY <2>2, <3>3
  <2>3. CASE a \notin Windows \ seen /\ b \in Windows \ seen
    <3>1. s = << >> \o << b >>
      BY <2>3 DEF Unfound
    <3>2. << >> \in Seq(Windows) /\ << b >> \in Seq(Windows)
      BY <2>3
    <3>3. s \in Seq(Windows) /\ Len(s) = 1 /\ DOMAIN s = 1..1 /\ s[1] = b
      BY <3>1, <3>2
    <3> HIDE DEF s
    <3> QED BY <2>3, <3>3
  <2>4. CASE a \notin Windows \ seen /\ b \notin Windows \ seen
    <3>1. s = << >>
      BY <2>4 DEF Unfound
    <3> QED BY <3>1
  <2> QED BY <2>1, <2>2, <2>3, <2>4
<1>5. a \notin seeded /\ b \notin seeded
  BY <1>1, <1>2, EndFact DEF PollsAreFresh
<1>6. discovery'.slots = s /\ discovery'.epoch = now
  BY <1>3
<1> HIDE DEF s
<1>7. PollsAreFresh' /\ WindowTypeOK'
  <2>1. UNCHANGED << now, seen, seeded, timers, commands, known, pending, fetches,
                     settled, dropped >>
    BY DEF Poll, runtime
  <2>2. PollsAreFresh'
    BY <1>1, <1>2, <1>4, <1>5, <1>6, <2>1 DEF PollsAreFresh, End
  <2> QED BY <1>1, <1>3, <1>4, <2>1, <2>2 DEF WindowTypeOK
<1>8. \A w \in Windows : Path(w)'
  BY QuietQueue, SamePath DEF SettleInv, SameAt, Poll, runtime
<1> QED BY <1>1, <1>7, <1>8, QuietQueue DEF SettleInv, Poll

\* The poll goes on with the next slot.
LEMMA NextSlotFact ==
  ASSUME WindowTypeOK, PollsAreFresh, discovery.slots # << >>, UNCHANGED << now, seeded >>,
         discovery' = [discovery EXCEPT !.slots = Tail(@)],
         seen' = seen \/ seen' = seen \cup {Head(discovery.slots)}
  PROVE  /\ PollsAreFresh' /\ discovery' \in [slots : Seq(Windows), epoch : 0..Horizon]
         /\ Head(discovery.slots) \in Windows \ (seen \cup seeded)
         /\ End(Head(discovery.slots)) > discovery.epoch
<1> DEFINE s == discovery.slots
           n == Len(s)
<1>1. s \in Seq(Windows) /\ discovery.epoch \in 0..Horizon
      /\ discovery \in [slots : Seq(Windows), epoch : 0..Horizon]
  BY DEF WindowTypeOK
<1>2. /\ Tail(s) \in Seq(Windows) /\ Head(s) \in Windows /\ Head(s) = s[1]
      /\ n \in Nat \ {0} /\ DOMAIN s = 1..n /\ DOMAIN Tail(s) = 1..(n - 1)
      /\ \A i \in 1..(n - 1) : Tail(s)[i] = s[i + 1]
  BY <1>1, TailFact
<1>3. discovery'.slots = Tail(s) /\ discovery'.epoch = discovery.epoch
      /\ discovery' \in [slots : Seq(Windows), epoch : 0..Horizon]
  BY <1>1, <1>2
<1>4. 1 \in DOMAIN s /\ \A i \in 1..(n - 1) : i + 1 \in DOMAIN s /\ i + 1 # 1
  BY <1>2
<1>5. /\ \A i \in DOMAIN s : s[i] \notin seen \cup seeded /\ End(s[i]) > discovery.epoch
      /\ \A i, k \in DOMAIN s : s[i] = s[k] => i = k
  BY DEF PollsAreFresh
<1>6. Head(s) \in Windows \ (seen \cup seeded) /\ End(Head(s)) > discovery.epoch
  BY <1>2, <1>4, <1>5
<1>a. seen' \subseteq seen \cup {Head(s)}
  OBVIOUS
<1> HIDE DEF s, n
<1>7. \A i \in 1..(n - 1) : /\ Tail(s)[i] \notin seen' \cup seeded
                            /\ End(Tail(s)[i]) > discovery.epoch
  <2> SUFFICES ASSUME NEW i \in 1..(n - 1)
               PROVE  Tail(s)[i] \notin seen' \cup seeded /\ End(Tail(s)[i]) > discovery.epoch
    OBVIOUS
  <2>1. Tail(s)[i] = s[i + 1] /\ i + 1 \in DOMAIN s /\ i + 1 # 1 /\ 1 \in DOMAIN s
    BY <1>2, <1>4
  <2>2. s[i + 1] # s[1]
    BY <1>5, <2>1
  <2> QED BY <1>2, <1>5, <1>a, <2>1, <2>2
<1>8. \A i, k \in 1..(n - 1) : Tail(s)[i] = Tail(s)[k] => i = k
  <2> SUFFICES ASSUME NEW i \in 1..(n - 1), NEW k \in 1..(n - 1), Tail(s)[i] = Tail(s)[k]
               PROVE  i = k
    OBVIOUS
  <2>1. i + 1 = k + 1
    BY <1>2, <1>4, <1>5
  <2> QED BY <1>2, <2>1
<1>9. PollsAreFresh'
  <2>1. \A w \in seeded : End(w) <= now
    BY DEF PollsAreFresh
  <2>2. DOMAIN discovery'.slots = 1..(n - 1) /\ seeded' = seeded /\ now' = now
    BY <1>2, <1>3
  <2>3. \A i \in DOMAIN discovery'.slots :
          /\ discovery'.slots[i] \notin seen' \cup seeded'
          /\ End(discovery'.slots[i]) > discovery'.epoch
    BY <1>3, <1>7, <2>2
  <2>4. \A i, k \in DOMAIN discovery'.slots : discovery'.slots[i] = discovery'.slots[k] => i = k
    <3> SUFFICES ASSUME NEW i \in DOMAIN discovery'.slots, NEW k \in DOMAIN discovery'.slots,
                        discovery'.slots[i] = discovery'.slots[k]
                 PROVE  i = k
      OBVIOUS
    <3>1. i \in 1..(n - 1) /\ k \in 1..(n - 1)
      BY <2>2
    <3>2. Tail(s)[i] = Tail(s)[k]
      BY <1>3
    <3> QED BY <1>8, <3>1, <3>2
  <2>5. \A w \in seeded' : End(w) <= now'
    BY <2>1, <2>2
  <2> QED BY <2>3, <2>4, <2>5, Zenon DEF PollsAreFresh
<1> QED BY <1>3, <1>6, <1>9 DEF s

LEMMA DiscoverSafe ==
  ASSUME SettleInv, Discover
  PROVE  SettleInv'
<1>1. PICK w : w = Head(discovery.slots)
  OBVIOUS
<1>2. /\ WindowTypeOK /\ PollsAreFresh /\ QueueOnce /\ discovery.slots # << >>
      /\ UNCHANGED << now, seeded, known, pending, fetches, settled, dropped >>
      /\ seen' = seen \cup {w} /\ timers' = timers \cup Closes(w)
      /\ commands' = Append(commands, [kind |-> "new", w |-> w])
      /\ discovery' = [discovery EXCEPT !.slots = Tail(@)]
  BY <1>1 DEF SettleInv, Discover, runtime
<1>3. /\ PollsAreFresh' /\ discovery' \in [slots : Seq(Windows), epoch : 0..Horizon]
      /\ w \in Windows \ (seen \cup seeded) /\ End(w) > discovery.epoch
  BY <1>1, <1>2, NextSlotFact
<1>4. PICK t \in Timers : t.kind = "closed" /\ t.w = w /\ Closes(w) = {t}
  BY <1>2, <1>3, ClosesFact
<1>5. [kind |-> "new", w |-> w] \in Commands
  BY <1>3 DEF Commands
<1>6. Path(w) /\ Nowhere(w) /\ ~Closing(w)
  BY <1>3 DEF SettleInv, Path
<1>7. ~Queued({"new"}, w) /\ ~Queued({"closed"}, w) /\ w \notin known
  BY <1>6 DEF Nowhere, OpenAt, Closing
<1>8. /\ commands' \in Seq(Commands) /\ QueueOnce'
      /\ \A kinds, v : Queued(kinds, v)' <=> Queued(kinds, v) \/ (v = w /\ "new" \in kinds)
  BY <1>2, <1>5, <1>7, QueuedAppend DEF Answers
<1>9. \A v : Closing(v)' <=> Closing(v) \/ v = w
  BY <1>2, <1>4, <1>8 DEF Closing
<1>10. WindowTypeOK'
  BY <1>2, <1>3, <1>4, <1>8 DEF WindowTypeOK
<1>11. Path(w)'
  BY <1>2, <1>3, <1>6, <1>7, <1>8, <1>9 DEF Path, One, Nowhere, OpenAt, Answers
<1>12. ASSUME NEW v \in Windows, v # w PROVE Path(v)'
  BY <1>2, <1>8, <1>9, <1>12, SamePath DEF SettleInv, SameAt
<1> QED BY <1>3, <1>8, <1>10, <1>11, <1>12 DEF SettleInv

LEMMA NotFoundSafe ==
  ASSUME SettleInv, NotFound
  PROVE  SettleInv'
<1>1. /\ WindowTypeOK /\ PollsAreFresh /\ QueueOnce /\ discovery.slots # << >>
      /\ UNCHANGED << now, seeded, seen, timers, commands, known, pending, fetches,
                      settled, dropped >>
      /\ discovery' = [discovery EXCEPT !.slots = Tail(@)]
  BY DEF SettleInv, NotFound, runtime
<1>2. PollsAreFresh' /\ discovery' \in [slots : Seq(Windows), epoch : 0..Horizon]
  BY <1>1, NextSlotFact
<1>3. WindowTypeOK'
  BY <1>1, <1>2 DEF WindowTypeOK
<1>4. \A v \in Windows : Path(v)'
  BY <1>1, QuietQueue, SamePath DEF SettleInv, SameAt
<1> QED BY <1>1, <1>2, <1>3, <1>4, QuietQueue DEF SettleInv

LEMMA TickSafe ==
  ASSUME SettleInv, Tick
  PROVE  SettleInv'
<1>1. /\ WindowTypeOK /\ PollsAreFresh /\ QueueOnce /\ now < Horizon /\ now' = now + 1
      /\ UNCHANGED << discovery, seeded, seen, timers, commands, known, pending,
                      fetches, settled, dropped >>
  BY DEF SettleInv, Tick, runtime, discoveryVars
<1>2. WindowTypeOK'
  BY <1>1 DEF WindowTypeOK
<1>3. \A w \in seeded : End(w) \in Int
  BY <1>1, EndFact DEF WindowTypeOK, Windows
<1>4. PollsAreFresh'
  BY <1>1, <1>3 DEF PollsAreFresh, WindowTypeOK, End
<1>5. \A v \in Windows : Path(v)'
  BY <1>1, QuietQueue, SamePath DEF SettleInv, SameAt
<1> QED BY <1>1, <1>2, <1>4, <1>5, QuietQueue DEF SettleInv

LEMMA TimerFiresSafe ==
  ASSUME SettleInv, TimerFires
  PROVE  SettleInv'
<1>1. PICK t \in timers : /\ timers' = timers \ {t}
                          /\ commands' = Append(commands, [kind |-> t.kind, w |-> t.w])
  BY DEF TimerFires
<1>2. /\ WindowTypeOK /\ PollsAreFresh /\ QueueOnce
      /\ UNCHANGED << now, discovery, seeded, seen, known, pending, fetches, settled,
                      dropped >>
  BY DEF SettleInv, TimerFires, runtime, discoveryVars
<1>3. /\ t.kind \in {"activate", "closed"} /\ t.w \in Windows
      /\ [kind |-> t.kind, w |-> t.w] \in Commands
  BY <1>1, <1>2 DEF WindowTypeOK, Timers, Commands
<1>4. /\ commands' \in Seq(Commands) /\ QueueOnce'
      /\ \A kinds, v : Queued(kinds, v)' <=> Queued(kinds, v) \/ (v = t.w /\ t.kind \in kinds)
  BY <1>1, <1>2, <1>3, QueuedAppend DEF Answers
<1>5. \A v : Closing(v)' <=> Closing(v)
  <2> SUFFICES ASSUME NEW v PROVE Closing(v)' <=> Closing(v)
    OBVIOUS
  <2>1. Queued({"closed"}, v)' <=> Queued({"closed"}, v) \/ (v = t.w /\ t.kind = "closed")
    BY <1>4
  <2> QED BY <1>1, <2>1 DEF Closing
<1>6. WindowTypeOK'
  BY <1>1, <1>2, <1>4 DEF WindowTypeOK
<1>7. PollsAreFresh'
  BY <1>2 DEF PollsAreFresh, End
<1>8. \A v \in Windows : Path(v)'
  BY <1>2, <1>3, <1>4, <1>5, SamePath DEF SettleInv, SameAt, Answers
<1> QED BY <1>4, <1>6, <1>7, <1>8 DEF SettleInv

-----------------------------------------------------------------------------
(***************************************************************************)
(* The runtime.                                                            *)
(***************************************************************************)

\* What a step of the runtime leaves alone of the windows.
LEMMA QuietPolls ==
  ASSUME PollsAreFresh, UNCHANGED << now, discovery, seen, seeded >>
  PROVE  PollsAreFresh'
BY DEF PollsAreFresh, End

LEMMA NewWindowSafe ==
  ASSUME SettleInv, NewWindow
  PROVE  SettleInv'
<1>1. PICK v : v = Head(commands).w
  OBVIOUS
<1>2. /\ WindowTypeOK /\ PollsAreFresh /\ QueueOnce /\ TakeCommand("new")
      /\ UNCHANGED << now, discovery, seeded, seen, pending, fetches, settled,
                      dropped >>
      /\ known' = known \cup {v}
      /\ \/ UNCHANGED timers
         \/ /\ Start(v) > now
            /\ timers' = timers \cup {[kind |-> "activate", w |-> v, at |-> Start(v)]}
  BY <1>1 DEF SettleInv, NewWindow, discoveryVars
<1>3. /\ commands' \in Seq(Commands) /\ QueueOnce' /\ v \in Windows
      /\ \A kinds, w : Queued(kinds, w) <=> Queued(kinds, w)' \/ (w = v /\ "new" \in kinds)
      /\ ~Queued({"new"}, v)'
  BY <1>1, <1>2, QueuedTake
<1>4. timers' \subseteq Timers /\ \A t \in timers' : t \in timers \/ t.kind = "activate"
  <2>1. CASE UNCHANGED timers
    BY <1>2, <2>1 DEF WindowTypeOK
  <2>2. CASE /\ Start(v) > now
             /\ timers' = timers \cup {[kind |-> "activate", w |-> v, at |-> Start(v)]}
    <3>a. now \in Nat
      BY <1>2 DEF WindowTypeOK
    <3>c. v \in Int
      BY <1>3 DEF Windows
    <3>b. Start(v) \in Int
      BY <3>c, EndFact
    <3>1. Start(v) \in Nat
      BY <2>2, <3>a, <3>b
    <3> QED BY <1>2, <1>3, <2>2, <3>1 DEF WindowTypeOK, Timers
  <2> QED BY <1>2, <2>1, <2>2
<1>5. \A w : Closing(w)' <=> Closing(w)
  <2> SUFFICES ASSUME NEW w PROVE Closing(w)' <=> Closing(w)
    OBVIOUS
  <2>1. Queued({"closed"}, w)' <=> Queued({"closed"}, w)
    BY <1>3
  <2>2. timers \subseteq timers'
    BY <1>2
  <2> QED BY <1>4, <2>1, <2>2 DEF Closing
<1>6. WindowTypeOK'
  BY <1>2, <1>3, <1>4 DEF WindowTypeOK
<1>7. Path(v)'
  <2>1. Path(v) /\ OpenAt(v)
    BY <1>3 DEF SettleInv, OpenAt
  <2>2. v \in known' /\ ~Queued({"new"}, v)' /\ (Queued(Answers, v)' <=> Queued(Answers, v))
    BY <1>2, <1>3 DEF Answers
  <2> QED BY <1>2, <1>5, <2>1, <2>2 DEF Path, One, Nowhere, OpenAt
<1>8. ASSUME NEW w \in Windows, w # v PROVE Path(w)'
  BY <1>2, <1>3, <1>5, <1>8, SamePath DEF SettleInv, SameAt
<1> QED BY <1>2, <1>3, <1>6, <1>7, <1>8, QuietPolls DEF SettleInv

LEMMA ActivateWindowSafe ==
  ASSUME SettleInv, ActivateWindow
  PROVE  SettleInv'
<1>1. PICK v : v = Head(commands).w
  OBVIOUS
<1>2. /\ WindowTypeOK /\ PollsAreFresh /\ QueueOnce /\ TakeCommand("activate")
      /\ UNCHANGED << now, discovery, seeded, seen, timers, known, pending, fetches,
                      settled, dropped >>
  BY <1>1 DEF SettleInv, ActivateWindow, discoveryVars
<1>3. /\ commands' \in Seq(Commands) /\ QueueOnce'
      /\ \A kinds, w : Queued(kinds, w) <=> Queued(kinds, w)' \/ (w = v /\ "activate" \in kinds)
  BY <1>1, <1>2, QueuedTake
<1>4. \A w : Closing(w)' <=> Closing(w)
  BY <1>2, <1>3 DEF Closing
<1>5. WindowTypeOK'
  BY <1>2, <1>3 DEF WindowTypeOK
<1>6. \A w \in Windows : Path(w)'
  BY <1>2, <1>3, <1>4, SamePath DEF SettleInv, SameAt, Answers
<1> QED BY <1>2, <1>3, <1>5, <1>6, QuietPolls DEF SettleInv

\* A window that is closed goes to the registry of unsettled markets.
LEMMA WindowClosedSafe ==
  ASSUME SettleInv, WindowClosed
  PROVE  SettleInv'
<1>1. PICK v : v = Head(commands).w
  OBVIOUS
<1>2. /\ WindowTypeOK /\ PollsAreFresh /\ QueueOnce /\ TakeCommand("closed")
      /\ UNCHANGED << now, discovery, seeded, seen, timers, fetches, settled, dropped >>
      /\ known' = known \ {v}
      /\ pending' = IF v \in known THEN pending \cup {v} ELSE pending
  BY <1>1 DEF SettleInv, WindowClosed, discoveryVars, schedule_pending_resolution
<1>3. /\ commands' \in Seq(Commands) /\ QueueOnce' /\ v \in Windows
      /\ \A kinds, w : Queued(kinds, w) <=> Queued(kinds, w)' \/ (w = v /\ "closed" \in kinds)
      /\ ~Queued({"new"}, v)'
  BY <1>1, <1>2, QueuedTake
<1>4. \A w : (Closing(w)' => Closing(w)) /\ (w # v => (Closing(w)' <=> Closing(w)))
  BY <1>2, <1>3 DEF Closing
<1>5. WindowTypeOK'
  BY <1>2, <1>3 DEF WindowTypeOK
<1>6. Path(v)'
  <2>1. Path(v) /\ ~Queued({"new"}, v)
    BY <1>3 DEF SettleInv
  <2>2. v \notin known' /\ (Queued(Answers, v)' <=> Queued(Answers, v))
    BY <1>2, <1>3 DEF Answers
  <2>3. v \in pending' <=> v \in pending \/ v \in known
    BY <1>2
  <2> QED BY <1>2, <1>3, <1>4, <2>1, <2>2, <2>3 DEF Path, One, Nowhere, OpenAt
<1>7. ASSUME NEW w \in Windows, w # v PROVE Path(w)'
  <2>1. (w \in pending' <=> w \in pending) /\ (w \in known' <=> w \in known)
    BY <1>2, <1>7
  <2> QED BY <1>2, <1>3, <1>4, <1>7, <2>1, SamePath DEF SettleInv, SameAt
<1> QED BY <1>2, <1>3, <1>5, <1>6, <1>7, QuietPolls DEF SettleInv

LEMMA RetrySafe ==
  ASSUME SettleInv, NEW v \in Windows, ResolutionRetry(v)
  PROVE  SettleInv'
<1>1. /\ WindowTypeOK /\ PollsAreFresh /\ QueueOnce
      /\ UNCHANGED << now, discovery, seeded, seen, timers, commands, known, settled,
                      dropped >>
      /\ v \in pending /\ pending' = pending \ {v} /\ fetches' = fetches \cup {v}
  BY DEF SettleInv, ResolutionRetry, discoveryVars, take_ready_pending_resolutions
<1>2. WindowTypeOK'
  BY <1>1 DEF WindowTypeOK
<1>3. Path(v)'
  BY <1>1, QuietQueue DEF SettleInv, Path, One, Nowhere, OpenAt
<1>4. ASSUME NEW w \in Windows, w # v PROVE Path(w)'
  BY <1>1, <1>4, QuietQueue, SamePath DEF SettleInv, SameAt
<1> QED BY <1>1, <1>2, <1>3, <1>4, QuietPolls, QuietQueue DEF SettleInv

LEMMA FetchAnswersSafe ==
  ASSUME SettleInv, NEW v \in Windows, NEW k \in Answers, FetchAnswers(v, k)
  PROVE  SettleInv'
<1>1. /\ WindowTypeOK /\ PollsAreFresh /\ QueueOnce
      /\ UNCHANGED << now, discovery, seeded, seen, timers, known, pending, settled,
                      dropped >>
      /\ v \in fetches /\ fetches' = fetches \ {v}
      /\ commands' = Append(commands, [kind |-> k, w |-> v])
  BY DEF SettleInv, FetchAnswers, discoveryVars, runtime
<1>2. [kind |-> k, w |-> v] \in Commands /\ k \notin {"new", "closed"}
  BY DEF Commands, Answers
<1>3. Path(v) /\ ~Queued(Answers, v) /\ ~OpenAt(v) /\ v \notin pending /\ v \notin settled
      /\ v \notin dropped /\ v \in seen \cup seeded
  BY <1>1 DEF SettleInv, Path, One, Nowhere
<1>4. /\ commands' \in Seq(Commands) /\ QueueOnce'
      /\ \A kinds, w : Queued(kinds, w)' <=> Queued(kinds, w) \/ (w = v /\ k \in kinds)
  BY <1>1, <1>2, <1>3, QueuedAppend
<1>5. \A w : Closing(w)' <=> Closing(w)
  BY <1>1, <1>2, <1>4 DEF Closing
<1>6. WindowTypeOK'
  BY <1>1, <1>4 DEF WindowTypeOK
<1>7. Path(v)'
  <2>1. Queued(Answers, v)' /\ ~OpenAt(v)'
    BY <1>1, <1>2, <1>3, <1>4 DEF OpenAt
  <2> QED BY <1>1, <1>3, <1>5, <2>1 DEF Path, One, Nowhere, OpenAt
<1>8. ASSUME NEW w \in Windows, w # v PROVE Path(w)'
  BY <1>1, <1>4, <1>5, <1>8, SamePath DEF SettleInv, SameAt
<1> QED BY <1>1, <1>4, <1>6, <1>7, <1>8, QuietPolls DEF SettleInv

\* An answer settles the market, is refused by the mailbox, or puts it back.
LEMMA AnswerSafe ==
  ASSUME SettleInv, Resolved \/ Unresolved
  PROVE  SettleInv'
<1>1. PICK v : v = Head(commands).w
  OBVIOUS
<1>2. PICK k \in Answers :
        /\ TakeCommand(k)
        /\ \/ settled' = settled \cup {v} /\ UNCHANGED << pending, dropped >>
           \/ dropped' = dropped \cup {v} /\ UNCHANGED << pending, settled >>
           \/ pending' = pending \cup {v} /\ UNCHANGED << settled, dropped >>
  BY <1>1 DEF Resolved, Unresolved, Answers, try_send
<1>3. /\ WindowTypeOK /\ PollsAreFresh /\ QueueOnce
      /\ UNCHANGED << now, discovery, seeded, seen, timers, known, fetches >>
  BY DEF SettleInv, Resolved, Unresolved, discoveryVars
<1>4. /\ commands' \in Seq(Commands) /\ QueueOnce' /\ v \in Windows
      /\ \A kinds, w : Queued(kinds, w) <=> Queued(kinds, w)' \/ (w = v /\ k \in kinds)
      /\ ~Queued(Answers, v)'
  BY <1>1, <1>2, <1>3, QueuedTake
<1>5. k \notin {"new", "closed"}
  BY DEF Answers
<1>6. \A w : Closing(w)' <=> Closing(w)
  BY <1>3, <1>4, <1>5 DEF Closing
<1>7. WindowTypeOK'
  BY <1>2, <1>3, <1>4 DEF WindowTypeOK
<1>8. Path(v)'
  <2>1. Path(v) /\ Queued(Answers, v)
    BY <1>4 DEF SettleInv
  <2>2. /\ v \in seen \cup seeded /\ ~OpenAt(v)
        /\ v \notin pending /\ v \notin fetches /\ v \notin settled /\ v \notin dropped
    BY <2>1 DEF Path, One, Nowhere
  <2>3. ~OpenAt(v)'
    BY <1>3, <1>4, <2>2 DEF OpenAt
  <2> QED BY <1>2, <1>3, <1>4, <1>6, <2>1, <2>2, <2>3 DEF Path, One, Nowhere, OpenAt
<1>9. ASSUME NEW w \in Windows, w # v PROVE Path(w)'
  <2>1. (w \in pending' <=> w \in pending) /\ (w \in settled' <=> w \in settled)
        /\ (w \in dropped' <=> w \in dropped)
    BY <1>2, <1>9
  <2> QED BY <1>3, <1>4, <1>6, <1>9, <2>1, SamePath DEF SettleInv, SameAt
<1> QED BY <1>3, <1>4, <1>7, <1>8, <1>9, QuietPolls DEF SettleInv

LEMMA SettleSteady ==
  ASSUME SettleInv, UNCHANGED << now, discovery, seen, seeded, timers, commands, known,
                                 pending, fetches, settled, dropped >>
  PROVE  SettleInv'
<1>1. WindowTypeOK' /\ PollsAreFresh'
  BY QuietPolls DEF SettleInv, WindowTypeOK
<1>2. \A w \in Windows : Path(w)'
  BY QuietQueue, SamePath DEF SettleInv, SameAt
<1> QED BY <1>1, <1>2, QuietQueue DEF SettleInv

-----------------------------------------------------------------------------
(***************************************************************************)
(* The specification.                                                      *)
(***************************************************************************)
FeedAction ==
  \/ FeedStarts \/ Connects \/ ConnectFails \/ Disconnects \/ Wakes \/ Resubscribes
  \/ ProcessMessage \/ HandleFeed \/ \E w \in Windows : SendResubscribe(w)

WindowAction ==
  \/ Poll \/ Discover \/ NotFound \/ TimerFires \/ Tick
  \/ NewWindow \/ ActivateWindow \/ WindowClosed \/ Resolved \/ Unresolved
  \/ \E w \in Windows : \/ ResolutionRetry(w)
                        \/ FetchAnswers(w, "resolved") \/ FetchAnswers(w, "unresolved")

LEMMA FeedActionSafe ==
  ASSUME SettleInv, HealthInv, FeedAction
  PROVE  SettleInv' /\ HealthInv'
<1>1. UNCHANGED << now, discovery, seen, seeded, timers, commands, known, pending, fetches,
                   settled, dropped >>
  BY DEF FeedAction, FeedStarts, Connects, ConnectFails, Disconnects, Wakes, Resubscribes,
         ProcessMessage, Quote, Lost, HandleFeed, SendResubscribe, FeedStep, runtime,
         discoveryVars
<1>2. SettleInv'
  BY <1>1, SettleSteady
<1>3. HealthInv'
  BY FeedStepsSafe, QuoteSafe, HandleFact, SendSafe DEF FeedAction, SettleInv
<1> QED BY <1>2, <1>3

LEMMA WindowActionSafe ==
  ASSUME SettleInv, HealthInv, WindowAction
  PROVE  SettleInv' /\ HealthInv'
<1>1. SettleInv'
  BY PollSafe, DiscoverSafe, NotFoundSafe, TimerFiresSafe, TickSafe, NewWindowSafe,
     ActivateWindowSafe, WindowClosedSafe, AnswerSafe, RetrySafe, FetchAnswersSafe
     DEF WindowAction, Answers
<1>2. UNCHANGED << messages, feed, resubs, down >>
  BY DEF WindowAction, Poll, Discover, NotFound, TimerFires, Tick, NewWindow, ActivateWindow,
         WindowClosed, Resolved, Unresolved, ResolutionRetry, FetchAnswers, runtime
<1>3. FeedTypeOK /\ WindowTypeOK /\ NoBook \in Books /\ QueueOnce
  BY DEF HealthInv, SettleInv, NoBook, Books
<1>4. /\ current' \in Windows \cup {None} /\ book' \in Books /\ asks' \subseteq Windows
      /\ raced' \in BOOLEAN
  <2>1. CASE UNCHANGED << current, book, asks, raced >>
    BY <1>3, <2>1 DEF FeedTypeOK
  <2>2. CASE commands # << >> /\ Activate(Head(commands).w)
    <3>a. commands \in Seq(Commands) /\ commands # << >>
      BY <1>3, <2>2 DEF WindowTypeOK
    <3>b. Head(commands) \in Commands
      BY <3>a, TailFact
    <3>1. Head(commands).w \in Windows
      BY <3>b DEF Commands
    <3> QED BY <1>3, <2>2, <3>1 DEF FeedTypeOK, Activate
  <2>3. CASE current' = None /\ book' = NoBook /\ UNCHANGED << asks, raced >>
    BY <1>3, <2>3 DEF FeedTypeOK
  <2> QED BY <2>1, <2>2, <2>3 DEF WindowAction, Poll, Discover, NotFound, TimerFires, Tick,
             NewWindow, ActivateWindow, WindowClosed, Resolved, Unresolved, ResolutionRetry,
             FetchAnswers, runtime, TakeCommand
<1>5. HealthInv'
  BY <1>2, <1>4, WindowStepsQuiet
<1> QED BY <1>1, <1>5

LEMMA NextSafe ==
  ASSUME SettleInv, HealthInv, [Next]_vars
  PROVE  SettleInv' /\ HealthInv'
<1>1. CASE Next
  BY <1>1, FeedActionSafe, WindowActionSafe DEF Next, FeedAction, WindowAction
<1>2. CASE UNCHANGED vars
  <2>1. SettleInv'
    BY <1>2, SettleSteady DEF vars, runtime, discoveryVars
  <2>2. HealthInv'
    BY <1>2, WindowStepsQuiet DEF vars, runtime, HealthInv, FeedTypeOK
  <2> QED BY <2>1, <2>2
<1> QED BY <1>1, <1>2

LEMMA InitSafe ==
  ASSUME Init
  PROVE  SettleInv /\ HealthInv
<1>1. NoBook \in Books /\ 0 \in 0..Horizon /\ 0 \in 0..MaxFailures
  BY DEF NoBook, Books
<1>2. feed \in Feeds /\ feed.pc = "idle"
  BY <1>1 DEF Init, Feeds
<1>3. FeedTypeOK
  <2>1. << >> \in Seq(Messages) /\ << >> \in Seq(Windows)
    OBVIOUS
  <2> QED BY <1>1, <1>2, <2>1 DEF Init, FeedTypeOK
<1>4. HealthInv
  BY <1>2, <1>3 DEF Init, HealthInv, HealthFollowsFeed, NewestAnnounced
<1>5. WindowTypeOK
  BY <1>1 DEF Init, WindowTypeOK, unresolved_open_trade_markets
<1>6. commands = << >> /\ timers = {} /\ seen = {} /\ known = {} /\ pending = seeded
      /\ fetches = {} /\ settled = {} /\ dropped = {} /\ discovery.slots = << >>
      /\ \A w \in seeded : End(w) <= now
  BY DEF Init, unresolved_open_trade_markets
<1>7. \A kinds, w : ~Queued(kinds, w)
  BY <1>6 DEF Queued
<1>8. QueueOnce /\ PollsAreFresh
  BY <1>6 DEF QueueOnce, PollsAreFresh
<1>9. \A w \in Windows : Path(w)
  BY <1>6, <1>7 DEF Path, One, Nowhere, OpenAt, Closing
<1> QED BY <1>4, <1>5, <1>8, <1>9 DEF SettleInv

LEMMA PartsFact == IInv <=> SettleInv /\ HealthInv
<1>1. SettleInv => WindowTypeOK
  BY DEF SettleInv
<1> QED BY <1>1, SettleParts DEF IInv, TypeOK, HealthInv

LEMMA MarketFeedInvariant == Spec => []IInv
<1>1. Init => IInv
  BY InitSafe, PartsFact
<1>2. IInv /\ [Next]_vars => IInv'
  <2>1. IInv /\ [Next]_vars => SettleInv' /\ HealthInv'
    BY NextSafe, PartsFact
  <2>2. SettleInv' /\ HealthInv' => IInv'
    BY PartsFact, PTL
  <2> QED BY <2>1, <2>2
<1> QED BY <1>1, <1>2, PTL DEF Spec

\* The discovery, the timers, the runtime and the feed task keep their queues
\* and registries well typed; an attempt count stays within its maximum.
THEOREM MarketFeedTypeCorrect == Spec => []TypeOK
<1>1. IInv => TypeOK
  BY DEF IInv
<1> QED BY <1>1, MarketFeedInvariant, PTL

\* A discovered window, or one an earlier run left unsettled, is at all times
\* in exactly one place between its announcement and the strategy worker's
\* mailbox, which takes its outcome or refuses it, and one that is open has its
\* close timed or queued (schedule_pending_resolution, ResolutionRetry,
\* take_ready_pending_resolutions and the two answers).
THEOREM WindowsInOnePlace == Spec => []WindowInOnePlace
<1>1. IInv => WindowInOnePlace
  BY DEF IInv
<1> QED BY <1>1, MarketFeedInvariant, PTL

\* FeedHealthTracker agrees with clob_feed_loop whenever no announcement is
\* queued: a sleeping feed is known to be down, a connected one to be up.
THEOREM HealthFollows == Spec => []HealthFollowsFeed
<1>1. IInv => HealthFollowsFeed
  BY DEF IInv
<1> QED BY <1>1, MarketFeedInvariant, PTL
=============================================================================
