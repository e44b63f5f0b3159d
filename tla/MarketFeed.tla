------------------------------ MODULE MarketFeed ------------------------------
(* The market windows of the live runtime and the CLOB feed that follows them.   *)
(*                                                                               *)
(* market_discovery.rs polls for the five-minute windows and starts a timer that *)
(* closes each one; run_live_runtime (live.rs) activates, closes and settles     *)
(* them, one command at a time; activate_window asks the CLOB feed task          *)
(* (feeds/clob_feed.rs), from a task of its own, to change its subscription; the *)
(* feed task keeps the book it publishes and reconnects by itself.               *)
(*                                                                               *)
(* A quote is the window it was made in. A tick of the clock is half a window:   *)
(* the runtime fires timers and handles commands within a tick, an HTTP request  *)
(* of the discovery may run into the next one, and the feed may lag behind.      *)
EXTENDS Integers, Sequences

CONSTANTS
    LastWindow,    \* bound: the five-minute slots are 1..LastWindow
    Span,          \* ticks of a window
    Pause,         \* ticks of reconnect_pause_ms
    MaxFailures,   \* reconnect_max_failures
    FeedCap,       \* capacity of the feed channel (512 in the code)
    ResubCap,      \* capacity of the resubscribe channel (4 in the code)
    Horizon        \* bound: the last tick

ASSUME MarketFeedAssumption ==
    /\ LastWindow \in Nat \ {0}
    /\ Span \in Nat \ {0} /\ Pause \in Nat /\ MaxFailures \in Nat
    /\ FeedCap \in Nat \ {0} /\ ResubCap \in Nat \ {0} /\ Horizon \in Nat

VARIABLES
    now,        \* the wall clock
    discovery,  \* the slots still to fetch in this poll, and epoch_secs of the poll
    seen,       \* seen_slugs
    timers,     \* sleeping tasks: WindowClosed and ActivateWindow to come
    commands,   \* runtime_command_rx
    known,      \* LiveState.known_windows
    current,    \* LiveState.current_window
    book,       \* LiveState.signal_state.book_state
    down,       \* FeedHealthTracker.active holds "clob"
    pending,    \* pending_resolutions
    fetches,    \* resolution fetches under way
    settled,    \* windows whose outcome the strategy worker's mailbox took
    dropped,    \* windows whose outcome it refused (counted in its metrics)
    asks,       \* spawned resubscribe tasks that have not sent yet
    resubs,     \* resub_rx
    feed,       \* clob_feed_loop
    messages,   \* feed_rx
    raced,      \* history: two resubscribe tasks were under way at once
    seeded      \* history: the windows an earlier run left unsettled

runtime == << known, current, book, down, pending, settled, dropped >>
discoveryVars == << discovery, seen >>
vars == << now, discoveryVars, timers, commands, runtime, fetches, asks, resubs, feed,
           messages, raced, seeded >>

Windows == 1..LastWindow
None == 0
Sides == {"up", "down"}
Books == [Sides -> Windows \cup {None}]
NoBook == [s \in Sides |-> None]

Start(w) == (w - 1) * Span
End(w) == w * Span
Slot(t) == (t \div Span) + 1

Timers == [kind : {"activate", "closed"}, w : Windows, at : Nat]
Commands == [kind : {"new", "activate", "closed", "resolved", "unresolved"}, w : Windows]
Messages == [kind : {"connected", "disconnected"}] \cup [kind : {"book"}, book : Books]
Feeds == [pc : {"idle", "connecting", "up", "asleep"}, tokens : Windows \cup {None},
          book : Books, attempt : 0..MaxFailures, wake : 0..Horizon]

\* The markets with an open trade and no result that have ended by t.
unresolved_open_trade_markets(t) == {w \in Windows : End(w) <= t}

\* The process starts at any time, and takes over what an earlier run left
\* unsettled: seed_pending_resolutions.
Init ==
    /\ now \in 0..Horizon
    /\ seeded \in SUBSET unresolved_open_trade_markets(now)
    /\ discovery = [slots |-> << >>, epoch |-> 0] /\ seen = {}
    /\ timers = {} /\ commands = << >>
    /\ known = {} /\ current = None /\ book = NoBook /\ down = FALSE
    /\ pending = seeded /\ fetches = {} /\ settled = {} /\ dropped = {}
    /\ asks = {} /\ resubs = << >> /\ messages = << >> /\ raced = FALSE
    /\ feed = [pc |-> "idle", tokens |-> None, book |-> NoBook, attempt |-> 0, wake |-> 0]

-----------------------------------------------------------------------------
(* Market discovery. *)

Unfound(w) == IF w \in Windows \ seen THEN << w >> ELSE << >>

\* The poll timer: the current and the next slot, unless already found.
Poll ==
    /\ discovery.slots = << >>
    /\ LET slots == Unfound(Slot(now)) \o Unfound(Slot(now) + 1)
       IN slots # << >> /\ discovery' = [slots |-> slots, epoch |-> now]
    /\ UNCHANGED << now, seen, timers, commands, runtime, fetches, asks, resubs, feed,
                    messages, raced, seeded >>

\* Variant: a window that is over by the time it is found is not timed.
ClosesFromNow(w) ==
    {[kind |-> "closed", w |-> w, at |-> t] : t \in {x \in {End(w)} : x > now}}

\* The delay of WindowClosed is taken from the clock read before the fetch.
Closes(w) ==
    {[kind |-> "closed", w |-> w, at |-> t] :
       t \in {now + x : x \in {y \in {End(w) - discovery.epoch} : y > 0}}}

\* fetch_market finds the window: its close is timed, then it is announced.
Discover ==
    /\ discovery.slots # << >>
    /\ LET w == Head(discovery.slots)
       IN /\ seen' = seen \cup {w}
          /\ timers' = timers \cup Closes(w)
          /\ commands' = Append(commands, [kind |-> "new", w |-> w])
    /\ discovery' = [discovery EXCEPT !.slots = Tail(@)]
    /\ UNCHANGED << now, runtime, fetches, asks, resubs, feed, messages, raced, seeded >>

\* 404, an unusable answer or an error: tried again in a later poll.
NotFound ==
    /\ discovery.slots # << >>
    /\ discovery' = [discovery EXCEPT !.slots = Tail(@)]
    /\ UNCHANGED << now, seen, timers, commands, runtime, fetches, asks, resubs, feed,
                    messages, raced, seeded >>

-----------------------------------------------------------------------------
(* Time. *)

TimerFires ==
    \E t \in timers :
        /\ t.at <= now
        /\ timers' = timers \ {t}
        /\ commands' = Append(commands, [kind |-> t.kind, w |-> t.w])
        /\ UNCHANGED << now, discoveryVars, runtime, fetches, asks, resubs, feed, messages,
                        raced, seeded >>

Tick ==
    /\ now < Horizon /\ commands = << >> /\ \A t \in timers : t.at > now
    /\ discovery.slots = << >> \/ discovery.epoch = now
    /\ now' = now + 1
    /\ UNCHANGED << discoveryVars, timers, commands, runtime, fetches, asks, resubs, feed,
                    messages, raced, seeded >>

-----------------------------------------------------------------------------
(* The runtime: market windows. *)

TakeCommand(kind) ==
    commands # << >> /\ Head(commands).kind = kind /\ commands' = Tail(commands)

\* activate_window: the resubscription is sent by a task of its own.
Activate(w) ==
    /\ current' = w /\ book' = NoBook
    /\ asks' = asks \cup {w} /\ raced' = (raced \/ asks # {})

NewWindow ==
    /\ TakeCommand("new")
    /\ LET w == Head(commands).w
       IN /\ known' = known \cup {w}
          /\ \/ Start(w) <= now /\ Activate(w) /\ UNCHANGED timers
             \/ /\ Start(w) > now
                /\ timers' = timers \cup {[kind |-> "activate", w |-> w, at |-> Start(w)]}
                /\ UNCHANGED << current, book, asks, raced >>
    /\ UNCHANGED << now, discoveryVars, down, pending, settled, dropped, fetches,
                    resubs, feed, messages, seeded >>

ActivateWindow ==
    /\ TakeCommand("activate")
    /\ Activate(Head(commands).w)
    /\ UNCHANGED << now, discoveryVars, timers, known, down, pending, settled, dropped,
                    fetches, resubs, feed, messages, seeded >>

\* The market is put in the registry, or stays there.
schedule_pending_resolution(w) == pending' = pending \cup {w}

\* The current window is cleared if it is the one that closed.
WindowClosed ==
    /\ TakeCommand("closed")
    /\ LET w == Head(commands).w
           closes == w \in known
       IN /\ known' = known \ {w}
          /\ IF closes THEN schedule_pending_resolution(w) ELSE UNCHANGED pending
          /\ IF closes /\ current = w THEN current' = None /\ book' = NoBook
             ELSE UNCHANGED << current, book >>
    /\ UNCHANGED << now, discoveryVars, timers, down, settled, dropped, fetches, asks,
                    resubs, feed, messages, raced, seeded >>

-----------------------------------------------------------------------------
(* The runtime: authoritative settlement. *)

\* A window whose next attempt is due leaves the registry.
take_ready_pending_resolutions(w) == w \in pending /\ pending' = pending \ {w}

ResolutionRetry(w) ==
    /\ take_ready_pending_resolutions(w)
    /\ fetches' = fetches \cup {w}
    /\ UNCHANGED << now, discoveryVars, timers, commands, known, current, book, down,
                    settled, dropped, asks, resubs, feed, messages, raced, seeded >>

\* External: Gamma answers fetch_resolution_once, or the request fails.
FetchAnswers(w, kind) ==
    /\ w \in fetches /\ fetches' = fetches \ {w}
    /\ commands' = Append(commands, [kind |-> kind, w |-> w])
    /\ UNCHANGED << now, discoveryVars, timers, runtime, asks, resubs, feed, messages, raced, seeded >>

\* try_authoritative_resolution: the bounded mailbox of the strategy worker, which
\* RuntimeDecision models, takes the outcome, or is full and refuses it.
try_send(w) ==
    \/ settled' = settled \cup {w} /\ UNCHANGED dropped
    \/ dropped' = dropped \cup {w} /\ UNCHANGED settled

\* An outcome that is refused is lost: a warning, and the market is not put back.
Resolved ==
    /\ TakeCommand("resolved")
    /\ try_send(Head(commands).w)
    /\ UNCHANGED << now, discoveryVars, timers, known, current, book, down, pending, fetches,
                    asks, resubs, feed, messages, raced, seeded >>

\* Variant: only a market that is not resolved yet is tried again.
UnresolvedForgotten ==
    /\ TakeCommand("unresolved")
    /\ \/ pending' = pending \cup {Head(commands).w}
       \/ UNCHANGED pending
    /\ UNCHANGED << now, discoveryVars, timers, known, current, book, down, settled,
                    dropped, fetches, asks, resubs, feed, messages, raced, seeded >>

\* Not resolved yet, or the fetch failed: both put the market back.
Unresolved ==
    /\ TakeCommand("unresolved")
    /\ pending' = pending \cup {Head(commands).w}
    /\ UNCHANGED << now, discoveryVars, timers, known, current, book, down, settled,
                    dropped, fetches, asks, resubs, feed, messages, raced, seeded >>

-----------------------------------------------------------------------------
(* The runtime: messages of the feed. *)

\* FeedHealthTracker: note_disconnected opens an outage, note_connected ends it.
NoteHealth(kind) == down' = (kind = "disconnected")

\* update_clob takes the book as it is; the market id of the row it logs is that
\* of the current window.
HandleFeed ==
    /\ messages # << >> /\ messages' = Tail(messages)
    /\ LET m == Head(messages)
       IN \/ m.kind = "book" /\ book' = m.book /\ UNCHANGED down
          \/ m.kind # "book" /\ NoteHealth(m.kind) /\ UNCHANGED book
    /\ UNCHANGED << now, discoveryVars, timers, commands, known, current, pending,
                    settled, dropped, fetches, asks, resubs, feed, raced, seeded >>

\* ClobFeedHandle::resubscribe in its task.
SendResubscribe(w) ==
    /\ w \in asks /\ Len(resubs) < ResubCap
    /\ asks' = asks \ {w} /\ resubs' = Append(resubs, w)
    /\ UNCHANGED << now, discoveryVars, timers, commands, runtime, fetches, feed, messages,
                    raced, seeded >>

-----------------------------------------------------------------------------
(* clob_feed_loop. *)

FeedStep ==
    UNCHANGED << now, discoveryVars, timers, commands, runtime, fetches, asks, raced, seeded >>

\* Variant: the oldest request is taken, the others are dropped.
OldestRequest(tokens) == IF resubs = << >> THEN tokens ELSE Head(resubs)

\* apply_latest_resubscribe drains the channel.
LatestRequest(tokens) == IF resubs = << >> THEN tokens ELSE resubs[Len(resubs)]

Publish(m) == Len(messages) < FeedCap /\ messages' = Append(messages, m)

\* The first subscription.
FeedStarts ==
    /\ feed.pc = "idle" /\ resubs # << >>
    /\ feed' = [feed EXCEPT !.pc = "connecting", !.tokens = LatestRequest(None),
                            !.book = NoBook]
    /\ resubs' = << >> /\ UNCHANGED messages /\ FeedStep

\* Connected, announced and subscribed.
Connects ==
    /\ feed.pc = "connecting"
    /\ Publish([kind |-> "connected"])
    /\ feed' = [feed EXCEPT !.pc = "up"]
    /\ UNCHANGED resubs /\ FeedStep

\* Variant: the long pause is not announced.
LostQuietly(attempt) ==
    /\ \/ attempt < MaxFailures /\ Publish([kind |-> "disconnected"])
       \/ attempt >= MaxFailures /\ UNCHANGED messages
    /\ feed' = [feed EXCEPT !.pc = "asleep", !.attempt = attempt, !.wake = now]
    /\ UNCHANGED resubs /\ FeedStep

\* backoff_delay is shorter than a tick; the long pause comes after too many
\* attempts.
Delay(attempt) == IF attempt >= MaxFailures THEN Pause ELSE 0

\* A connection is over: announced before the sleep.
Lost(attempt) ==
    /\ Publish([kind |-> "disconnected"])
    /\ LET until == now + Delay(attempt)
       IN feed' = [feed EXCEPT !.pc = "asleep", !.attempt = attempt,
                               !.wake = IF until < Horizon THEN until ELSE Horizon]
    /\ UNCHANGED resubs /\ FeedStep

\* A connection that was stable resets the attempts.
should_reset_backoff(attempt) == {0, attempt}

\* connect_async fails or times out.
ConnectFails == feed.pc = "connecting" /\ Lost(feed.attempt)

\* The socket fails, closes, does not take a ping or the subscription, or is idle
\* for too long.
Disconnects ==
    feed.pc = "up" /\ \E attempt \in should_reset_backoff(feed.attempt) : Lost(attempt)

\* Back at the top of the loop: the newest request, and the book as it was.
Wakes ==
    /\ feed.pc = "asleep" /\ feed.wake <= now
    /\ feed' = [feed EXCEPT !.pc = "connecting", !.tokens = LatestRequest(@),
                  !.attempt = IF @ >= MaxFailures THEN 0 ELSE @ + 1, !.wake = 0]
    /\ resubs' = << >> /\ UNCHANGED messages /\ FeedStep

\* A request while connected: the newest one, an empty book, a new connection.
Resubscribes ==
    /\ feed.pc = "up" /\ resubs # << >>
    /\ feed' = [feed EXCEPT !.pc = "connecting", !.tokens = LatestRequest(@),
                            !.book = NoBook, !.attempt = 0]
    /\ resubs' = << >> /\ UNCHANGED messages /\ FeedStep

\* parse_clob_event: what a text message says of one of the two assets subscribed
\* to ("whole": a snapshot of its best levels; "part": some of them), or of another
\* asset; a metadata event or what cannot be read leaves the book out.
Parsed == [kind : {"whole", "part"}, side : Sides] \cup [kind : {"other", "meta"}]

\* apply_book_snapshot
apply_book_snapshot(b, s) == {[b EXCEPT ![s] = feed.tokens]}

\* apply_price_change_entries, apply_direct_tob: a side counts as the older market's
\* until the last of its levels is replaced.
apply_direct_tob(b, s) ==
    {[b EXCEPT ![s] = w] : w \in {feed.tokens, IF b[s] = None THEN feed.tokens ELSE b[s]}}

UpdatedBooks(b, u) ==
    IF u.kind = "whole" THEN apply_book_snapshot(b, u.side)
    ELSE IF u.kind = "part" THEN apply_direct_tob(b, u.side)
    ELSE {b}

\* handle_clob_update: the book is updated, then the whole book goes out, also when
\* it did not change. (A metadata event goes out without it, to be stored.)
Quote(u) ==
    /\ feed.pc = "up"
    /\ \/ u.kind = "meta" /\ UNCHANGED << feed, messages >>
       \/ /\ u.kind # "meta"
          /\ \E b \in UpdatedBooks(feed.book, u) :
               feed' = [feed EXCEPT !.book = b] /\ Publish([kind |-> "book", book |-> b])
    /\ UNCHANGED resubs /\ FeedStep

\* process_clob_message
ProcessMessage == \E u \in Parsed : Quote(u)

Next ==
    \/ Poll \/ Discover \/ NotFound \/ TimerFires \/ Tick
    \/ NewWindow \/ ActivateWindow \/ WindowClosed \/ Resolved \/ Unresolved \/ HandleFeed
    \/ \E w \in Windows :
         \/ ResolutionRetry(w) \/ SendResubscribe(w)
         \/ FetchAnswers(w, "resolved") \/ FetchAnswers(w, "unresolved")
    \/ FeedStarts \/ Connects \/ ConnectFails \/ Disconnects \/ Wakes \/ Resubscribes
    \/ ProcessMessage

\* The runtime serves each of its channels again and again (tokio::select! picks
\* among the ready ones at random), timers fire, spawned tasks run, and the feed
\* task never ends. Markets resolve in the end, and a connected venue keeps
\* quoting both sides. Nothing makes a connection succeed or last.
Fairness ==
    /\ WF_vars(Tick) /\ WF_vars(TimerFires)
    /\ WF_vars(NewWindow) /\ WF_vars(ActivateWindow) /\ WF_vars(WindowClosed)
    /\ WF_vars(Resolved) /\ WF_vars(Unresolved) /\ WF_vars(HandleFeed)
    /\ WF_vars(FeedStarts) /\ WF_vars(Wakes) /\ WF_vars(Resubscribes)
    /\ WF_vars(Discover \/ NotFound)
    /\ \A w \in Windows :
         /\ WF_vars(ResolutionRetry(w)) /\ WF_vars(SendResubscribe(w))
         /\ SF_vars(FetchAnswers(w, "resolved"))
         /\ WF_vars(FetchAnswers(w, "resolved") \/ FetchAnswers(w, "unresolved"))
    /\ \A s \in Sides : SF_vars(Quote([kind |-> "whole", side |-> s]))

Spec == Init /\ [][Next]_vars /\ Fairness

-----------------------------------------------------------------------------
(* Properties. *)

WindowTypeOK ==
    /\ now \in 0..Horizon /\ seen \subseteq Windows /\ timers \subseteq Timers
    /\ discovery \in [slots : Seq(Windows), epoch : 0..Horizon]
    /\ commands \in Seq(Commands) /\ known \subseteq Windows
    /\ pending \subseteq Windows /\ fetches \subseteq Windows /\ settled \subseteq Windows
    /\ dropped \subseteq Windows /\ seeded \subseteq Windows

FeedTypeOK ==
    /\ messages \in Seq(Messages) /\ resubs \in Seq(Windows) /\ feed \in Feeds
    /\ current \in Windows \cup {None} /\ book \in Books /\ down \in BOOLEAN
    /\ asks \subseteq Windows /\ raced \in BOOLEAN

TypeOK == WindowTypeOK /\ FeedTypeOK

Queued(kinds, w) == \E i \in DOMAIN commands : commands[i].w = w /\ commands[i].kind \in kinds
Closing(w) == Queued({"closed"}, w) \/ \E t \in timers : t.kind = "closed" /\ t.w = w

\* The places of a window on its way to its settlement.
Places == {"open", "pending", "fetch", "answer", "settled", "dropped"}
At(p, w) ==
    \/ p = "open" /\ (Queued({"new"}, w) \/ w \in known)
    \/ p = "pending" /\ w \in pending
    \/ p = "fetch" /\ w \in fetches
    \/ p = "answer" /\ Queued({"resolved", "unresolved"}, w)
    \/ p = "settled" /\ w \in settled
    \/ p = "dropped" /\ w \in dropped

\* schedule_pending_resolution, take_ready_pending_resolutions and the handling of
\* a fetch result: a window that was found, or was left unsettled by an earlier
\* run, is at every moment in exactly one place on its way to its settlement, so
\* its outcome is never fetched twice at once, is handed over once, and is lost to
\* a full mailbox only. (Its open trades then wait for the seeding of the next
\* run.)
WindowInOnePlace ==
    \A w \in seen \cup seeded :
        /\ \E p \in Places : \A q \in Places : At(q, w) <=> q = p
        /\ At("open", w) => Closing(w)

\* ... and it arrives: a window that was found, and whose end the clock reaches, or
\* that was left unsettled is in the end settled or refused by the mailbox,
\* whatever answers failed or came late.
WindowArrives ==
    \A w \in Windows :
        (w \in seen /\ End(w) < Horizon) \/ w \in seeded ~> w \in settled \cup dropped

HealthQueued == \E i \in DOMAIN messages : messages[i].kind # "book"

\* FeedHealthTracker and the announcements of clob_feed_loop: once the runtime has
\* handled what the feed announced, it knows a sleeping feed to be down and a
\* connected one to be up, through resubscriptions and long pauses: the armed
\* feed-outage halt sees the outage.
HealthFollowsFeed ==
    ~HealthQueued => (feed.pc = "asleep" => down) /\ (feed.pc = "up" => ~down)

\* apply_latest_resubscribe and the clearing of the books: when a window stays
\* current and the feed stays connected, the book the strategies see is in the
\* end that window's, on both sides, whatever was published, queued or asked
\* for before; unless two resubscribe tasks were under way at once, whose order
\* nothing fixes.
BookFollowsWindow ==
    \A w \in Windows :
        <>[](current = w /\ feed.pc = "up" /\ ~raced) => <>[](\A s \in Sides : book[s] = w)

-----------------------------------------------------------------------------
(* The inductive invariant behind the two safety properties. *)

\* A slot to fetch was not found before, is asked for once, and was not over at
\* the poll, so that its close is always timed.
PollsAreFresh ==
    /\ \A i \in DOMAIN discovery.slots :
         /\ discovery.slots[i] \notin seen \cup seeded
         /\ End(discovery.slots[i]) > discovery.epoch
    /\ \A i, k \in DOMAIN discovery.slots : discovery.slots[i] = discovery.slots[k] => i = k
    /\ \A w \in seeded : End(w) <= now

\* A window that was neither found nor taken over is nowhere.
UnseenIsNowhere ==
    /\ \A w \in Windows \ (seen \cup seeded) : \A p \in Places : ~At(p, w)
    /\ \A w \in Windows : Closing(w) => w \in seen

Answers == {"resolved", "unresolved"}

\* A window is announced once, before it is closed, and has one answer at a time.
CommandsOnce ==
    /\ \A i, k \in DOMAIN commands : commands[i].w = commands[k].w =>
         /\ commands[i].kind = "new" /\ commands[k].kind = "new" => i = k
         /\ commands[i].kind \in Answers /\ commands[k].kind \in Answers => i = k
         /\ commands[i].kind = "new" /\ commands[k].kind = "closed" => i < k
    /\ \A w \in known : ~Queued({"new"}, w)

\* The newest announcement that is still queued says what the feed is.
NewestAnnounced ==
    \A i \in DOMAIN messages :
        /\ messages[i].kind # "book"
        /\ \A k \in DOMAIN messages : k > i => messages[k].kind = "book"
        => /\ feed.pc = "asleep" => messages[i].kind = "disconnected"
           /\ feed.pc = "up" => messages[i].kind = "connected"

IInv ==
    /\ TypeOK /\ WindowInOnePlace /\ HealthFollowsFeed
    /\ PollsAreFresh /\ UnseenIsNowhere /\ CommandsOnce /\ NewestAnnounced

=============================================================================
