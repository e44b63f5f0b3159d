------------------------------ MODULE Sidecar ------------------------------
(***************************************************************************)
(* The Polymarket sidecar: PolymarketReadonlyProvider and the HTTP server  *)
(* in front of it (provider.ts, server.ts), composed with the monitor of   *)
(* the authenticated user stream (WsUserStreamMonitor).  Requests run      *)
(* concurrently and interleave at every await; they share the cached       *)
(* credentials, the last market discovery, the answers already given to    *)
(* order intents, and the one stream connection.                           *)
(*                                                                         *)
(* Every call to the venue has a timeout, so each of them has an outcome:  *)
(* an answer, an error, an error that looks like lost credentials, or a    *)
(* timeout after which the call may still take effect.  Prices, amounts    *)
(* and account figures are the outcome of the checks made on them.         *)
(***************************************************************************)
EXTENDS Naturals, FiniteSets

CONSTANTS
  Markets,       \* the lists of markets a discovery may return
  NoMarkets,     \* no list: nothing found, nothing desired
  Slots,         \* requests the server may be working on at a time
  NoSlot,
  Ids,           \* client order ids
  NoId,
  MaxRequests,   \* bound: requests accepted
  MaxFaults      \* bound: failed venue calls and lost connections

ASSUME SidecarAssumption ==
  /\ NoMarkets \notin Markets /\ NoSlot \notin Slots /\ NoId \notin Ids
  /\ MaxRequests \in Nat /\ MaxFaults \in Nat

VARIABLES
  us,        \* the user stream monitor
  req,       \* req[s]: the request in slot s
  auth,      \* authState is cached
  boot,      \* authStatePromise: the slot whose bootstrap is shared, if any
  last,      \* lastDiscovery
  health,    \* what readinessStatus reads
  answer,    \* submittedOrderResponses[c], or "none"
  venue,     \* venue[c]: orders the venue took for id c, and one on its way
  told,      \* told[c]: the last answer the bot was sent for c
  requests, faults

provider == <<auth, boot, last, health>>
book == <<answer, venue, told>>
bounds == <<requests, faults>>
vars == <<us, req, auth, boot, last, health, answer, venue, told, requests,
          faults>>

Kinds == {"account", "preflight", "order", "call"}
Free == [kind |-> "call", pc |-> "free", id |-> NoId, on |-> NoSlot,
         markets |-> NoMarkets]

Init ==
  /\ us = [desired |-> NoMarkets, status |-> "failed", subs |-> NoMarkets,
           markets |-> NoMarkets, phase |-> "none", conn |-> FALSE,
           timer |-> FALSE, old |-> FALSE, closed |-> FALSE]
  /\ req = [s \in Slots |-> Free]
  /\ auth = FALSE
  /\ boot = NoSlot
  /\ last = NoMarkets
  /\ health = [refreshed |-> FALSE, accountErr |-> FALSE, discoveryErr |-> FALSE]
  /\ answer = [c \in Ids |-> "none"]
  /\ venue = [c \in Ids |-> [taken |-> 0, late |-> FALSE]]
  /\ told = [c \in Ids |-> "none"]
  /\ requests = 0
  /\ faults = 0

Fault == faults < MaxFaults /\ faults' = faults + 1

\* How an HTTP call ends: a parsed answer; an error, which a timeout, a bad
\* status and a body that does not parse all are; or an error whose text
\* looks like lost credentials.
Outcomes == {"ok", "error", "auth_error"}
isAuthLikeError(o) == o = "auth_error"
CallEnds(o) == IF o = "ok" THEN UNCHANGED faults ELSE Fault

\* What a parsed discovery holds: the markets of the two slots of now, or none.
Found == Markets \cup {NoMarkets}
-----------------------------------------------------------------------------
(***************************************************************************)
(* The stream monitor, as functions of its state s.  phase is that of the  *)
(* current attempt: connecting, open (the subscription is sent, nothing is *)
(* settled) or settled.  conn is connectPromise, timer is reconnectTimer,  *)
(* old says that a socket given up can still fire events.  The stable      *)
(* grace and the connect timeout are shorter than the ping interval, as in *)
(* every shipped configuration, so no heartbeat comes before the attempt   *)
(* is settled.                                                             *)
(***************************************************************************)
Wanted(s) == s.desired # NoMarkets
Subscribed(s) == s.status = "ok" /\ s.subs = s.desired

safeCloseSocket(s) == [s EXCEPT !.old = TRUE]

disposeAttempt(s) ==
  IF s.phase = "none" THEN s
  ELSE [safeCloseSocket(s) EXCEPT !.phase = "none", !.markets = NoMarkets]

\* A new attempt for what is desired now; a pending reconnect is dropped.
openConnection(s) ==
  [disposeAttempt(s) EXCEPT !.markets = s.desired, !.phase = "connecting",
                            !.timer = FALSE, !.conn = TRUE]

scheduleReconnect(s) ==
  [s EXCEPT !.timer = @ \/ (~s.closed /\ Wanted(s))]

\* ensureConnected starts the loop of ensureDesiredConnection unless it runs.
ensureConnected(s, m) ==
  LET d == [s EXCEPT !.desired = m] IN
  IF Subscribed(d) \/ s.conn THEN d ELSE openConnection(d)

\* Variant: a failed attempt schedules no reconnect.
failAttemptOnce(s) == [disposeAttempt(s) EXCEPT !.status = "failed", !.conn = FALSE]

failAttempt(s) ==
  scheduleReconnect([disposeAttempt(s) EXCEPT !.status = "failed", !.conn = FALSE])

markDisconnected(s) ==
  scheduleReconnect([disposeAttempt(s) EXCEPT !.status = "failed"])

\* completeSuccess, and the loop's next turn: what is desired may have
\* changed while the attempt was made.
completeSuccess(s) ==
  LET ok == [s EXCEPT !.status = "ok", !.subs = s.markets, !.phase = "settled"] IN
  IF ~Wanted(s) \/ ok.subs = ok.desired THEN [ok EXCEPT !.conn = FALSE]
  ELSE openConnection(ok)

\* Whoever awaits connectPromise goes on when it is settled.
WakeStreamWaiters ==
  req' = [s \in Slots |-> IF req[s].pc = "streamwait" /\ ~us'.conn
                            THEN [req[s] EXCEPT !.pc = "observe"] ELSE req[s]]

Stream(next) ==
  /\ us' = next
  /\ WakeStreamWaiters
  /\ UNCHANGED <<provider, book, requests>>

SocketOpens ==
  /\ us.phase = "connecting"
  /\ Stream([us EXCEPT !.phase = "open"])
  /\ UNCHANGED faults

\* The grace passes, or a first message arrives.
AttemptSucceeds ==
  /\ us.phase = "open"
  /\ Stream(completeSuccess(us))
  /\ UNCHANGED faults

\* A connect timeout, an error frame, a failed send, a socket error or close.
AttemptFails ==
  /\ us.phase \in {"connecting", "open"}
  /\ Fault
  /\ Stream(failAttempt(us))

\* The settled connection errs, closes, or goes stale at a heartbeat.
ConnectionLost ==
  /\ us.phase = "settled"
  /\ Fault
  /\ Stream(markDisconnected(us))

\* An event of a socket that is not the current attempt's is ignored.
OldSocketEvent ==
  /\ us.old
  /\ Stream([us EXCEPT !.old = FALSE])
  /\ UNCHANGED faults

ReconnectTimer ==
  /\ us.timer
  /\ LET s == [us EXCEPT !.timer = FALSE] IN
     Stream(IF s.closed \/ ~Wanted(s) \/ s.conn \/ Subscribed(s) THEN s
            ELSE openConnection(s))
  /\ UNCHANGED faults
-----------------------------------------------------------------------------
(***************************************************************************)
(* Requests.                                                               *)
(***************************************************************************)
Step(s, pc) == req' = [req EXCEPT ![s].pc = pc]
Done(s) == req' = [req EXCEPT ![s] = Free]

\* An answer about id c: it is kept for duplicates, or only sent.
Reply(s, status, keep) ==
  /\ answer' = IF keep THEN [answer EXCEPT ![req[s].id] = status] ELSE answer
  /\ told' = [told EXCEPT ![req[s].id] = status]
  /\ Done(s)

\* The server takes a request; health answers at once from memory.  The bot
\* sends an id again only after it gave up on the first time, never twice at
\* once.
Accept(s, kind, c) ==
  /\ req[s].pc = "free" /\ ~us.closed
  /\ requests < MaxRequests
  /\ requests' = requests + 1
  /\ (kind = "order") <=> (c # NoId)
  /\ \A o \in Slots : c # NoId => req[o].id # c
  /\ req' = [req EXCEPT ![s] =
              [Free EXCEPT !.kind = kind, !.id = c,
                           !.pc = IF kind = "order" THEN "start"
                                  ELSE IF kind = "preflight" THEN "geoblock"
                                  ELSE "auth"]]
  /\ UNCHANGED <<us, provider, book, faults>>

\* A check of an intent: it is refused and not remembered, or goes on.
Checked(s, refusal, next) ==
  \/ Reply(s, refusal, FALSE)
  \/ Step(s, next) /\ UNCHANGED <<answer, told>>

\* The checks made before the first await.  A known id is answered from the
\* map; an intent that fails validation is refused and not remembered.
StartOrder(s) ==
  /\ req[s].pc = "start"
  /\ IF answer[req[s].id] # "none" THEN Reply(s, answer[req[s].id], FALSE)
     ELSE Checked(s, "invalid", "auth")
  /\ UNCHANGED <<us, provider, venue, bounds>>

\* A preflight begins with the geoblock check, which stops nothing.
fetchGeoblock(s, o) ==
  /\ req[s].pc = "geoblock"
  /\ ~isAuthLikeError(o) /\ CallEnds(o)
  /\ Step(s, "auth")
  /\ UNCHANGED <<us, provider, book, requests>>

\* Where a request goes once it has credentials.
Authed(s) == IF req[s].kind = "call" THEN "call"
             ELSE IF req[s].kind = "preflight" THEN "clock"
             ELSE "discover"

getAuthState(s) ==
  /\ req[s].pc = "auth"
  /\ IF auth THEN Step(s, Authed(s)) /\ UNCHANGED boot
     ELSE IF boot # NoSlot
       THEN /\ req' = [req EXCEPT ![s].pc = "authwait", ![s].on = boot]
            /\ UNCHANGED boot
       ELSE Step(s, "bootstrap") /\ boot' = s
  /\ UNCHANGED <<us, auth, last, health, book, bounds>>

\* A failed request: an intent that reached the provider's try block is
\* remembered as unknown, a venue restart as such; preflight goes on without.
Failed(r) ==
  IF r.kind = "preflight" THEN [r EXCEPT !.pc = "observe"]
  ELSE [r EXCEPT !.pc = "failed"]

\* Variant: the end of a bootstrap wakes only the request that began it.
BootstrapAlone(s, ok) ==
  /\ req[s].pc = "bootstrap"
  /\ IF ok THEN UNCHANGED faults ELSE Fault
  /\ auth' = ok
  /\ boot' = NoSlot
  /\ req' = [req EXCEPT ![s].pc = IF ok THEN Authed(s) ELSE "failed"]
  /\ UNCHANGED <<us, last, health, book, requests>>

\* The bootstrap ends for its owner and for everyone who shares it.  Either
\* way the shared promise is cleared, even when a newer one took its place.
Bootstrap(s, ok) ==
  /\ req[s].pc = "bootstrap"
  /\ IF ok THEN UNCHANGED faults ELSE Fault
  /\ auth' = ok
  /\ boot' = NoSlot
  /\ req' = [o \in Slots |->
       IF o = s \/ (req[o].pc = "authwait" /\ req[o].on = s)
         THEN IF ok THEN [req[o] EXCEPT !.pc = Authed(o), !.on = NoSlot]
              ELSE IF req[o].kind = "preflight"
                THEN [req[o] EXCEPT !.pc = "verdict", !.on = NoSlot]
              ELSE [req[o] EXCEPT !.pc = "failed", !.on = NoSlot]
         ELSE req[o]]
  /\ UNCHANGED <<us, last, health, book, requests>>

invalidateAuthState == auth' = FALSE /\ boot' = NoSlot

\* A call of the CLOB client: an error that looks like lost credentials drops
\* the cache.
runClobCall(o) ==
  /\ CallEnds(o)
  /\ IF isAuthLikeError(o) THEN invalidateAuthState ELSE UNCHANGED <<auth, boot>>

\* The clock check of a preflight, which stops nothing either.
ClockCheck(s, o) ==
  /\ req[s].pc = "clock"
  /\ runClobCall(o)
  /\ Step(s, "discover")
  /\ UNCHANGED <<us, last, health, book, requests>>

\* discoverActiveMarkets and enrichActiveMarkets together: m is what was
\* found; an outcome that is not ok says that some of it failed.
Discovered(s, m) ==
  /\ last' = m
  /\ req' = [req EXCEPT ![s].markets = m,
       ![s].pc = IF req[s].kind = "order" THEN "market"
                 ELSE IF m = NoMarkets THEN "observe" ELSE "stream"]

Discover(s, m, o) ==
  /\ req[s].pc = "discover"
  /\ runClobCall(o)
  /\ isAuthLikeError(o) => m # NoMarkets     \* only the metadata is a CLOB call
  /\ health' = [health EXCEPT !.discoveryErr = o # "ok"]
  /\ IF o = "ok" \/ m # NoMarkets THEN Discovered(s, m)
     ELSE IF req[s].kind = "account" /\ last # NoMarkets THEN Discovered(s, last)
     ELSE req' = [req EXCEPT ![s] = Failed(@)] /\ UNCHANGED last
  /\ UNCHANGED <<us, book, requests>>

\* ensureConnected: the request waits for the shared connection attempt; the
\* outcome is reported and stops nothing.
EnsureStream(s) ==
  /\ req[s].pc = "stream"
  /\ us' = ensureConnected(us, req[s].markets)
  /\ req' = [req EXCEPT ![s].markets = NoMarkets,
       ![s].pc = IF Subscribed(us') THEN "observe" ELSE "streamwait"]
  /\ UNCHANGED <<provider, book, bounds>>

\* validateOrderMarket: the market is gone, closed, or has no metadata.
ValidateMarket(s) ==
  /\ req[s].pc = "market"
  /\ IF req[s].markets = NoMarkets THEN Reply(s, "invalid", FALSE)
     ELSE Checked(s, "invalid", "observe")
  /\ UNCHANGED <<us, provider, venue, bounds>>

\* Cash and allowance cover the order, or it is refused.
validateOrderAccount(s) == Checked(s, "unfunded", "post")

\* recordAccountRefreshSuccess; an intent is then checked against the account.
ObserveOk(s) ==
  /\ req[s].pc = "observe"
  /\ health' = [health EXCEPT !.refreshed = TRUE, !.accountErr = FALSE]
  /\ IF req[s].kind = "order" THEN validateOrderAccount(s)
     ELSE /\ IF req[s].kind = "preflight" THEN Step(s, "verdict") ELSE Done(s)
          /\ UNCHANGED <<answer, told>>
  /\ UNCHANGED <<us, auth, boot, last, venue, bounds>>

ObserveFails(s, o) ==
  /\ req[s].pc = "observe"
  /\ o # "ok" /\ runClobCall(o)
  /\ health' = [health EXCEPT !.accountErr = TRUE]
  /\ req' = [req EXCEPT ![s].pc = IF req[s].kind = "preflight" THEN "verdict"
                                  ELSE "failed"]
  /\ UNCHANGED <<us, last, book, requests>>

\* The last read of a preflight, of the proxy wallet's code, and its verdict.
FinishPreflight(s) ==
  /\ req[s].pc = "verdict"
  /\ Done(s)
  /\ UNCHANGED <<us, provider, book, bounds>>

\* createAndPostMarketOrder answers: the venue took the order or refused it.
normalizeOrderStatus(taken) == IF taken THEN "submitted" ELSE "rejected"

PostAnswered(s, taken) ==
  /\ req[s].pc = "post"
  /\ venue' = [venue EXCEPT ![req[s].id].taken = IF taken THEN @ + 1 ELSE @]
  /\ Reply(s, normalizeOrderStatus(taken), TRUE)
  /\ UNCHANGED <<us, provider, bounds>>

\* HTTP 425: the matching engine restarts and took nothing.
PostRefused425(s) ==
  /\ req[s].pc = "post"
  /\ Fault
  /\ Reply(s, "venue_restart", TRUE)
  /\ UNCHANGED <<us, provider, venue, requests>>

\* Any other error or the timeout: the order is taken, is not, or is still on
\* its way when the answer is given.
PostFails(s, o, status, keep) ==
  /\ req[s].pc = "post"
  /\ o # "ok" /\ runClobCall(o)
  /\ \/ venue' = venue
     \/ venue' = [venue EXCEPT ![req[s].id].taken = @ + 1]
     \/ venue' = [venue EXCEPT ![req[s].id].late = TRUE]
  /\ Reply(s, status, keep)
  /\ UNCHANGED <<us, last, health, requests>>

\* Variant: an order whose post failed is not remembered.
PostForgotten(s, o) == PostFails(s, o, "unknown", FALSE)
\* Variant: a post that failed is reported as a venue restart.
PostCalledRestart(s, o) == PostFails(s, o, "venue_restart", TRUE)

PostUnknown(s, o) == PostFails(s, o, "unknown", TRUE)

LatePost(c) ==
  /\ venue[c].late
  /\ venue' = [venue EXCEPT ![c] = [taken |-> @.taken + 1, late |-> FALSE]]
  /\ UNCHANGED <<us, req, provider, answer, told, bounds>>

\* The catch block: an intent that failed before it was posted is reported
\* as unknown all the same, or as a venue restart when the error says 425;
\* an account request answers 503.
AnswerFailed(s) ==
  /\ req[s].pc = "failed"
  /\ IF req[s].kind = "order"
       THEN \E status \in {"unknown", "venue_restart"} : Reply(s, status, TRUE)
     ELSE Done(s) /\ UNCHANGED <<answer, told>>
  /\ health' = IF req[s].kind = "account"
                 THEN [health EXCEPT !.accountErr = TRUE] ELSE health
  /\ UNCHANGED <<us, auth, boot, last, venue, bounds>>

\* The other calls keep nothing: they answer with what the venue said, or
\* that it failed.
VenueCall(s) ==
  /\ req[s].pc = "call"
  /\ Done(s)
  /\ UNCHANGED <<us, last, health, book, requests>>

cancelOrder(s, o) == VenueCall(s) /\ runClobCall(o)
cancelAll(s, o) == VenueCall(s) /\ runClobCall(o)
activity(s, o) == VenueCall(s) /\ runClobCall(o)

\* redeemAll reads positions and goes through the relayer, never the CLOB.
redeemAll(s, o) ==
  /\ VenueCall(s)
  /\ ~isAuthLikeError(o) /\ CallEnds(o)
  /\ UNCHANGED <<auth, boot>>

\* The provider is closed when the server has closed: no request is left.
Close ==
  /\ ~us.closed
  /\ \A s \in Slots : req[s].pc = "free"
  /\ Stream([disposeAttempt(us) EXCEPT !.closed = TRUE, !.desired = NoMarkets,
               !.timer = FALSE, !.status = "failed", !.conn = FALSE])
  /\ UNCHANGED faults
-----------------------------------------------------------------------------
RequestStep(s) ==
  \/ StartOrder(s) \/ getAuthState(s) \/ FinishPreflight(s)
  \/ \E ok \in BOOLEAN : Bootstrap(s, ok)
  \/ \E m \in Found, o \in Outcomes : Discover(s, m, o)
  \/ EnsureStream(s) \/ ValidateMarket(s) \/ ObserveOk(s)
  \/ \E o \in Outcomes :
       \/ fetchGeoblock(s, o) \/ ClockCheck(s, o) \/ ObserveFails(s, o)
       \/ PostUnknown(s, o) \/ cancelOrder(s, o) \/ cancelAll(s, o)
       \/ activity(s, o) \/ redeemAll(s, o)
  \/ \E taken \in BOOLEAN : PostAnswered(s, taken)
  \/ PostRefused425(s) \/ AnswerFailed(s)

StreamStep == SocketOpens \/ AttemptSucceeds \/ ReconnectTimer

Next ==
  \/ \E s \in Slots, kind \in Kinds, c \in Ids \cup {NoId} : Accept(s, kind, c)
  \/ \E s \in Slots : RequestStep(s)
  \/ StreamStep \/ AttemptFails \/ ConnectionLost
  \/ OldSocketEvent
  \/ \E c \in Ids : LatePost(c)
  \/ Close

\* Every venue call ends, by its timeout if by nothing else, and the event
\* loop runs what is due.  That connection attempts do not fail for ever is
\* the bound on faults.
Fairness == WF_vars(StreamStep) /\ \A s \in Slots : WF_vars(RequestStep(s))

Spec == Init /\ [][Next]_vars /\ Fairness
-----------------------------------------------------------------------------
PCs == {"free", "start", "auth", "authwait", "bootstrap", "discover", "stream",
        "streamwait", "market", "observe", "post", "failed", "call", "geoblock",
        "clock", "verdict"}
Statuses == {"none", "invalid", "unfunded", "submitted", "rejected",
             "venue_restart", "unknown"}

Streams == [desired : Found, status : {"ok", "failed"}, subs : Found,
            markets : Found, phase : {"none", "connecting", "open", "settled"},
            conn : BOOLEAN, timer : BOOLEAN, old : BOOLEAN, closed : BOOLEAN]
Requests == [kind : Kinds, pc : PCs, id : Ids \cup {NoId},
             on : Slots \cup {NoSlot}, markets : Found]

\* The stream monitor has markets when and only when it has an attempt.
StreamTypeOK ==
  /\ us \in Streams
  /\ us.phase = "none" <=> us.markets = NoMarkets

BookTypeOK ==
  /\ answer \in [Ids -> Statuses] /\ told \in [Ids -> Statuses]
  /\ venue \in [Ids -> [taken : Nat, late : BOOLEAN]]

ProviderTypeOK ==
  /\ auth \in BOOLEAN /\ boot \in Slots \cup {NoSlot} /\ last \in Found
  /\ health \in [refreshed : BOOLEAN, accountErr : BOOLEAN, discoveryErr : BOOLEAN]
  /\ requests \in 0..MaxRequests /\ faults \in 0..MaxFaults

TypeOK ==
  /\ StreamTypeOK /\ BookTypeOK /\ ProviderTypeOK
  /\ req \in [Slots -> Requests]

\* The venue takes at most one order for a client order id, however often
\* the bot sends it: submitOrderIntent answers a repeated id from its map
\* once any outcome of a post, the unknown one included, is in it.
OneOrderPerId ==
  \A c \in Ids : venue[c].taken + (IF venue[c].late THEN 1 ELSE 0) <= 1

\* An order the venue took, or may still take, is never reported as refused:
\* the last answer says submitted or unknown, unless none was given yet.
TakenIsReported ==
  \A c \in Ids : venue[c].taken > 0 \/ venue[c].late =>
    told[c] \in {"submitted", "unknown"}

readinessStatus ==
  IF ~health.refreshed THEN "failed"
  ELSE IF us.status = "ok" /\ ~health.accountErr /\ ~health.discoveryErr
    THEN "ready"
  ELSE IF health.discoveryErr /\ last = NoMarkets THEN "failed" ELSE "degraded"

\* A stream that is wanted and not connected always has something on its way:
\* an attempt whose promise is pending, or the reconnect timer.
StreamNeverStalls ==
  /\ Wanted(us) /\ us.status = "failed" =>
       us.timer \/ (us.conn /\ us.phase \in {"connecting", "open"})
  /\ us.conn => us.phase \in {"connecting", "open"}

\* Every request is answered, whatever it shares a bootstrap or a connection
\* attempt with.
RequestsAnswered == \A s \in Slots : req[s].pc # "free" ~> req[s].pc = "free"
-----------------------------------------------------------------------------
(***************************************************************************)
(* The inductive invariant behind the safety properties.                   *)
(***************************************************************************)

\* At most one request is about an id, and a free slot is about none.
OneRequestPerId ==
  /\ \A s \in Slots : req[s].pc = "free" => req[s].id = NoId
  /\ \A s, o \in Slots : req[s].id = req[o].id /\ req[s].id # NoId => s = o

\* A request about an id that has its answer has not begun.
AnsweredIsOver ==
  \A s \in Slots : req[s].id \in Ids /\ answer[req[s].id] # "none" =>
    req[s].pc = "start"

\* What may be at the venue has its answer, the one the bot was last sent.
PostedIsAnswered ==
  \A c \in Ids : venue[c].taken > 0 \/ venue[c].late =>
    answer[c] \in {"submitted", "unknown"} /\ told[c] = answer[c]

\* Once the provider is closed nothing is asked for and nothing is desired; a
\* request on its way to the stream has markets.
ClosedIsQuiet ==
  /\ us.closed => ~Wanted(us) /\ \A s \in Slots : req[s].pc = "free"
  /\ \A s \in Slots : req[s].pc = "stream" => req[s].markets # NoMarkets

IInv ==
  /\ TypeOK /\ OneRequestPerId /\ AnsweredIsOver /\ PostedIsAnswered
  /\ OneOrderPerId /\ ClosedIsQuiet /\ StreamNeverStalls
=============================================================================
