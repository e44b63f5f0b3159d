---------------------------- MODULE SidecarProofs ----------------------------
(***************************************************************************)
(* The sidecar's safety properties, for any number of requests at a time,  *)
(* ids, lists of markets, requests and faults.                             *)
(*                                                                         *)
(* The state falls in two parts that hardly touch: the stream monitor and  *)
(* the requests with the book of answers.  A step of the monitor keeps     *)
(* StreamGood of its state.  A step of a request either leaves the book    *)
(* alone and moves requests on (Follows), or answers one (Reply), or is a  *)
(* new one (Accept); each of the three is shown to keep RequestInv once.   *)
(***************************************************************************)
EXTENDS Sidecar, TLAPS

\* What the invariant says of the stream monitor's state.
StreamGood(s) ==
  /\ s \in Streams
  /\ s.phase = "none" <=> s.markets = NoMarkets
  /\ Wanted(s) /\ s.status = "failed" =>
       s.timer \/ (s.conn /\ s.phase \in {"connecting", "open"})
  /\ s.conn => s.phase \in {"connecting", "open"}
  /\ s.closed => ~Wanted(s)

RequestInv ==
  /\ req \in [Slots -> Requests] /\ BookTypeOK
  /\ OneRequestPerId /\ AnsweredIsOver /\ PostedIsAnswered /\ OneOrderPerId
  /\ \A s \in Slots : req[s].pc = "stream" => req[s].markets # NoMarkets

AllFree == \A s \in Slots : req[s].pc = "free"

\* What the request in slot o may become while the book stays as it is.
Follows(r, o) ==
  \/ r = req[o]
  \/ r = Free /\ req[o].pc # "free"
  \/ /\ r \in Requests /\ r.id = req[o].id
     /\ r.pc = "stream" => r.markets # NoMarkets
     /\ r.pc # "free" /\ req[o].pc # "free"
     /\ r.pc = "start" \/ req[o].pc # "start" \/ answer[req[o].id] = "none"

USE SidecarAssumption

LEMMA IInvParts ==
  IInv <=> /\ StreamGood(us) /\ RequestInv /\ ProviderTypeOK
           /\ us.closed => AllFree
BY DEF IInv, StreamGood, RequestInv, AllFree, TypeOK, StreamTypeOK, ClosedIsQuiet,
       StreamNeverStalls

-----------------------------------------------------------------------------
(***************************************************************************)
(* The stream monitor.                                                     *)
(***************************************************************************)
LEMMA DisposeFact ==
  ASSUME NEW s \in Streams
  PROVE  /\ disposeAttempt(s) \in Streams /\ disposeAttempt(s).phase = "none"
         /\ disposeAttempt(s).markets = NoMarkets \/ disposeAttempt(s) = s
         /\ disposeAttempt(s).desired = s.desired /\ disposeAttempt(s).status = s.status
         /\ disposeAttempt(s).subs = s.subs /\ disposeAttempt(s).conn = s.conn
         /\ disposeAttempt(s).timer = s.timer /\ disposeAttempt(s).closed = s.closed
<1>1. CASE s.phase = "none"
  BY <1>1 DEF disposeAttempt
<1>2. CASE s.phase # "none"
  <2> DEFINE c == [s EXCEPT !.old = TRUE]
  <2>1. /\ c \in Streams /\ c.desired = s.desired /\ c.status = s.status
        /\ c.subs = s.subs /\ c.conn = s.conn /\ c.timer = s.timer /\ c.closed = s.closed
    BY DEF Streams
  <2>2. disposeAttempt(s) = [c EXCEPT !.phase = "none", !.markets = NoMarkets]
    BY <1>2 DEF disposeAttempt, safeCloseSocket
  <2> HIDE DEF c
  <2> QED BY <2>1, <2>2 DEF Streams, Found
<1> QED BY <1>1, <1>2

LEMMA OpenFact ==
  ASSUME NEW s \in Streams, Wanted(s), s.closed => ~Wanted(s)
  PROVE  StreamGood(openConnection(s)) /\ openConnection(s).closed = s.closed
<1> DEFINE d == disposeAttempt(s)
<1>1. d \in Streams /\ d.desired = s.desired /\ d.closed = s.closed
  BY DisposeFact
<1>2. openConnection(s) = [d EXCEPT !.markets = s.desired, !.phase = "connecting",
                                    !.timer = FALSE, !.conn = TRUE]
  BY DEF openConnection
<1> HIDE DEF d
<1> QED BY <1>1, <1>2 DEF StreamGood, Streams, Wanted

\* A stream that is down schedules its reconnect, unless none is wanted.
LEMMA DownFact ==
  ASSUME NEW s \in Streams, s.status = "failed", ~s.conn, s.phase = "none",
         s.markets = NoMarkets, s.closed => ~Wanted(s)
  PROVE  StreamGood(scheduleReconnect(s)) /\ scheduleReconnect(s).closed = s.closed
BY DEF scheduleReconnect, StreamGood, Streams, Wanted

LEMMA FailFact ==
  ASSUME NEW s, StreamGood(s)
  PROVE  StreamGood(failAttempt(s)) /\ failAttempt(s).closed = s.closed
<1> DEFINE d == disposeAttempt(s)
           e == [d EXCEPT !.status = "failed", !.conn = FALSE]
<1>1. /\ d \in Streams /\ d.phase = "none" /\ d.markets = NoMarkets
      /\ d.desired = s.desired /\ d.closed = s.closed
  BY DisposeFact DEF StreamGood
<1> HIDE DEF d
<1>2. /\ e \in Streams /\ e.status = "failed" /\ ~e.conn /\ e.phase = "none"
      /\ e.markets = NoMarkets /\ e.desired = s.desired /\ e.closed = s.closed
  BY <1>1 DEF Streams
<1>3. failAttempt(s) = scheduleReconnect(e)
  BY DEF failAttempt, d
<1> HIDE DEF e
<1> QED BY <1>2, <1>3, DownFact DEF StreamGood, Wanted

LEMMA LostFact ==
  ASSUME NEW s, StreamGood(s), s.phase = "settled"
  PROVE  StreamGood(markDisconnected(s)) /\ markDisconnected(s).closed = s.closed
<1> DEFINE d == disposeAttempt(s)
           e == [d EXCEPT !.status = "failed"]
<1>1. /\ d \in Streams /\ d.phase = "none" /\ d.markets = NoMarkets
      /\ d.desired = s.desired /\ d.closed = s.closed /\ d.conn = s.conn
  BY DisposeFact DEF StreamGood
<1> HIDE DEF d
<1>2. /\ e \in Streams /\ e.status = "failed" /\ ~e.conn /\ e.phase = "none"
      /\ e.markets = NoMarkets /\ e.desired = s.desired /\ e.closed = s.closed
  BY <1>1 DEF Streams, StreamGood
<1>3. markDisconnected(s) = scheduleReconnect(e)
  BY DEF markDisconnected, d
<1> HIDE DEF e
<1> QED BY <1>2, <1>3, DownFact DEF StreamGood, Wanted

LEMMA SuccessFact ==
  ASSUME NEW s, StreamGood(s), s.phase = "open"
  PROVE  StreamGood(completeSuccess(s)) /\ completeSuccess(s).closed = s.closed
<1> DEFINE ok == [s EXCEPT !.status = "ok", !.subs = s.markets, !.phase = "settled"]
<1>1. /\ ok \in Streams /\ ok.status = "ok" /\ ok.phase = "settled"
      /\ ok.markets = s.markets /\ ok.desired = s.desired /\ ok.closed = s.closed
      /\ Wanted(ok) <=> Wanted(s)
  BY DEF StreamGood, Streams, Wanted
<1>2. CASE ~Wanted(s) \/ ok.subs = ok.desired
  <2>1. completeSuccess(s) = [ok EXCEPT !.conn = FALSE]
    BY <1>2 DEF completeSuccess
  <2> HIDE DEF ok
  <2> QED BY <1>1, <2>1 DEF StreamGood, Streams, Wanted
<1>3. CASE Wanted(s) /\ ok.subs # ok.desired
  <2>1. completeSuccess(s) = openConnection(ok)
    BY <1>3 DEF completeSuccess
  <2> HIDE DEF ok
  <2> QED BY <1>1, <1>3, <2>1, OpenFact DEF StreamGood
<1> QED BY <1>2, <1>3

LEMMA EnsureFact ==
  ASSUME NEW s, StreamGood(s), ~s.closed, NEW m \in Markets
  PROVE  StreamGood(ensureConnected(s, m)) /\ ~ensureConnected(s, m).closed
<1> DEFINE d == [s EXCEPT !.desired = m]
<1>1. /\ d \in Streams /\ d.desired = m /\ d.status = s.status /\ d.phase = s.phase
      /\ d.conn = s.conn /\ d.timer = s.timer /\ d.markets = s.markets
      /\ d.closed = s.closed /\ d.subs = s.subs
  BY DEF StreamGood, Streams, Found
<1>2. Wanted(d)
  BY <1>1 DEF Wanted
<1>3. ensureConnected(s, m) = IF Subscribed(d) \/ s.conn THEN d ELSE openConnection(d)
  BY DEF ensureConnected
<1> HIDE DEF d
<1>4. CASE Subscribed(d) \/ s.conn
  BY <1>1, <1>3, <1>4 DEF StreamGood, Subscribed, Wanted
<1>5. CASE ~(Subscribed(d) \/ s.conn)
  BY <1>1, <1>2, <1>3, <1>5, OpenFact
<1> QED BY <1>4, <1>5

-----------------------------------------------------------------------------
(***************************************************************************)
(* Requests and the book.                                                  *)
(***************************************************************************)
LEMMA FreeFact == Free \in Requests /\ Free.pc = "free" /\ Free.id = NoId
BY DEF Free, Requests, Kinds, PCs, Found

\* Requests go on, the book does not change.
LEMMA MoveFact ==
  ASSUME RequestInv, us.closed => AllFree, UNCHANGED book,
         DOMAIN req' = Slots, req' = [o \in Slots |-> req'[o]],
         \A o \in Slots : Follows(req'[o], o)
  PROVE  RequestInv' /\ (us.closed => AllFree')
<1>1. \A o \in Slots : /\ req[o] \in Requests /\ req'[o] \in Requests
                       /\ req'[o].pc = "stream" => req'[o].markets # NoMarkets
                       /\ req'[o].id = req[o].id \/ req'[o].id = NoId
                       /\ req'[o].pc = "free" => req'[o].id = NoId
                       /\ req[o].pc = "free" => req'[o].pc = "free"
  BY FreeFact DEF RequestInv, Follows, OneRequestPerId
<1>2. req' \in [Slots -> Requests]
  BY <1>1
<1>3. BookTypeOK' /\ PostedIsAnswered' /\ OneOrderPerId'
  BY DEF RequestInv, book, BookTypeOK, PostedIsAnswered, OneOrderPerId
<1>4. OneRequestPerId'
  BY <1>1 DEF RequestInv, OneRequestPerId
<1>5. AnsweredIsOver'
  <2> SUFFICES ASSUME NEW o \in Slots, req'[o].id \in Ids, answer[req'[o].id] # "none"
               PROVE  req'[o].pc = "start"
    BY DEF AnsweredIsOver, book
  <2>1. req'[o].id = req[o].id
    BY <1>1
  <2>2. req[o].pc = "start"
    BY <2>1 DEF RequestInv, AnsweredIsOver
  <2> QED BY <2>1, <2>2, FreeFact DEF Follows
<1> QED BY <1>1, <1>2, <1>3, <1>4, <1>5 DEF RequestInv, AllFree

\* One request goes on.
LEMMA OneMove ==
  ASSUME RequestInv, us.closed => AllFree, UNCHANGED book,
         NEW s \in Slots, NEW r, req' = [req EXCEPT ![s] = r], Follows(r, s)
  PROVE  RequestInv' /\ (us.closed => AllFree')
<1>1. req \in [Slots -> Requests]
  BY DEF RequestInv
<1>2. /\ DOMAIN req' = Slots /\ req' = [o \in Slots |-> req'[o]]
      /\ req'[s] = r /\ \A o \in Slots : o # s => req'[o] = req[o]
  BY <1>1
<1>3. \A o \in Slots : Follows(req'[o], o)
  BY <1>2 DEF Follows
<1> QED BY <1>2, <1>3, MoveFact

LEMMA StepMove ==
  ASSUME RequestInv, us.closed => AllFree, UNCHANGED book,
         NEW s \in Slots, NEW pc \in PCs \ {"free", "stream"}, Step(s, pc),
         req[s].pc \notin {"free", "start"}
  PROVE  RequestInv' /\ (us.closed => AllFree')
<1> DEFINE r == [req[s] EXCEPT !.pc = pc]
<1>1. req[s] \in Requests
  BY DEF RequestInv
<1>2. r \in Requests /\ r.pc = pc /\ r.id = req[s].id
  BY <1>1 DEF Requests
<1>3. req' = [req EXCEPT ![s] = r]
  BY DEF Step
<1> HIDE DEF r
<1>4. Follows(r, s)
  BY <1>2 DEF Follows
<1> QED BY <1>3, <1>4, OneMove

LEMMA DoneMove ==
  ASSUME RequestInv, us.closed => AllFree, UNCHANGED book,
         NEW s \in Slots, Done(s), req[s].pc # "free"
  PROVE  RequestInv' /\ (us.closed => AllFree')
BY OneMove DEF Done, Follows

\* A request about an id is answered and its slot freed.  Either the answer is
\* the known one, or there was none and the answer says submitted or unknown
\* and is kept whenever something may be at the venue.
LEMMA ReplyFact ==
  ASSUME RequestInv, NEW s \in Slots, req[s].pc # "free",
         NEW status \in Statuses, NEW keep \in BOOLEAN, Reply(s, status, keep),
         venue' \in [Ids -> [taken : Nat, late : BOOLEAN]],
         \A c \in Ids : c # req[s].id => venue'[c] = venue[c],
         LET c == req[s].id IN
           c \in Ids =>
             \/ UNCHANGED venue /\ status = answer[c] /\ ~keep
             \/ /\ answer[c] = "none"
                /\ venue'[c].taken + (IF venue'[c].late THEN 1 ELSE 0) <= 1
                /\ venue'[c].taken > 0 \/ venue'[c].late =>
                     keep /\ status \in {"submitted", "unknown"}
  PROVE  RequestInv'
<1> DEFINE c == req[s].id
<1>1. /\ req \in [Slots -> Requests] /\ answer \in [Ids -> Statuses]
      /\ told \in [Ids -> Statuses] /\ venue \in [Ids -> [taken : Nat, late : BOOLEAN]]
  BY DEF RequestInv, BookTypeOK
<1>2. /\ req' \in [Slots -> Requests] /\ req'[s] = Free
      /\ \A o \in Slots : o # s => req'[o] = req[o]
  BY <1>1, FreeFact DEF Reply, Done
<1>3. /\ answer' \in [Ids -> Statuses] /\ told' \in [Ids -> Statuses]
      /\ \A d \in Ids : d # c => answer'[d] = answer[d] /\ told'[d] = told[d]
      /\ c \in Ids => /\ told'[c] = status
                      /\ answer'[c] = IF keep THEN status ELSE answer[c]
  BY <1>1 DEF Reply
<1>4. BookTypeOK'
  BY <1>3 DEF BookTypeOK
<1>5. OneRequestPerId'
  BY <1>2, FreeFact DEF OneRequestPerId, RequestInv
<1>6. AnsweredIsOver'
  <2> SUFFICES ASSUME NEW o \in Slots, req'[o].id \in Ids, answer'[req'[o].id] # "none"
               PROVE  req'[o].pc = "start"
    BY DEF AnsweredIsOver
  <2>1. o # s
    BY <1>2, FreeFact
  <2>2. req'[o] = req[o] /\ req[o].id # c
    BY <1>2, <2>1 DEF RequestInv, OneRequestPerId
  <2> QED BY <2>2, <1>3 DEF RequestInv, AnsweredIsOver
<1>7. PostedIsAnswered' /\ OneOrderPerId'
  <2> SUFFICES ASSUME NEW d \in Ids
               PROVE  /\ venue'[d].taken + (IF venue'[d].late THEN 1 ELSE 0) <= 1
                      /\ venue'[d].taken > 0 \/ venue'[d].late =>
                           answer'[d] \in {"submitted", "unknown"} /\ told'[d] = answer'[d]
    BY DEF PostedIsAnswered, OneOrderPerId
  <2>1. /\ venue[d].taken + (IF venue[d].late THEN 1 ELSE 0) <= 1
        /\ venue[d].taken > 0 \/ venue[d].late =>
             answer[d] \in {"submitted", "unknown"} /\ told[d] = answer[d]
    BY DEF RequestInv, PostedIsAnswered, OneOrderPerId
  <2>2. CASE d # c
    BY <2>1, <2>2, <1>3
  <2>3. CASE d = c
    BY <2>1, <2>3, <1>3
  <2> QED BY <2>2, <2>3
<1>8. \A o \in Slots : req'[o].pc = "stream" => req'[o].markets # NoMarkets
  BY <1>2, FreeFact DEF RequestInv
<1> QED BY <1>2, <1>4, <1>5, <1>6, <1>7, <1>8 DEF RequestInv

\* A request that has begun has no answer yet, and nothing is at the venue.
LEMMA BegunFact ==
  ASSUME RequestInv, NEW s \in Slots, req[s].pc \notin {"free", "start"}, req[s].id \in Ids
  PROVE  /\ answer[req[s].id] = "none"
         /\ venue[req[s].id].taken = 0 /\ ~venue[req[s].id].late
BY DEF RequestInv, AnsweredIsOver, PostedIsAnswered, BookTypeOK

\* An intent that has begun is refused before it was posted.
LEMMA RefuseFact ==
  ASSUME RequestInv, NEW s \in Slots, req[s].pc # "free", UNCHANGED venue,
         req[s].pc # "start" \/ answer[req[s].id] = "none",
         NEW status \in Statuses, NEW keep \in BOOLEAN, Reply(s, status, keep)
  PROVE  RequestInv'
<1>1. venue \in [Ids -> [taken : Nat, late : BOOLEAN]]
  BY DEF RequestInv, BookTypeOK
<1>2. req[s].id \in Ids => /\ answer[req[s].id] = "none"
                           /\ venue[req[s].id].taken = 0 /\ ~venue[req[s].id].late
  BY DEF RequestInv, AnsweredIsOver, PostedIsAnswered, BookTypeOK
<1> QED BY <1>1, <1>2, ReplyFact

-----------------------------------------------------------------------------
(***************************************************************************)
(* Each action.                                                            *)
(***************************************************************************)
Inv == StreamGood(us) /\ RequestInv /\ ProviderTypeOK /\ (us.closed => AllFree)

LEMMA FaultFact ==
  ASSUME ProviderTypeOK, Fault
  PROVE  faults' \in 0..MaxFaults
BY DEF ProviderTypeOK, Fault

LEMMA CallFact ==
  ASSUME ProviderTypeOK, NEW o, CallEnds(o)
  PROVE  faults' \in 0..MaxFaults
BY FaultFact DEF ProviderTypeOK, CallEnds

LEMMA ClobFact ==
  ASSUME ProviderTypeOK, NEW o, runClobCall(o)
  PROVE  auth' \in BOOLEAN /\ boot' \in Slots \cup {NoSlot} /\ faults' \in 0..MaxFaults
BY CallFact DEF ProviderTypeOK, runClobCall, invalidateAuthState

LEMMA SameProvider ==
  ASSUME ProviderTypeOK, UNCHANGED <<provider, requests>>, faults' \in 0..MaxFaults
  PROVE  ProviderTypeOK'
BY DEF ProviderTypeOK, provider

\* The provider's state after a step that changes the book or the requests.
LEMMA QuietProvider ==
  ASSUME ProviderTypeOK, UNCHANGED <<provider, bounds>>
  PROVE  ProviderTypeOK'
BY DEF ProviderTypeOK, provider, bounds

LEMMA WakeFact ==
  ASSUME Inv, WakeStreamWaiters, UNCHANGED book
  PROVE  RequestInv' /\ (us.closed => AllFree')
<1>1. DOMAIN req' = Slots /\ req' = [o \in Slots |-> req'[o]]
  BY DEF WakeStreamWaiters
<1>2. ASSUME NEW o \in Slots PROVE Follows(req'[o], o)
  <2> DEFINE r == [req[o] EXCEPT !.pc = "observe"]
  <2>1. req[o] \in Requests
    BY DEF Inv, RequestInv
  <2>2. r \in Requests /\ r.pc = "observe" /\ r.id = req[o].id
    BY <2>1 DEF Requests, PCs
  <2>3. req'[o] = req[o] \/ (req'[o] = r /\ req[o].pc = "streamwait")
    BY DEF WakeStreamWaiters
  <2> HIDE DEF r
  <2> QED BY <2>2, <2>3 DEF Follows
<1> QED BY <1>1, <1>2, MoveFact DEF Inv

LEMMA StreamFact ==
  ASSUME Inv, NEW n, Stream(n), StreamGood(n), n.closed => us.closed,
         faults' \in 0..MaxFaults
  PROVE  Inv'
BY WakeFact, SameProvider DEF Inv, Stream

LEMMA StreamActions ==
  ASSUME Inv, \/ SocketOpens \/ AttemptSucceeds \/ AttemptFails \/ ConnectionLost
              \/ OldSocketEvent \/ ReconnectTimer
  PROVE  Inv'
<1>1. us \in Streams /\ StreamGood(us) /\ ProviderTypeOK /\ faults \in 0..MaxFaults
  BY DEF Inv, StreamGood, ProviderTypeOK
<1>2. CASE SocketOpens
  <2> DEFINE n == [us EXCEPT !.phase = "open"]
  <2>1. StreamGood(n) /\ n.closed = us.closed
    BY <1>1, <1>2 DEF SocketOpens, StreamGood, Streams, Wanted
  <2>2. Stream(n) /\ UNCHANGED faults
    BY <1>2 DEF SocketOpens
  <2> HIDE DEF n
  <2> QED BY <1>1, <2>1, <2>2, StreamFact
<1>3. CASE AttemptSucceeds
  BY <1>1, <1>3, SuccessFact, StreamFact DEF AttemptSucceeds
<1>4. CASE AttemptFails
  BY <1>1, <1>4, FailFact, FaultFact, StreamFact DEF AttemptFails
<1>5. CASE ConnectionLost
  BY <1>1, <1>5, LostFact, FaultFact, StreamFact DEF ConnectionLost
<1>6. CASE OldSocketEvent
  <2> DEFINE n == [us EXCEPT !.old = FALSE]
  <2>1. StreamGood(n) /\ n.closed = us.closed
    BY <1>1 DEF StreamGood, Streams, Wanted
  <2>2. Stream(n) /\ UNCHANGED faults
    BY <1>6 DEF OldSocketEvent
  <2> HIDE DEF n
  <2> QED BY <1>1, <2>1, <2>2, StreamFact
<1>7. CASE ReconnectTimer
  <2> DEFINE n == [us EXCEPT !.timer = FALSE]
             stays == n.closed \/ ~Wanted(n) \/ n.conn \/ Subscribed(n)
  <2>1. /\ n \in Streams /\ n.closed = us.closed /\ n.desired = us.desired
        /\ n.status = us.status /\ n.conn = us.conn /\ n.phase = us.phase
        /\ n.markets = us.markets /\ n.subs = us.subs
    BY <1>1 DEF Streams
  <2>2. Stream(IF stays THEN n ELSE openConnection(n)) /\ UNCHANGED faults
    BY <1>7 DEF ReconnectTimer
  <2> HIDE DEF n
  <2>3. CASE stays
    <3>1. StreamGood(n)
      BY <1>1, <2>1, <2>3 DEF StreamGood, Wanted, Subscribed
    <3> QED BY <1>1, <2>1, <2>2, <2>3, <3>1, StreamFact
  <2>4. CASE ~stays
    <3>1. StreamGood(openConnection(n)) /\ openConnection(n).closed = us.closed
      BY <1>1, <2>1, <2>4, OpenFact
    <3> QED BY <1>1, <2>2, <2>4, <3>1, StreamFact
  <2> QED BY <2>3, <2>4
<1> QED BY <1>2, <1>3, <1>4, <1>5, <1>6, <1>7

\* close: nothing is left to answer, and nothing is desired any more.
LEMMA CloseSafe ==
  ASSUME Inv, Close
  PROVE  Inv'
<1> DEFINE d == disposeAttempt(us)
           n == [d EXCEPT !.closed = TRUE, !.desired = NoMarkets, !.timer = FALSE,
                          !.status = "failed", !.conn = FALSE]
<1>1. d \in Streams /\ d.phase = "none" /\ d.markets = NoMarkets
  BY DisposeFact DEF Inv, StreamGood
<1>2. Stream(n) /\ UNCHANGED faults /\ AllFree
  BY DEF Close, AllFree
<1> HIDE DEF d
<1>3. StreamGood(n)
  BY <1>1 DEF StreamGood, Streams, Wanted, Found
<1>4. RequestInv' /\ AllFree'
  <2>1. req \in [Slots -> Requests]
    BY DEF Inv, RequestInv
  <2>2. req' = req
    BY <1>2, <2>1 DEF Stream, WakeStreamWaiters, AllFree
  <2>3. RequestInv'
    BY <1>2, WakeFact DEF Stream
  <2> QED BY <1>2, <2>2, <2>3 DEF AllFree
<1> HIDE DEF n
<1> QED BY <1>2, <1>3, <1>4, SameProvider DEF Inv, Stream, ProviderTypeOK

\* A request moves on and the monitor is not touched.
LEMMA Moved ==
  ASSUME Inv, UNCHANGED us, ProviderTypeOK', RequestInv', us.closed => AllFree'
  PROVE  Inv'
BY DEF Inv

LEMMA SimpleMoves ==
  ASSUME Inv, NEW s \in Slots, NEW o,
         \/ fetchGeoblock(s, o) \/ ClockCheck(s, o) \/ FinishPreflight(s)
         \/ cancelOrder(s, o) \/ cancelAll(s, o) \/ activity(s, o) \/ redeemAll(s, o)
  PROVE  Inv'
<1>1. ProviderTypeOK /\ RequestInv /\ UNCHANGED <<us, last, health, book, requests>>
  BY DEF Inv, fetchGeoblock, ClockCheck, FinishPreflight, cancelOrder, cancelAll,
         activity, redeemAll, VenueCall, provider, bounds
<1>2. \/ Done(s) /\ req[s].pc \in {"call", "verdict"}
      \/ Step(s, "auth") /\ req[s].pc = "geoblock"
      \/ Step(s, "discover") /\ req[s].pc = "clock"
  BY DEF fetchGeoblock, ClockCheck, FinishPreflight, cancelOrder, cancelAll,
         activity, redeemAll, VenueCall
<1>3. auth' \in BOOLEAN /\ boot' \in Slots \cup {NoSlot} /\ faults' \in 0..MaxFaults
  BY <1>1, ClobFact, CallFact DEF fetchGeoblock, ClockCheck, FinishPreflight, cancelOrder,
     cancelAll, activity, redeemAll, VenueCall, provider, bounds, ProviderTypeOK
<1>4. ProviderTypeOK'
  BY <1>1, <1>3 DEF ProviderTypeOK
<1>5. RequestInv' /\ (us.closed => AllFree')
  BY <1>1, <1>2, DoneMove, StepMove DEF Inv, PCs
<1> QED BY <1>1, <1>4, <1>5, Moved

LEMMA AuthSafe ==
  ASSUME Inv, NEW s \in Slots, getAuthState(s)
  PROVE  Inv'
<1>1. /\ req[s].pc = "auth" /\ RequestInv /\ req[s] \in Requests
      /\ UNCHANGED <<us, auth, last, health, book, bounds>>
  BY DEF Inv, RequestInv, getAuthState
<1>2. ProviderTypeOK'
  BY <1>1 DEF Inv, ProviderTypeOK, getAuthState, bounds
<1>3. CASE req' = [req EXCEPT ![s].pc = "authwait", ![s].on = boot]
  <2> DEFINE r == [req[s] EXCEPT !.pc = "authwait", !.on = boot]
  <2>1. r \in Requests /\ r.pc = "authwait" /\ r.id = req[s].id
    BY <1>1 DEF Requests, PCs, Inv, ProviderTypeOK
  <2>2. req' = [req EXCEPT ![s] = r]
    BY <1>1, <1>3 DEF Inv, RequestInv
  <2> HIDE DEF r
  <2>3. Follows(r, s)
    BY <1>1, <2>1 DEF Follows
  <2> QED BY <1>1, <1>2, <2>2, <2>3, OneMove, Moved DEF Inv
<1>4. CASE \E pc \in {"call", "clock", "discover", "bootstrap"} : Step(s, pc)
  BY <1>1, <1>2, <1>4, StepMove, Moved DEF Inv, PCs
<1> QED BY <1>3, <1>4 DEF getAuthState, Authed

\* The bootstrap wakes everyone who shares it.
LEMMA BootstrapSafe ==
  ASSUME Inv, NEW s \in Slots, NEW ok \in BOOLEAN, Bootstrap(s, ok)
  PROVE  Inv'
<1>1. UNCHANGED <<us, book>> /\ RequestInv
  BY DEF Bootstrap, Inv
<1>2. ProviderTypeOK'
  BY FaultFact DEF Bootstrap, Inv, ProviderTypeOK
<1>3. DOMAIN req' = Slots /\ req' = [o \in Slots |-> req'[o]]
  BY DEF Bootstrap
<1>4. ASSUME NEW o \in Slots PROVE Follows(req'[o], o)
  <2>1. req[o] \in Requests
    BY <1>1 DEF RequestInv
  <2>2. \/ req'[o] = req[o]
        \/ /\ req[o].pc \in {"authwait", "bootstrap"}
           /\ \E pc \in {"call", "clock", "discover", "verdict", "failed"} :
                req'[o] = [req[o] EXCEPT !.pc = pc, !.on = NoSlot]
    <3>1. CASE ~(o = s \/ (req[o].pc = "authwait" /\ req[o].on = s))
      BY <3>1 DEF Bootstrap
    <3>2. CASE o = s \/ (req[o].pc = "authwait" /\ req[o].on = s)
      <4>1. req[o].pc \in {"authwait", "bootstrap"}
        BY <3>2 DEF Bootstrap
      <4>2. CASE ok
        BY <3>2, <4>1, <4>2 DEF Bootstrap, Authed
      <4>3. CASE ~ok
        BY <3>2, <4>1, <4>3 DEF Bootstrap
      <4> QED BY <4>2, <4>3
    <3> QED BY <3>1, <3>2
  <2>3. ASSUME NEW pc \in {"call", "clock", "discover", "verdict", "failed"},
               req[o].pc \in {"authwait", "bootstrap"},
               req'[o] = [req[o] EXCEPT !.pc = pc, !.on = NoSlot]
        PROVE  Follows(req'[o], o)
    <3> DEFINE r == [req[o] EXCEPT !.pc = pc, !.on = NoSlot]
    <3>1. r \in Requests /\ r.pc = pc /\ r.id = req[o].id
      BY <2>1 DEF Requests, PCs
    <3>2. req'[o] = r
      BY <2>3
    <3> HIDE DEF r
    <3> QED BY <2>3, <3>1, <3>2 DEF Follows
  <2> QED BY <2>2, <2>3 DEF Follows
<1> QED BY <1>1, <1>2, <1>3, <1>4, MoveFact, Moved DEF Inv

LEMMA DiscoverSafe ==
  ASSUME Inv, NEW s \in Slots, NEW m \in Found, NEW o \in Outcomes, Discover(s, m, o)
  PROVE  Inv'
<1>1. /\ UNCHANGED <<us, book, requests>> /\ RequestInv /\ ProviderTypeOK
      /\ req[s].pc = "discover" /\ req[s] \in Requests
  BY DEF Discover, Inv, RequestInv
<1>2. ASSUME NEW k \in Found, Discovered(s, k)
      PROVE  RequestInv' /\ (us.closed => AllFree') /\ last' \in Found
  <2> DEFINE p == IF req[s].kind = "order" THEN "market"
                  ELSE IF k = NoMarkets THEN "observe" ELSE "stream"
             r == [req[s] EXCEPT !.markets = k, !.pc = p]
  <2>1. r \in Requests /\ r.pc = p /\ r.id = req[s].id /\ r.markets = k
    BY <1>1 DEF Requests, PCs
  <2>2. req' = [req EXCEPT ![s] = r]
    BY <1>1, <1>2 DEF Discovered, RequestInv
  <2> HIDE DEF r
  <2>3. Follows(r, s)
    BY <1>1, <2>1 DEF Follows
  <2> QED BY <1>1, <1>2, <2>2, <2>3, OneMove DEF Inv, Discovered
<1>3. ASSUME req' = [req EXCEPT ![s] = Failed(@)]
      PROVE  RequestInv' /\ (us.closed => AllFree')
  <2>1. \E pc \in {"observe", "failed"} : Step(s, pc)
    BY <1>3 DEF Failed, Step
  <2> QED BY <1>1, <2>1, StepMove DEF Inv, PCs
<1>4. RequestInv' /\ (us.closed => AllFree') /\ last' \in Found
  BY <1>1, <1>2, <1>3 DEF Discover, ProviderTypeOK
<1>5. ProviderTypeOK'
  BY <1>1, <1>4, ClobFact DEF Discover, ProviderTypeOK
<1> QED BY <1>1, <1>4, <1>5, Moved

LEMMA EnsureStreamSafe ==
  ASSUME Inv, NEW s \in Slots, EnsureStream(s)
  PROVE  Inv'
<1>1. /\ RequestInv /\ req[s].pc = "stream" /\ req[s] \in Requests
      /\ StreamGood(us) /\ UNCHANGED <<provider, book, bounds>>
  BY DEF Inv, RequestInv, EnsureStream
<1>2. req[s].markets \in Markets /\ ~us.closed
  BY <1>1 DEF RequestInv, Requests, Found, Inv, AllFree
<1>3. StreamGood(us') /\ ~us'.closed
  BY <1>1, <1>2, EnsureFact DEF EnsureStream
<1> DEFINE p == IF Subscribed(us') THEN "observe" ELSE "streamwait"
           r == [req[s] EXCEPT !.markets = NoMarkets, !.pc = p]
<1>4. r \in Requests /\ r.pc = p /\ r.id = req[s].id
  BY <1>1 DEF Requests, PCs, Found
<1>5. req' = [req EXCEPT ![s] = r]
  BY <1>1 DEF EnsureStream, RequestInv
<1> HIDE DEF r
<1>6. Follows(r, s)
  BY <1>1, <1>4 DEF Follows
<1>7. RequestInv'
  BY <1>1, <1>5, <1>6, OneMove DEF Inv
<1> QED BY <1>1, <1>3, <1>7, QuietProvider DEF Inv

-----------------------------------------------------------------------------
\* A check of an intent refuses it or lets it go on.
LEMMA CheckedSafe ==
  ASSUME Inv, NEW s \in Slots, NEW refusal \in Statuses, UNCHANGED <<us, venue>>,
         NEW next \in PCs \ {"free", "stream"}, Checked(s, refusal, next),
         req[s].pc # "free", req[s].pc # "start" \/ answer[req[s].id] = "none"
  PROVE  RequestInv' /\ (us.closed => AllFree')
<1>1. RequestInv /\ req[s] \in Requests /\ ~us.closed
  BY DEF Inv, RequestInv, AllFree
<1>2. CASE Reply(s, refusal, FALSE)
  BY <1>1, <1>2, RefuseFact
<1>3. CASE Step(s, next) /\ UNCHANGED <<answer, told>>
  <2> DEFINE r == [req[s] EXCEPT !.pc = next]
  <2>1. r \in Requests /\ r.pc = next /\ r.id = req[s].id
    BY <1>1 DEF Requests
  <2>2. req' = [req EXCEPT ![s] = r] /\ UNCHANGED book
    BY <1>3 DEF Step, book
  <2> HIDE DEF r
  <2>3. Follows(r, s)
    BY <2>1 DEF Follows
  <2> QED BY <1>1, <2>2, <2>3, OneMove
<1> QED BY <1>2, <1>3 DEF Checked

LEMMA StartOrderSafe ==
  ASSUME Inv, NEW s \in Slots, StartOrder(s)
  PROVE  Inv'
<1>1. /\ RequestInv /\ req[s].pc = "start" /\ ~us.closed
      /\ UNCHANGED <<us, provider, venue, bounds>> /\ ProviderTypeOK
  BY DEF Inv, StartOrder, AllFree
<1>2. venue \in [Ids -> [taken : Nat, late : BOOLEAN]] /\ answer \in [Ids -> Statuses]
  BY <1>1 DEF RequestInv, BookTypeOK
<1>3. CASE answer[req[s].id] # "none"
  <2>1. Reply(s, answer[req[s].id], FALSE)
    BY <1>3 DEF StartOrder
  <2>2. CASE req[s].id \in Ids
    <3>1. answer[req[s].id] \in Statuses
      BY <1>2, <2>2
    <3>2. RequestInv'
      BY <1>1, <1>2, <2>1, <3>1, ReplyFact
    <3> QED BY <1>1, <3>2, QuietProvider DEF Inv
  <2>3. CASE req[s].id \notin Ids
    <3>1. UNCHANGED <<answer, told>> /\ Done(s)
      BY <1>1, <1>2, <2>1, <2>3 DEF Reply, RequestInv, BookTypeOK
    <3>2. RequestInv'
      BY <1>1, <3>1, DoneMove DEF book
    <3> QED BY <1>1, <3>2, QuietProvider DEF Inv
  <2> QED BY <2>2, <2>3
<1>4. CASE answer[req[s].id] = "none"
  <2>1. Checked(s, "invalid", "auth")
    BY <1>4 DEF StartOrder
  <2>2. RequestInv' /\ (us.closed => AllFree')
    BY <1>1, <1>4, <2>1, CheckedSafe DEF PCs, Statuses
  <2> QED BY <1>1, <2>2, Moved, QuietProvider
<1> QED BY <1>3, <1>4

LEMMA ValidateSafe ==
  ASSUME Inv, NEW s \in Slots, ValidateMarket(s)
  PROVE  Inv'
<1>1. /\ RequestInv /\ req[s].pc = "market" /\ ~us.closed
      /\ UNCHANGED <<us, provider, venue, bounds>> /\ ProviderTypeOK
  BY DEF Inv, ValidateMarket, AllFree
<1>2. Checked(s, "invalid", "observe")
  BY DEF ValidateMarket, Checked
<1>3. RequestInv' /\ (us.closed => AllFree')
  BY <1>1, <1>2, CheckedSafe DEF PCs, Statuses
<1> QED BY <1>1, <1>3, Moved, QuietProvider

LEMMA ObserveOkSafe ==
  ASSUME Inv, NEW s \in Slots, ObserveOk(s)
  PROVE  Inv'
<1>1. /\ RequestInv /\ req[s].pc = "observe" /\ ~us.closed
      /\ UNCHANGED <<us, auth, boot, last, venue, bounds>>
  BY DEF Inv, ObserveOk, AllFree
<1>2. ProviderTypeOK'
  BY <1>1 DEF ObserveOk, Inv, ProviderTypeOK, bounds
<1>3. CASE Checked(s, "unfunded", "post")
  <2>1. RequestInv' /\ (us.closed => AllFree')
    BY <1>1, <1>3, CheckedSafe DEF PCs, Statuses
  <2> QED BY <1>1, <1>2, <2>1, Moved
<1>4. CASE (Step(s, "verdict") \/ Done(s)) /\ UNCHANGED <<answer, told>>
  <2>1. RequestInv' /\ (us.closed => AllFree')
    BY <1>1, <1>4, StepMove, DoneMove DEF PCs, book
  <2> QED BY <1>1, <1>2, <2>1, Moved
<1> QED BY <1>3, <1>4 DEF ObserveOk, validateOrderAccount

LEMMA ObserveFailsSafe ==
  ASSUME Inv, NEW s \in Slots, NEW o, ObserveFails(s, o)
  PROVE  Inv'
<1>1. RequestInv /\ req[s].pc = "observe" /\ UNCHANGED <<us, last, book, requests>>
  BY DEF Inv, ObserveFails
<1>2. ProviderTypeOK'
  BY <1>1, ClobFact DEF ObserveFails, Inv, ProviderTypeOK
<1>3. \E pc \in {"verdict", "failed"} : Step(s, pc)
  BY DEF ObserveFails, Step
<1>4. RequestInv' /\ (us.closed => AllFree')
  BY <1>1, <1>3, StepMove DEF Inv, PCs
<1> QED BY <1>1, <1>2, <1>4, Moved

\* The catch block, and a venue that says it took nothing.
LEMMA RefusalsSafe ==
  ASSUME Inv, NEW s \in Slots, PostRefused425(s) \/ AnswerFailed(s)
  PROVE  Inv'
<1>1. /\ RequestInv /\ req[s].pc \in {"post", "failed"} /\ ~us.closed
      /\ UNCHANGED <<us, venue, auth, boot, last, requests>> /\ ProviderTypeOK
  BY DEF Inv, PostRefused425, AnswerFailed, AllFree, provider, bounds
<1>2. ProviderTypeOK'
  BY <1>1, FaultFact DEF PostRefused425, AnswerFailed, ProviderTypeOK, provider, bounds
<1>3. CASE \E status \in {"unknown", "venue_restart"} : Reply(s, status, TRUE)
  <2>1. RequestInv'
    BY <1>1, <1>3, RefuseFact DEF Statuses
  <2> QED BY <1>1, <1>2, <2>1 DEF Inv
<1>4. CASE Done(s) /\ UNCHANGED <<answer, told>>
  <2>1. RequestInv'
    BY <1>1, <1>4, DoneMove DEF book
  <2> QED BY <1>1, <1>2, <2>1 DEF Inv
<1> QED BY <1>3, <1>4 DEF PostRefused425, AnswerFailed

\* A post whose outcome the sidecar does not know, or does.
LEMMA PostSafe ==
  ASSUME Inv, NEW s \in Slots, NEW status \in {"submitted", "rejected", "unknown"},
         Reply(s, status, TRUE), req[s].pc = "post", UNCHANGED us, ProviderTypeOK',
         \/ venue' = venue
         \/ /\ status # "rejected"
            /\ \/ venue' = [venue EXCEPT ![req[s].id].taken = @ + 1]
               \/ venue' = [venue EXCEPT ![req[s].id].late = TRUE]
  PROVE  Inv'
<1> DEFINE c == req[s].id
<1>1. RequestInv /\ ~us.closed /\ venue \in [Ids -> [taken : Nat, late : BOOLEAN]]
  BY DEF Inv, AllFree, RequestInv, BookTypeOK
<1>2. c \in Ids => answer[c] = "none" /\ venue[c].taken = 0 /\ ~venue[c].late
  BY <1>1, BegunFact
<1>3. /\ venue' \in [Ids -> [taken : Nat, late : BOOLEAN]]
      /\ \A d \in Ids : d # c => venue'[d] = venue[d]
      /\ c \in Ids => /\ venue'[c].taken + (IF venue'[c].late THEN 1 ELSE 0) <= 1
                      /\ venue'[c].taken > 0 \/ venue'[c].late => status # "rejected"
  <2>1. CASE venue' = venue
    BY <1>1, <1>2, <2>1
  <2>2. CASE /\ status # "rejected"
             /\ venue' = [venue EXCEPT ![c].taken = @ + 1]
    <3> DEFINE v == [venue[c] EXCEPT !.taken = @ + 1]
    <3>1. venue' = [venue EXCEPT ![c] = v]
      BY <2>2
    <3>2. c \in Ids => /\ v \in [taken : Nat, late : BOOLEAN]
                       /\ v.taken = 1 /\ ~v.late
      BY <1>1, <1>2
    <3>3. status # "rejected"
      BY <2>2
    <3> HIDE DEF v
    <3>4. c \in Ids => venue'[c] = v
      BY <1>1, <3>1
    <3>5. venue' \in [Ids -> [taken : Nat, late : BOOLEAN]]
      BY <1>1, <3>1, <3>2
    <3>6. \A d \in Ids : d # c => venue'[d] = venue[d]
      BY <1>1, <3>1
    <3> QED BY <3>2, <3>3, <3>4, <3>5, <3>6
  <2>3. CASE /\ status # "rejected"
             /\ venue' = [venue EXCEPT ![c].late = TRUE]
    <3> DEFINE v == [venue[c] EXCEPT !.late = TRUE]
    <3>1. venue' = [venue EXCEPT ![c] = v]
      BY <2>3
    <3>2. c \in Ids => /\ v \in [taken : Nat, late : BOOLEAN]
                       /\ v.taken = 0
      BY <1>1, <1>2
    <3>3. status # "rejected"
      BY <2>3
    <3> HIDE DEF v
    <3>4. c \in Ids => venue'[c] = v
      BY <1>1, <3>1
    <3>5. venue' \in [Ids -> [taken : Nat, late : BOOLEAN]]
      BY <1>1, <3>1, <3>2
    <3>6. \A d \in Ids : d # c => venue'[d] = venue[d]
      BY <1>1, <3>1
    <3> QED BY <3>2, <3>3, <3>4, <3>5, <3>6
  <2> QED BY <2>1, <2>2, <2>3
<1>4. RequestInv'
  BY <1>1, <1>2, <1>3, ReplyFact DEF Statuses
<1> QED BY <1>1, <1>4 DEF Inv

LEMMA PostsSafe ==
  ASSUME Inv, NEW s \in Slots,
         \/ \E o \in Outcomes : PostUnknown(s, o)
         \/ \E taken \in BOOLEAN : PostAnswered(s, taken)
  PROVE  Inv'
<1>1. ASSUME NEW o \in Outcomes, PostUnknown(s, o) PROVE Inv'
  <2>1. ProviderTypeOK'
    BY <1>1, ClobFact DEF PostUnknown, PostFails, Inv, ProviderTypeOK
  <2> QED BY <1>1, <2>1, PostSafe DEF PostUnknown, PostFails
<1>2. ASSUME NEW taken \in BOOLEAN, PostAnswered(s, taken) PROVE Inv'
  <2>1. ProviderTypeOK'
    BY <1>2, QuietProvider DEF PostAnswered, Inv
  <2>2. CASE taken
    BY <1>2, <2>1, <2>2, PostSafe DEF PostAnswered, normalizeOrderStatus
  <2>3. CASE ~taken
    <3>1. venue' = venue
      BY <1>2, <2>3 DEF PostAnswered, Inv, RequestInv, BookTypeOK
    <3> QED BY <1>2, <2>1, <2>3, <3>1, PostSafe DEF PostAnswered, normalizeOrderStatus
  <2> QED BY <2>2, <2>3
<1> QED BY <1>1, <1>2

LEMMA LatePostSafe ==
  ASSUME Inv, NEW c \in Ids, LatePost(c)
  PROVE  Inv'
<1>1. /\ RequestInv /\ venue \in [Ids -> [taken : Nat, late : BOOLEAN]]
      /\ UNCHANGED <<us, req, provider, answer, told, bounds>> /\ ProviderTypeOK
  BY DEF Inv, RequestInv, BookTypeOK, LatePost
<1>2. /\ venue' \in [Ids -> [taken : Nat, late : BOOLEAN]] /\ venue[c].late
      /\ venue'[c].taken = venue[c].taken + 1 /\ ~venue'[c].late
      /\ \A d \in Ids : d # c => venue'[d] = venue[d]
  BY <1>1 DEF LatePost
<1>3. BookTypeOK' /\ PostedIsAnswered' /\ OneOrderPerId'
  BY <1>1, <1>2 DEF RequestInv, BookTypeOK, PostedIsAnswered, OneOrderPerId
<1>4. OneRequestPerId' /\ AnsweredIsOver'
  BY <1>1 DEF RequestInv, OneRequestPerId, AnsweredIsOver
<1>5. RequestInv'
  BY <1>1, <1>3, <1>4 DEF RequestInv
<1> QED BY <1>1, <1>5, QuietProvider DEF Inv, AllFree

LEMMA AcceptSafe ==
  ASSUME Inv, NEW s \in Slots, NEW kind \in Kinds, NEW c \in Ids \cup {NoId},
         Accept(s, kind, c)
  PROVE  Inv'
<1> DEFINE p == IF kind = "order" THEN "start"
                ELSE IF kind = "preflight" THEN "geoblock" ELSE "auth"
           r == [Free EXCEPT !.kind = kind, !.id = c, !.pc = p]
<1>1. RequestInv /\ req \in [Slots -> Requests] /\ UNCHANGED <<us, provider, book, faults>>
  BY DEF Inv, RequestInv, Accept
<1>2. r \in Requests /\ r.id = c /\ r.pc = p
  BY DEF Free, Requests, PCs, Kinds, Found
<1>3. req' = [req EXCEPT ![s] = r] /\ ~us.closed
  BY DEF Accept
<1>4. /\ kind = "order" <=> c # NoId
      /\ \A o \in Slots : c # NoId => req[o].id # c
  BY DEF Accept
<1> HIDE DEF r
<1>5. /\ req' \in [Slots -> Requests] /\ req'[s] = r
      /\ \A o \in Slots : o # s => req'[o] = req[o]
  BY <1>1, <1>2, <1>3
<1>6. OneRequestPerId'
  BY <1>1, <1>2, <1>4, <1>5 DEF OneRequestPerId, RequestInv
<1>7. AnsweredIsOver'
  BY <1>1, <1>2, <1>4, <1>5 DEF AnsweredIsOver, RequestInv, book
<1>8. BookTypeOK' /\ PostedIsAnswered' /\ OneOrderPerId'
  BY <1>1 DEF RequestInv, book, BookTypeOK, PostedIsAnswered, OneOrderPerId
<1>9. \A o \in Slots : req'[o].pc = "stream" => req'[o].markets # NoMarkets
  BY <1>1, <1>2, <1>5 DEF RequestInv
<1>10. ProviderTypeOK'
  BY DEF Accept, Inv, ProviderTypeOK, provider
<1> QED BY <1>1, <1>3, <1>5, <1>6, <1>7, <1>8, <1>9, <1>10 DEF Inv, RequestInv

-----------------------------------------------------------------------------
(***************************************************************************)
(* The specification.                                                      *)
(***************************************************************************)
LEMMA RequestStepSafe ==
  ASSUME Inv, NEW s \in Slots, RequestStep(s)
  PROVE  Inv'
BY StartOrderSafe, AuthSafe, SimpleMoves, BootstrapSafe, DiscoverSafe, EnsureStreamSafe,
   ValidateSafe, ObserveOkSafe, ObserveFailsSafe, PostsSafe, RefusalsSafe
   DEF RequestStep

LEMMA NextSafe ==
  ASSUME Inv, [Next]_vars
  PROVE  Inv'
<1>1. CASE Next
  BY <1>1, RequestStepSafe, AcceptSafe, StreamActions, LatePostSafe, CloseSafe
     DEF Next, StreamStep
<1>2. CASE UNCHANGED vars
  <2>1. UNCHANGED <<us, req, book, provider, bounds>>
    BY <1>2 DEF vars, book, provider, bounds
  <2>2. RequestInv'
    BY <2>1 DEF Inv, RequestInv, book, BookTypeOK, OneRequestPerId, AnsweredIsOver,
                PostedIsAnswered, OneOrderPerId
  <2> QED BY <2>1, <2>2, QuietProvider DEF Inv, AllFree
<1> QED BY <1>1, <1>2

LEMMA InitSafe ==
  ASSUME Init
  PROVE  Inv
<1>1. StreamGood(us) /\ ~us.closed
  BY DEF Init, StreamGood, Streams, Found, Wanted
<1>2. ProviderTypeOK
  <2>1. health \in [refreshed : BOOLEAN, accountErr : BOOLEAN, discoveryErr : BOOLEAN]
    BY DEF Init
  <2>2. auth \in BOOLEAN
    BY DEF Init
  <2>3. requests \in 0..MaxRequests /\ faults \in 0..MaxFaults
    BY DEF Init
  <2> QED BY <2>1, <2>2, <2>3 DEF Init, ProviderTypeOK, Found
<1>3. req \in [Slots -> Requests] /\ \A s \in Slots : req[s] = Free
  BY FreeFact DEF Init
<1>4. BookTypeOK /\ PostedIsAnswered /\ OneOrderPerId
  BY DEF Init, BookTypeOK, PostedIsAnswered, OneOrderPerId, Statuses
<1>5. RequestInv
  BY <1>3, <1>4, FreeFact DEF RequestInv, OneRequestPerId, AnsweredIsOver
<1> QED BY <1>1, <1>2, <1>5 DEF Inv

LEMMA SidecarInvariant == Spec => []IInv
<1>1. Init => IInv
  BY InitSafe, IInvParts DEF Inv
<1>2. IInv /\ [Next]_vars => IInv'
  <2>1. IInv /\ [Next]_vars => Inv'
    BY NextSafe, IInvParts DEF Inv
  <2>2. Inv' => IInv'
    BY IInvParts, PTL DEF Inv
  <2> QED BY <2>1, <2>2
<1> QED BY <1>1, <1>2, PTL DEF Spec

\* Requests that interleave at every await, a shared bootstrap and a stream
\* that comes and goes keep the provider's state well typed.
THEOREM SidecarTypeCorrect == Spec => []TypeOK
<1>1. IInv => TypeOK
  BY DEF IInv
<1> QED BY <1>1, SidecarInvariant, PTL

\* submitOrderIntent never lets the venue take two orders for one client order
\* id: every outcome of a post, a timeout included, is kept in
\* submittedOrderResponses before the id can be asked about again.
THEOREM VenueTakesOnePerId == Spec => []OneOrderPerId
<1>1. IInv => OneOrderPerId
  BY DEF IInv
<1> QED BY <1>1, SidecarInvariant, PTL

\* An order that is, or may yet be, at the venue was last reported to the bot
\* as submitted or unknown, however often the bot asked again.
THEOREM TakenOrdersAreReported == Spec => []TakenIsReported
<1>1. IInv => TakenIsReported
  BY DEF IInv, PostedIsAnswered, TakenIsReported
<1> QED BY <1>1, SidecarInvariant, PTL

\* A user stream that is wanted and down has a reconnect timer or an attempt
\* whose promise is pending, after any order of timeouts, errors, heartbeats,
\* changes of the desired markets and a close.
THEOREM WantedStreamIsPursued == Spec => []StreamNeverStalls
<1>1. IInv => StreamNeverStalls
  BY DEF IInv
<1> QED BY <1>1, SidecarInvariant, PTL
=============================================================================
