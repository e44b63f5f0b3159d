------------------------ MODULE LiveSubmissionProofs ------------------------
(***************************************************************************)
(* Proofs about LiveSubmission, for every queue capacity, every set of     *)
(* tokens and batches, every bound and every cap.                          *)
(*                                                                         *)
(* Types cannot be proved alone: that an action stores the id of a real    *)
(* intent, or the token of a real leg, rests on what the worker holds at   *)
(* each control point (AtWork).  The venue properties rest on Boundary,    *)
(* the account of a batch on NamedSoFar, no silent fill on AnswerInHand,   *)
(* and the on-chain verdicts on VerdictsAreCovered.                        *)
(***************************************************************************)
EXTENDS LiveSubmission, TLAPS, FiniteSetTheorems, SequenceTheorems

-----------------------------------------------------------------------------
(* Facts about the data. *)

\* An order in hand is one of the batch's tokens.
LEMMA LegFacts ==
    ASSUME NEW b \in Batches
    PROVE  /\ b.legs \in Seq(Tokens) /\ Len(b.legs) \in Nat \ {0}
           /\ \A k \in 1..Len(b.legs) : b.legs[k] \in Tokens
BY ConstantsAssumption

\* The lists of released and filled orders stay lists of numbers.
LEMMA AppendNat == \A s \in Seq(Nat), n \in Nat : Append(s, n) \in Seq(Nat)
OBVIOUS

\* release_unsubmitted_orders_after_block lists the orders behind a blocked one.
LEMMA TailReleases ==
    ASSUME NEW l \in Nat, NEW n \in Nat, l <= n
    PROVE  [k \in 1..(n - l) |-> l + k] \in Seq(Nat)
<1> DEFINE f == [k \in 1..(n - l) |-> l + k]
<1>1. n - l \in Nat OBVIOUS
<1>2. f \in [1..(n - l) -> Nat] OBVIOUS
<1> QED BY <1>1, <1>2, SMT

\* accepted_size is a size, or absent.
LEMMA SizeFacts == \A r : AcceptedSize(r) \in {NoRow, Null} \cup 0..(Full + 1)
BY DEF AcceptedSize, Full, Null

\* So the releases of a blocked batch are well typed.
LEMMA ReleasesTyped ==
    ASSUME NEW r \in Seq(Nat), NEW l \in Nat, NEW n \in Nat, l <= n, NEW release \in BOOLEAN
    PROVE  r \o (IF release THEN << l >> ELSE << >>) \o [k \in 1..(n - l) |-> l + k] \in Seq(Nat)
<1> DEFINE a == r \o (IF release THEN << l >> ELSE << >>)
           b == [k \in 1..(n - l) |-> l + k]
<1>1. b \in Seq(Nat) BY TailReleases
<1>2. (IF release THEN << l >> ELSE << >>) \in Seq(Nat) OBVIOUS
<1>3. a \in Seq(Nat) BY <1>2
<1> HIDE DEF a, b
<1>4. a \o b \in Seq(Nat) BY <1>1, <1>3
<1> QED BY <1>4 DEF a, b

-----------------------------------------------------------------------------
(* The two ways an order ends, Rejected and Blocked. *)

\* What both leave behind: a typed worker that holds no intent and is either
\* at the next order of the batch or done with it.
OrderDone ==
    /\ WorkerTypeOK' /\ releases' \in Seq(Nat) /\ fills' \in Seq(Nat)
    /\ released' \subseteq Intents
    /\ pc' \in {"persist", "emit"}
    /\ batch' \in Batches
    /\ pc' = "persist" => leg' \in 1..Len(batch'.legs)

\* The worker with an order in hand holds a leg of a batch, in a live session.
LEMMA HoldsLeg ==
    ASSUME TypeOK, AtWork, pc \in InHand \cup {"persist"}
    PROVE  /\ session # 0 /\ session = sessions /\ session \in Sessions
           /\ batch \in Batches
           /\ Len(batch.legs) \in Nat /\ leg \in Nat /\ leg \in 1..Len(batch.legs)
           /\ batch.legs[leg] \in Tokens
<1>1. session # 0 /\ session = sessions /\ session \in Sessions
  BY ConstantsAssumption DEF TypeOK, LedgerTypeOK, AtWork, InHand, Sessions, Pcs
<1>2. batch \in Batches /\ leg \in 1..Len(batch.legs) BY DEF AtWork, InHand, Pcs
<1> QED BY <1>1, <1>2, LegFacts DEF TypeOK, WorkerTypeOK

\* NextOrder moves to the next leg, or past the last one.
LEMMA AfterNextOrder ==
    ASSUME TypeOK, AtWork, pc \in InHand \cup {"persist"}, NextOrder, UNCHANGED update
    PROVE  /\ WorkerTypeOK' /\ pc' \in {"persist", "emit"} /\ batch' \in Batches
           /\ pc' = "persist" => leg' \in 1..Len(batch'.legs)
BY HoldsLeg, ConstantsAssumption DEF TypeOK, WorkerTypeOK, NextOrder, Pcs

\* A Rejected (or DryRun) result.
LEMMA AfterRejected ==
    ASSUME TypeOK, AtWork, pc \in InHand \cup {"persist"}, NEW i \in Intents, Rejected(i)
    PROVE  OrderDone
<1>1. /\ WorkerTypeOK' /\ pc' \in {"persist", "emit"} /\ batch' \in Batches
      /\ pc' = "persist" => leg' \in 1..Len(batch'.legs)
  BY AfterNextOrder DEF Rejected
<1>2. releases' \in Seq(Nat) /\ fills' \in Seq(Nat)
  BY AppendNat DEF Rejected, TypeOK, WorkerTypeOK, SequencesTypeOK
<1>3. released' \subseteq Intents BY DEF Rejected, TypeOK, HistoryTypeOK
<1> QED BY <1>1, <1>2, <1>3 DEF OrderDone

\* A Blocked result.
LEMMA AfterBlocked ==
    ASSUME TypeOK, AtWork, pc \in InHand \cup {"persist"},
           NEW state \in Updates, NEW release \in BOOLEAN, Blocked(state, release)
    PROVE  OrderDone /\ pc' = "emit"
<1>1. releases' \in Seq(Nat)
  <2> DEFINE n == Len(batch.legs)
  <2>1. releases \in Seq(Nat) /\ leg \in Nat /\ n \in Nat /\ leg <= n
    BY HoldsLeg DEF TypeOK, SequencesTypeOK
  <2> HIDE DEF n
  <2>2. releases \o (IF release THEN << leg >> ELSE << >>)
                 \o [k \in 1..(n - leg) |-> leg + k] \in Seq(Nat)
    BY <2>1, ReleasesTyped
  <2> QED BY <2>2 DEF Blocked, n, ReleaseUnsubmitted
<1>2. fills' \in Seq(Nat) BY DEF Blocked, TypeOK, SequencesTypeOK
<1>3. released' \subseteq Intents
  BY ConstantsAssumption DEF Blocked, TypeOK, WorkerTypeOK, HistoryTypeOK, Intents
<1>4. WorkerTypeOK'
  BY ConstantsAssumption DEF Blocked, TypeOK, WorkerTypeOK, Pcs
<1>5. pc' = "emit" /\ batch' \in Batches BY HoldsLeg DEF Blocked
<1> QED BY <1>1, <1>2, <1>3, <1>4, <1>5 DEF OrderDone

-----------------------------------------------------------------------------
(* Types: one lemma per action that ends an order, one for the others. *)

\* An action that ends an order and leaves the rest of the process alone keeps
\* the types, if what it writes to the database does.
LEMMA EndsOrder ==
    ASSUME TypeOK, AtWork, pc # "idle", OrderDone, LedgerTypeOK', faults' \in 0..MaxFaults,
           UNCHANGED << session, queue, verifier, venue, alarmed >>
    PROVE  TypeOK' /\ AtWork'
<1>1. SequencesTypeOK' BY DEF TypeOK, SequencesTypeOK, OrderDone
<1>2. VenueTypeOK' /\ HistoryTypeOK'
  BY DEF TypeOK, VenueTypeOK, HistoryTypeOK, OrderDone, venue
<1>3. AtWork' BY DEF AtWork, OrderDone, InHand, Pcs
<1> QED BY <1>1, <1>2, <1>3 DEF TypeOK, OrderDone

\* PersistIntentFails ends its order with a Blocked result.
LEMMA PersistIntentFailsTypes == TypeOK /\ AtWork /\ PersistIntentFails => TypeOK' /\ AtWork'
<1> SUFFICES ASSUME TypeOK, AtWork, PersistIntentFails PROVE TypeOK' /\ AtWork' OBVIOUS
<1>1. pc \in InHand \cup {"persist"} /\ pc # "idle" BY DEF PersistIntentFails, InHand, Pcs
<1>2. pc \in InHand => iid \in Intents BY DEF AtWork
<1>3. OrderDone BY <1>1, <1>2, AfterBlocked DEF Updates, PersistIntentFails, InHand, Pcs
<1>4. LedgerTypeOK' /\ faults' \in 0..MaxFaults
  BY <1>1, <1>2, HoldsLeg, ConstantsAssumption
  DEF TypeOK, LedgerTypeOK, HistoryTypeOK, IntentStatuses, InHand, Pcs, PersistIntentFails, DbFails, ledger
<1> QED BY <1>1, <1>3, <1>4, EndsOrder DEF PersistIntentFails

\* ReserveFails ends its order with a Blocked result.
LEMMA ReserveFailsTypes == TypeOK /\ AtWork /\ ReserveFails => TypeOK' /\ AtWork'
<1> SUFFICES ASSUME TypeOK, AtWork, ReserveFails PROVE TypeOK' /\ AtWork' OBVIOUS
<1>1. pc \in InHand \cup {"persist"} /\ pc # "idle" BY DEF ReserveFails, InHand, Pcs
<1>2. pc \in InHand => iid \in Intents BY DEF AtWork
<1>3. OrderDone BY <1>1, <1>2, AfterBlocked DEF Updates, ReserveFails, InHand, Pcs
<1>4. LedgerTypeOK' /\ faults' \in 0..MaxFaults
  BY <1>1, <1>2, HoldsLeg, ConstantsAssumption
  DEF TypeOK, LedgerTypeOK, HistoryTypeOK, IntentStatuses, InHand, Pcs, ReserveFails, DbFails, ledger
<1> QED BY <1>1, <1>3, <1>4, EndsOrder DEF ReserveFails

\* MarkIntentSubmittingFails ends its order with a Blocked result.
LEMMA MarkIntentSubmittingFailsTypes == TypeOK /\ AtWork /\ MarkIntentSubmittingFails => TypeOK' /\ AtWork'
<1> SUFFICES ASSUME TypeOK, AtWork, MarkIntentSubmittingFails PROVE TypeOK' /\ AtWork' OBVIOUS
<1>1. pc \in InHand \cup {"persist"} /\ pc # "idle" BY DEF MarkIntentSubmittingFails, InHand, Pcs
<1>2. pc \in InHand => iid \in Intents BY DEF AtWork
<1>3. OrderDone BY <1>1, <1>2, AfterBlocked DEF Updates, MarkIntentSubmittingFails, InHand, Pcs
<1>4. LedgerTypeOK' /\ faults' \in 0..MaxFaults
  BY <1>1, <1>2, HoldsLeg, ConstantsAssumption
  DEF TypeOK, LedgerTypeOK, HistoryTypeOK, IntentStatuses, InHand, Pcs, MarkIntentSubmittingFails, DbFails, ledger
<1> QED BY <1>1, <1>3, <1>4, EndsOrder DEF MarkIntentSubmittingFails

\* PersistOrderResponseFails ends its order with a Blocked result.
LEMMA PersistOrderResponseFailsTypes == TypeOK /\ AtWork /\ PersistOrderResponseFails => TypeOK' /\ AtWork'
<1> SUFFICES ASSUME TypeOK, AtWork, PersistOrderResponseFails PROVE TypeOK' /\ AtWork' OBVIOUS
<1>1. pc \in InHand \cup {"persist"} /\ pc # "idle" BY DEF PersistOrderResponseFails, InHand, Pcs
<1>2. pc \in InHand => iid \in Intents BY DEF AtWork
<1>3. OrderDone BY <1>1, <1>2, AfterBlocked DEF Updates, PersistOrderResponseFails, InHand, Pcs
<1>4. LedgerTypeOK' /\ faults' \in 0..MaxFaults
  BY <1>1, <1>2, HoldsLeg, ConstantsAssumption
  DEF TypeOK, LedgerTypeOK, HistoryTypeOK, IntentStatuses, InHand, Pcs, PersistOrderResponseFails, DbFails, ledger
<1> QED BY <1>1, <1>3, <1>4, EndsOrder DEF PersistOrderResponseFails

\* ResponseRejected ends its order with a Rejected result.
LEMMA ResponseRejectedTypes == TypeOK /\ AtWork /\ ResponseRejected => TypeOK' /\ AtWork'
<1> SUFFICES ASSUME TypeOK, AtWork, ResponseRejected PROVE TypeOK' /\ AtWork' OBVIOUS
<1>1. pc \in InHand \cup {"persist"} /\ pc # "idle" BY DEF ResponseRejected, InHand, Pcs
<1>2. pc \in InHand => iid \in Intents BY DEF AtWork
<1>3. OrderDone BY <1>1, <1>2, AfterRejected DEF ResponseRejected, InHand, Pcs
<1>4. LedgerTypeOK' /\ faults' \in 0..MaxFaults
  BY <1>1, <1>2, HoldsLeg, ConstantsAssumption
  DEF TypeOK, LedgerTypeOK, HistoryTypeOK, IntentStatuses, InHand, Pcs, ResponseRejected, DbOk, ledger
<1> QED BY <1>1, <1>3, <1>4, EndsOrder DEF ResponseRejected

\* ResponseBlocks ends its order with a Blocked result.
LEMMA ResponseBlocksTypes == TypeOK /\ AtWork /\ ResponseBlocks => TypeOK' /\ AtWork'
<1> SUFFICES ASSUME TypeOK, AtWork, ResponseBlocks PROVE TypeOK' /\ AtWork' OBVIOUS
<1>1. pc \in InHand \cup {"persist"} /\ pc # "idle" BY DEF ResponseBlocks, InHand, Pcs
<1>2. pc \in InHand => iid \in Intents BY DEF AtWork
<1>3. OrderDone BY <1>1, <1>2, AfterBlocked DEF Updates, ResponseBlocks, InHand, Pcs
<1>4. LedgerTypeOK' /\ faults' \in 0..MaxFaults
  BY <1>1, <1>2, HoldsLeg, ConstantsAssumption
  DEF TypeOK, LedgerTypeOK, HistoryTypeOK, IntentStatuses, InHand, Pcs, ResponseBlocks, DbOk, DbFails, PersistUnknownOrder
<1> QED BY <1>1, <1>3, <1>4, EndsOrder DEF ResponseBlocks

\* RecordUnknownState ends its order with a Blocked result.
LEMMA RecordUnknownStateTypes == TypeOK /\ AtWork /\ RecordUnknownState => TypeOK' /\ AtWork'
<1> SUFFICES ASSUME TypeOK, AtWork, RecordUnknownState PROVE TypeOK' /\ AtWork' OBVIOUS
<1>1. pc \in InHand \cup {"persist"} /\ pc # "idle" BY DEF RecordUnknownState, InHand, Pcs
<1>2. pc \in InHand => iid \in Intents BY DEF AtWork
<1>3. OrderDone BY <1>1, <1>2, AfterBlocked DEF Updates, RecordUnknownState, InHand, Pcs
<1>4. LedgerTypeOK' /\ faults' \in 0..MaxFaults
  BY <1>1, <1>2, HoldsLeg, ConstantsAssumption
  DEF TypeOK, LedgerTypeOK, HistoryTypeOK, IntentStatuses, InHand, Pcs, RecordUnknownState, DbOk, DbFails, PersistUnknownOrder
<1> QED BY <1>1, <1>3, <1>4, EndsOrder DEF RecordUnknownState

\* DryRunLiveOrder ends its order with a Rejected result.
LEMMA DryRunLiveOrderTypes == TypeOK /\ AtWork /\ DryRunLiveOrder => TypeOK' /\ AtWork'
<1> SUFFICES ASSUME TypeOK, AtWork, DryRunLiveOrder PROVE TypeOK' /\ AtWork' OBVIOUS
<1>1. pc \in InHand \cup {"persist"} /\ pc # "idle" BY DEF DryRunLiveOrder, InHand, Pcs
<1>2. pc \in InHand => iid \in Intents BY DEF AtWork
<1>3. OrderDone BY <1>1, <1>2, AfterRejected DEF DryRunLiveOrder, InHand, Pcs
<1>4. LedgerTypeOK' /\ faults' \in 0..MaxFaults
  <2>1. faults' \in 0..MaxFaults
    BY ConstantsAssumption DEF TypeOK, HistoryTypeOK, DryRunLiveOrder, DbOk, DbFails
  <2>2. intentStatus' \in [Intents -> IntentStatuses]
    BY DEF TypeOK, LedgerTypeOK, IntentStatuses, DryRunLiveOrder
  <2> QED BY <2>1, <2>2 DEF TypeOK, LedgerTypeOK, DryRunLiveOrder
<1> QED BY <1>1, <1>3, <1>4, EndsOrder DEF DryRunLiveOrder

\* PersistIntent writes a row for the order in hand; a pre-submit rejection
\* ends it, else the worker holds the row's id.
LEMMA PersistIntentTypes == TypeOK /\ AtWork /\ PersistIntent => TypeOK' /\ AtWork'
<1> SUFFICES ASSUME TypeOK, AtWork, PersistIntent PROVE TypeOK' /\ AtWork' OBVIOUS
<1>1. pc \in InHand \cup {"persist"} /\ pc # "idle" BY DEF PersistIntent
<1>2. nextIntent \in Intents
  BY ConstantsAssumption DEF PersistIntent, TypeOK, LedgerTypeOK, Intents
<1>3. LedgerTypeOK' /\ faults' \in 0..MaxFaults
  <2>1. faults' \in 0..MaxFaults BY DEF TypeOK, HistoryTypeOK, PersistIntent, DbOk
  <2>2. intentStatus' \in [Intents -> IntentStatuses]
    BY DEF TypeOK, LedgerTypeOK, PersistIntent, IntentStatuses
  <2>3. intentSession' \in [Intents -> 0..MaxSessions]
    BY <1>1, HoldsLeg DEF TypeOK, LedgerTypeOK, PersistIntent, Sessions
  <2>4. intentToken' \in [Intents -> Tokens \cup {"none"}]
    BY <1>1, HoldsLeg DEF TypeOK, LedgerTypeOK, PersistIntent
  <2>5. nextIntent' \in 1..(MaxIntents + 1)
    BY ConstantsAssumption DEF TypeOK, LedgerTypeOK, PersistIntent
  <2> QED BY <2>1, <2>2, <2>3, <2>4, <2>5 DEF TypeOK, LedgerTypeOK, PersistIntent
<1>4. CASE Rejected(nextIntent)
  <2>1. OrderDone BY <1>1, <1>2, <1>4, AfterRejected
  <2> QED BY <1>1, <1>3, <2>1, EndsOrder DEF PersistIntent
<1>5. CASE /\ pc' = "reserve" /\ iid' = nextIntent
           /\ UNCHANGED << batch, leg, resp, feedback, released >>
  <2>1. WorkerTypeOK' BY <1>2, <1>5 DEF TypeOK, WorkerTypeOK, feedback, Pcs, Intents
  <2>2. SequencesTypeOK'
    BY <1>5 DEF TypeOK, SequencesTypeOK, feedback, PersistIntent
  <2>3. VenueTypeOK' /\ HistoryTypeOK'
    BY <1>3, <1>5 DEF TypeOK, VenueTypeOK, HistoryTypeOK, PersistIntent, venue
  <2>4. session' = session /\ intentSession'[iid'] = session /\ iid' < nextIntent'
    BY <1>2, <1>5 DEF PersistIntent, TypeOK, LedgerTypeOK, Intents
  <2>5. AtWork' BY <1>1, <1>2, <1>5, <2>4, HoldsLeg DEF AtWork, InHand, Pcs
  <2> QED BY <1>3, <2>1, <2>2, <2>3, <2>5 DEF TypeOK
<1> QED BY <1>4, <1>5 DEF PersistIntent

\* The compare-and-set went through: no earlier attempt, and room under the caps.
ReserveSucceeds ==
    /\ DbOk /\ attempted' = attempted \cup {iid} /\ pc' \in {"dry", "mark"}
    /\ UNCHANGED << batch, leg, iid, resp, feedback, terminalRows, released >>
    /\ MaxSessionOrders = 0 \/ Cardinality(AttemptedIn(session)) < MaxSessionOrders

\* reserve_live_order_submission has three outcomes.
LEMMA ReserveCases ==
    ASSUME ReserveLiveOrderSubmission
    PROVE  \/ ReserveSucceeds
           \/ DbOk /\ Rejected(iid) /\ UNCHANGED << attempted, terminalRows >>
           \/ PersistUnknownOrder /\ Blocked("unknown_order", FALSE) /\ UNCHANGED attempted
<1> DEFINE outcome == IF accepted[iid] # NoRow THEN "AlreadyAttempted"
                      ELSE TryReserveVenueAttempt(iid)
<1> HIDE DEF outcome
<1>1. CASE outcome = "Reserved"
  <2>1. /\ DbOk /\ attempted' = attempted \cup {iid} /\ pc' \in {"dry", "mark"}
        /\ UNCHANGED << batch, leg, iid, resp, feedback, terminalRows, released >>
    BY <1>1 DEF ReserveLiveOrderSubmission, outcome
  <2>2. MaxSessionOrders = 0 \/ Cardinality(AttemptedIn(session)) < MaxSessionOrders
    BY <1>1 DEF outcome, TryReserveVenueAttempt
  <2> QED BY <2>1, <2>2 DEF ReserveSucceeds
<1>2. CASE outcome = "CapReached"
  BY <1>2 DEF ReserveLiveOrderSubmission, outcome
<1>3. CASE outcome \notin {"Reserved", "CapReached"}
  BY <1>3 DEF ReserveLiveOrderSubmission, outcome
<1> QED BY <1>1, <1>2, <1>3

\* reserve_live_order_submission: reserved, rejected by a cap, or blocked.
LEMMA ReserveTypes == TypeOK /\ AtWork /\ ReserveLiveOrderSubmission => TypeOK' /\ AtWork'
<1> SUFFICES ASSUME TypeOK, AtWork, ReserveLiveOrderSubmission PROVE TypeOK' /\ AtWork' OBVIOUS
<1>1. pc \in InHand \cup {"persist"} /\ pc # "idle" /\ pc \in InHand
  BY DEF ReserveLiveOrderSubmission, InHand, Pcs
<1>2. iid \in Intents BY <1>1 DEF AtWork
<1>3. LedgerTypeOK' /\ faults' \in 0..MaxFaults
  <2>1. attempted' \in {attempted, attempted \cup {iid}} BY ReserveCases DEF ReserveSucceeds
  <2>2. terminalRows' \in {terminalRows, terminalRows \cup {session}}
    BY ReserveCases DEF ReserveSucceeds, PersistUnknownOrder
  <2>3. DbOk \/ DbFails BY ReserveCases DEF ReserveSucceeds, PersistUnknownOrder
  <2>4. attempted' \subseteq Intents /\ terminalRows' \subseteq Sessions /\ faults' \in 0..MaxFaults
    BY <1>1, <1>2, <2>1, <2>2, <2>3, HoldsLeg, ConstantsAssumption
    DEF TypeOK, LedgerTypeOK, HistoryTypeOK, DbOk, DbFails
  <2> QED BY <2>4 DEF TypeOK, LedgerTypeOK, ReserveLiveOrderSubmission
<1>4. CASE Rejected(iid) \/ Blocked("unknown_order", FALSE)
  <2>1. OrderDone BY <1>1, <1>2, <1>4, AfterRejected, AfterBlocked DEF Updates
  <2> QED BY <1>1, <1>3, <2>1, EndsOrder DEF ReserveLiveOrderSubmission
<1>5. CASE ReserveSucceeds
  <2>1. WorkerTypeOK' BY <1>5 DEF ReserveSucceeds, TypeOK, WorkerTypeOK, feedback, Pcs
  <2>2. SequencesTypeOK'
    BY <1>5 DEF ReserveSucceeds, TypeOK, SequencesTypeOK, feedback, ReserveLiveOrderSubmission
  <2>3. VenueTypeOK' /\ HistoryTypeOK'
    BY <1>3, <1>5 DEF ReserveSucceeds, TypeOK, VenueTypeOK, HistoryTypeOK, ReserveLiveOrderSubmission, venue
  <2>4. AtWork' BY <1>1, <1>5 DEF ReserveSucceeds, AtWork, InHand, Pcs, ReserveLiveOrderSubmission
  <2> QED BY <1>3, <2>1, <2>2, <2>3, <2>4 DEF TypeOK
<1> QED BY <1>4, <1>5, ReserveCases

\* MarkIntentSubmitting writes the marker and goes on to the venue and keeps the order in hand.
LEMMA MarkIntentSubmittingTypes == TypeOK /\ AtWork /\ MarkIntentSubmitting => TypeOK' /\ AtWork'
<1> SUFFICES ASSUME TypeOK, AtWork, MarkIntentSubmitting PROVE TypeOK' /\ AtWork' OBVIOUS
<1>1. pc \in InHand \cup {"persist"} /\ pc \in InHand BY DEF MarkIntentSubmitting, InHand, Pcs
<1>2. iid \in Intents BY <1>1 DEF AtWork
<1>3. LedgerTypeOK'
  BY <1>1, <1>2, HoldsLeg DEF TypeOK, LedgerTypeOK, IntentStatuses, MarkIntentSubmitting, DbOk, venue
<1>4. WorkerTypeOK' BY DEF TypeOK, WorkerTypeOK, feedback, Pcs, MarkIntentSubmitting
<1>5. SequencesTypeOK' BY DEF TypeOK, SequencesTypeOK, feedback, MarkIntentSubmitting
<1>6. VenueTypeOK' BY <1>2 DEF TypeOK, VenueTypeOK, MatchedUnder, AcceptedSize, Full, Null, MarkIntentSubmitting, DbOk, venue
<1>7. HistoryTypeOK' BY ConstantsAssumption DEF TypeOK, HistoryTypeOK, MarkIntentSubmitting, DbOk, venue
<1>8. AtWork' BY <1>1 DEF AtWork, InHand, Pcs, MarkIntentSubmitting
<1> QED BY <1>3, <1>4, <1>5, <1>6, <1>7, <1>8 DEF TypeOK

\* SubmitOrderIntent posts the order and keeps the order in hand.
LEMMA SubmitOrderIntentTypes == TypeOK /\ AtWork /\ SubmitOrderIntent => TypeOK' /\ AtWork'
<1> SUFFICES ASSUME TypeOK, AtWork, SubmitOrderIntent PROVE TypeOK' /\ AtWork' OBVIOUS
<1>1. pc \in InHand \cup {"persist"} /\ pc \in InHand BY DEF SubmitOrderIntent, InHand, Pcs
<1>2. iid \in Intents BY <1>1 DEF AtWork
<1>3. LedgerTypeOK'
  BY <1>1, <1>2, HoldsLeg DEF TypeOK, LedgerTypeOK, IntentStatuses, SubmitOrderIntent, ledger, history
<1>4. WorkerTypeOK' BY DEF TypeOK, WorkerTypeOK, feedback, Pcs, SubmitOrderIntent
<1>5. SequencesTypeOK' BY DEF TypeOK, SequencesTypeOK, feedback, SubmitOrderIntent
<1>6. VenueTypeOK' BY <1>2 DEF TypeOK, VenueTypeOK, MatchedUnder, AcceptedSize, Full, Null, SubmitOrderIntent, ledger, history
<1>7. HistoryTypeOK' BY ConstantsAssumption DEF TypeOK, HistoryTypeOK, SubmitOrderIntent, ledger, history
<1>8. AtWork' BY <1>1 DEF AtWork, InHand, Pcs, SubmitOrderIntent, ledger
<1> QED BY <1>3, <1>4, <1>5, <1>6, <1>7, <1>8 DEF TypeOK

\* PersistOrderResponse stores the answer and keeps the order in hand.
LEMMA PersistOrderResponseTypes == TypeOK /\ AtWork /\ PersistOrderResponse => TypeOK' /\ AtWork'
<1> SUFFICES ASSUME TypeOK, AtWork, PersistOrderResponse PROVE TypeOK' /\ AtWork' OBVIOUS
<1>1. pc \in InHand \cup {"persist"} /\ pc \in InHand BY DEF PersistOrderResponse, InHand, Pcs
<1>2. iid \in Intents BY <1>1 DEF AtWork
<1>3. LedgerTypeOK'
  BY <1>2, SizeFacts DEF TypeOK, LedgerTypeOK, PersistOrderResponse, LogLiveOrder
<1>4. WorkerTypeOK' BY DEF TypeOK, WorkerTypeOK, feedback, Pcs, PersistOrderResponse
<1>5. SequencesTypeOK' BY DEF TypeOK, SequencesTypeOK, feedback, PersistOrderResponse
<1>6. VenueTypeOK' BY <1>2 DEF TypeOK, VenueTypeOK, MatchedUnder, AcceptedSize, Full, Null, PersistOrderResponse, DbOk, venue
<1>7. HistoryTypeOK' BY ConstantsAssumption DEF TypeOK, HistoryTypeOK, PersistOrderResponse, DbOk, venue
<1>8. AtWork' BY <1>1 DEF AtWork, InHand, Pcs, PersistOrderResponse
<1> QED BY <1>3, <1>4, <1>5, <1>6, <1>7, <1>8 DEF TypeOK

\* RecordUnknownSubmission stores that there was none and keeps the order in hand.
LEMMA RecordUnknownSubmissionTypes == TypeOK /\ AtWork /\ RecordUnknownSubmission => TypeOK' /\ AtWork'
<1> SUFFICES ASSUME TypeOK, AtWork, RecordUnknownSubmission PROVE TypeOK' /\ AtWork' OBVIOUS
<1>1. pc \in InHand \cup {"persist"} /\ pc \in InHand BY DEF RecordUnknownSubmission, InHand, Pcs
<1>2. iid \in Intents BY <1>1 DEF AtWork
<1>3. LedgerTypeOK'
  BY <1>1, <1>2, HoldsLeg DEF TypeOK, LedgerTypeOK, IntentStatuses, RecordUnknownSubmission, DbOk, DbFails, venue, LogLiveOrder
<1>4. WorkerTypeOK' BY DEF TypeOK, WorkerTypeOK, feedback, Pcs, RecordUnknownSubmission
<1>5. SequencesTypeOK' BY DEF TypeOK, SequencesTypeOK, feedback, RecordUnknownSubmission
<1>6. VenueTypeOK' BY <1>2 DEF TypeOK, VenueTypeOK, MatchedUnder, AcceptedSize, Full, Null, RecordUnknownSubmission, DbOk, DbFails, venue
<1>7. HistoryTypeOK' BY ConstantsAssumption DEF TypeOK, HistoryTypeOK, RecordUnknownSubmission, DbOk, DbFails, venue
<1>8. AtWork' BY <1>1 DEF AtWork, InHand, Pcs, RecordUnknownSubmission
<1> QED BY <1>3, <1>4, <1>5, <1>6, <1>7, <1>8 DEF TypeOK

\* RecordUnknownEvent records the critical event and keeps the order in hand.
LEMMA RecordUnknownEventTypes == TypeOK /\ AtWork /\ RecordUnknownEvent => TypeOK' /\ AtWork'
<1> SUFFICES ASSUME TypeOK, AtWork, RecordUnknownEvent PROVE TypeOK' /\ AtWork' OBVIOUS
<1>1. pc \in InHand \cup {"persist"} /\ pc \in InHand BY DEF RecordUnknownEvent, InHand, Pcs
<1>2. iid \in Intents BY <1>1 DEF AtWork
<1>3. LedgerTypeOK'
  BY <1>1, <1>2, HoldsLeg DEF TypeOK, LedgerTypeOK, IntentStatuses, RecordUnknownEvent, DbOk, DbFails, venue
<1>4. WorkerTypeOK' BY DEF TypeOK, WorkerTypeOK, feedback, Pcs, RecordUnknownEvent
<1>5. SequencesTypeOK' BY DEF TypeOK, SequencesTypeOK, feedback, RecordUnknownEvent
<1>6. VenueTypeOK' BY <1>2 DEF TypeOK, VenueTypeOK, MatchedUnder, AcceptedSize, Full, Null, RecordUnknownEvent, DbOk, DbFails, venue
<1>7. HistoryTypeOK' BY ConstantsAssumption DEF TypeOK, HistoryTypeOK, RecordUnknownEvent, DbOk, DbFails, venue
<1>8. AtWork' BY <1>1 DEF AtWork, InHand, Pcs, RecordUnknownEvent
<1> QED BY <1>3, <1>4, <1>5, <1>6, <1>7, <1>8 DEF TypeOK

\* A fill on record ends its order without releasing anything.
LEMMA ResponseFilledTypes == TypeOK /\ AtWork /\ ResponseFilled => TypeOK' /\ AtWork'
<1> SUFFICES ASSUME TypeOK, AtWork, ResponseFilled PROVE TypeOK' /\ AtWork' OBVIOUS
<1>1. pc \in InHand \cup {"persist"} /\ pc \in InHand BY DEF ResponseFilled, InHand, Pcs
<1>2. iid \in Intents BY <1>1 DEF AtWork
<1>3. /\ WorkerTypeOK' /\ pc' \in {"persist", "emit"} /\ batch' \in Batches
      /\ pc' = "persist" => leg' \in 1..Len(batch'.legs)
  BY <1>1, AfterNextOrder DEF ResponseFilled
<1>4. LedgerTypeOK' BY <1>2 DEF TypeOK, LedgerTypeOK, ResponseFilled
<1>5. SequencesTypeOK'
  BY AppendNat DEF TypeOK, WorkerTypeOK, SequencesTypeOK, ResponseFilled
<1>6. VenueTypeOK' BY DEF TypeOK, VenueTypeOK, ResponseFilled, venue
<1>7. HistoryTypeOK'
  BY <1>2, ConstantsAssumption DEF TypeOK, HistoryTypeOK, Verifying, ResponseFilled, DbOk, DbFails, SpawnVerification
<1>8. AtWork' BY <1>1, <1>3 DEF AtWork, InHand, Pcs, ResponseFilled
<1> QED BY <1>3, <1>4, <1>5, <1>6, <1>7, <1>8 DEF TypeOK

\* The batch is done.
LEMMA EmitFeedbackTypes == TypeOK /\ AtWork /\ EmitFeedback => TypeOK' /\ AtWork'
<1> SUFFICES ASSUME TypeOK, AtWork, EmitFeedback PROVE TypeOK' /\ AtWork' OBVIOUS
<1>1. session \in Sessions
  BY ConstantsAssumption DEF EmitFeedback, TypeOK, LedgerTypeOK, AtWork, Sessions
<1>2. LedgerTypeOK' BY <1>1 DEF TypeOK, LedgerTypeOK, EmitFeedback, PersistUnknownOrder
<1>3. WorkerTypeOK'
  BY DEF TypeOK, WorkerTypeOK, EmitFeedback, ClearFeedback, Pcs, Updates
<1>4. SequencesTypeOK' BY DEF TypeOK, SequencesTypeOK, EmitFeedback, ClearFeedback
<1>5. VenueTypeOK' BY DEF TypeOK, VenueTypeOK, EmitFeedback, venue
<1>6. HistoryTypeOK'
  BY <1>1, ConstantsAssumption
  DEF TypeOK, HistoryTypeOK, EmitFeedback, PersistUnknownOrder, DbOk, DbFails
<1>7. AtWork' BY DEF AtWork, InHand, Pcs, EmitFeedback
<1> QED BY <1>2, <1>3, <1>4, <1>5, <1>6, <1>7 DEF TypeOK

\* The worker takes a batch from the queue, at its first order.
LEMMA TakeBatchTypes == TypeOK /\ AtWork /\ TakeBatch => TypeOK' /\ AtWork'
<1> SUFFICES ASSUME TypeOK, AtWork, TakeBatch PROVE TypeOK' /\ AtWork' OBVIOUS
<1>1. queue \in Seq(Batches) /\ queue # << >> BY DEF TypeOK, SequencesTypeOK, TakeBatch
<1>2. Head(queue) \in Batches /\ Tail(queue) \in Seq(Batches) BY <1>1
<1>3. LedgerTypeOK' BY DEF TypeOK, LedgerTypeOK, TakeBatch, ledger
<1>4. WorkerTypeOK' BY <1>2 DEF TypeOK, WorkerTypeOK, TakeBatch, ClearFeedback, Pcs, Updates
<1>5. SequencesTypeOK' BY <1>2 DEF TypeOK, SequencesTypeOK, TakeBatch, ClearFeedback
<1>6. VenueTypeOK' /\ HistoryTypeOK'
  BY DEF TypeOK, VenueTypeOK, HistoryTypeOK, TakeBatch, venue, history
<1>7. 1 \in 1..Len(Head(queue).legs) BY <1>2, LegFacts
<1>8. AtWork' BY <1>2, <1>7 DEF AtWork, InHand, Pcs, TakeBatch
<1> QED BY <1>3, <1>4, <1>5, <1>6, <1>8 DEF TypeOK

\* Process start, process death, and the runtime queueing a batch.
LEMMA ProcessTypes ==
    ASSUME TypeOK, AtWork, Bootstrap \/ Crash \/ \E b \in Batches : TrySubmit(b)
    PROVE  TypeOK' /\ AtWork'
<1>1. CASE Bootstrap
  <2>1. pc = "idle" BY <1>1 DEF Bootstrap, AtWork
  <2>2. LedgerTypeOK'
    BY <1>1, ConstantsAssumption DEF TypeOK, LedgerTypeOK, Bootstrap, InsertLiveSession
  <2>3. WorkerTypeOK' /\ SequencesTypeOK'
    BY <1>1 DEF TypeOK, WorkerTypeOK, SequencesTypeOK, Bootstrap, worker, feedback
  <2>4. VenueTypeOK' /\ HistoryTypeOK'
    BY <1>1 DEF TypeOK, VenueTypeOK, HistoryTypeOK, Bootstrap, venue, history
  <2>5. AtWork' BY <1>1, <2>1 DEF AtWork, InHand, Pcs, Bootstrap, worker
  <2> QED BY <2>2, <2>3, <2>4, <2>5 DEF TypeOK
<1>2. CASE Crash
  <2>1. LedgerTypeOK' BY <1>2 DEF TypeOK, LedgerTypeOK, Crash, ledger
  <2>2. WorkerTypeOK' /\ SequencesTypeOK'
    BY <1>2, ConstantsAssumption
    DEF TypeOK, WorkerTypeOK, SequencesTypeOK, Crash, ClearFeedback, Pcs, Updates
  <2>3. VenueTypeOK' /\ HistoryTypeOK'
    BY <1>2 DEF TypeOK, VenueTypeOK, HistoryTypeOK, Crash, venue, history, Verifying
  <2>4. AtWork' BY <1>2 DEF AtWork, InHand, Pcs, Crash
  <2> QED BY <2>1, <2>2, <2>3, <2>4 DEF TypeOK
<1>3. ASSUME NEW b \in Batches, TrySubmit(b) PROVE TypeOK' /\ AtWork'
  <2>1. LedgerTypeOK' BY <1>3 DEF TypeOK, LedgerTypeOK, TrySubmit, ledger
  <2>2. WorkerTypeOK' BY <1>3 DEF TypeOK, WorkerTypeOK, TrySubmit, worker, feedback
  <2>3. SequencesTypeOK' BY <1>3 DEF TypeOK, SequencesTypeOK, TrySubmit, worker, feedback
  <2>4. VenueTypeOK' /\ HistoryTypeOK'
    BY <1>3 DEF TypeOK, VenueTypeOK, HistoryTypeOK, TrySubmit, venue, history
  <2>5. AtWork' BY <1>3 DEF AtWork, TrySubmit, worker, ledger
  <2> QED BY <2>1, <2>2, <2>3, <2>4, <2>5 DEF TypeOK
<1> QED BY <1>1, <1>2, <1>3

\* The chain and the verifier of one fill, which leave the worker alone.
LEMMA VerifierTypes ==
    ASSUME TypeOK, AtWork, NEW i \in Intents, SettleOnChain(i) \/ VerifierStep(i)
    PROVE  TypeOK' /\ AtWork'
<1> USE DEF SettleOnChain, VerifierStep, ConfirmFill, ReadBudgetSpent,
            RaiseReconciliationHalt, MarkFillFailed
<1>1. UNCHANGED << worker, session, queue >> BY DEF worker
<1>2. UNCHANGED << intentStatus, intentSession, intentToken, nextIntent, attempted, accepted,
                   sessions, terminalRows, calls, venueFill, released, alarmed >>
  BY DEF ledger, venue, history
<1>3. chain' \in [Intents -> 0..(Full + 1)]
  BY DEF TypeOK, VenueTypeOK, venue
<1>4. verifier' \in [Intents -> Verifying] BY DEF TypeOK, HistoryTypeOK, Verifying
<1>5. faults' \in 0..MaxFaults
  BY ConstantsAssumption DEF TypeOK, HistoryTypeOK, DbOk, DbFails, history
<1>6. reconcile' \in [Intents -> {"null", "pending", "confirmed", "failed"}]
  BY DEF TypeOK, LedgerTypeOK, ledger
<1>7. critical' \subseteq Sessions
  <2>1. session # 0 => session \in Sessions
    BY ConstantsAssumption DEF TypeOK, LedgerTypeOK, Sessions
  <2>2. \/ critical' = critical
        \/ verifier[i] = "halting" /\ critical' = critical \cup {session}
    BY DEF ledger
  <2> QED BY <2>1, <2>2 DEF TypeOK, LedgerTypeOK, AtWork
<1>8. LedgerTypeOK' BY <1>1, <1>2, <1>6, <1>7 DEF TypeOK, LedgerTypeOK
<1>9. WorkerTypeOK' /\ SequencesTypeOK'
  BY <1>1 DEF TypeOK, WorkerTypeOK, SequencesTypeOK, worker, feedback
<1>10. VenueTypeOK' /\ HistoryTypeOK'
  BY <1>2, <1>3, <1>4, <1>5 DEF TypeOK, VenueTypeOK, HistoryTypeOK
<1>11. AtWork'
  <2>1. session = 0 => verifier' = verifier BY DEF AtWork
  <2> QED BY <1>1, <1>2, <2>1 DEF AtWork, worker
<1> QED BY <1>8, <1>9, <1>10, <1>11 DEF TypeOK

-----------------------------------------------------------------------------
(* Type correctness. *)

\* Every step keeps the types and what the worker holds.
LEMMA TypesPreserved == TypeOK /\ AtWork /\ [Next]_vars => TypeOK' /\ AtWork'
<1> SUFFICES ASSUME TypeOK, AtWork, [Next]_vars PROVE TypeOK' /\ AtWork' OBVIOUS
<1>1. CASE Bootstrap \/ Crash \/ \E b \in Batches : TrySubmit(b) BY <1>1, ProcessTypes
<1>2. CASE TakeBatch \/ EmitFeedback BY <1>2, TakeBatchTypes, EmitFeedbackTypes
<1>3. CASE SubmitOne
  BY <1>3, PersistIntentTypes, PersistIntentFailsTypes, ReserveTypes, ReserveFailsTypes,
     DryRunLiveOrderTypes, MarkIntentSubmittingTypes, MarkIntentSubmittingFailsTypes,
     SubmitOrderIntentTypes, PersistOrderResponseTypes, PersistOrderResponseFailsTypes,
     ResponseRejectedTypes, ResponseBlocksTypes, ResponseFilledTypes,
     RecordUnknownSubmissionTypes, RecordUnknownEventTypes, RecordUnknownStateTypes
  DEF SubmitOne
<1>4. CASE \E i \in Intents : SettleOnChain(i) \/ VerifierStep(i) BY <1>4, VerifierTypes
<1>5. CASE UNCHANGED vars
  BY <1>5 DEF vars, ledger, worker, feedback, venue, history, TypeOK, LedgerTypeOK,
              WorkerTypeOK, SequencesTypeOK, VenueTypeOK, HistoryTypeOK, AtWork
<1> QED BY <1>1, <1>2, <1>3, <1>4, <1>5 DEF Next, WorkerStep

\* A fresh database and no process: the types hold at the start.
LEMMA TypesInitially == Init => TypeOK /\ AtWork
<1> SUFFICES ASSUME Init PROVE TypeOK /\ AtWork OBVIOUS
<1>1. LedgerTypeOK
  BY ConstantsAssumption DEF Init, LedgerTypeOK, IntentStatuses
<1>2. WorkerTypeOK /\ SequencesTypeOK
  BY ConstantsAssumption DEF Init, WorkerTypeOK, SequencesTypeOK, Pcs, Updates
<1>3. VenueTypeOK /\ HistoryTypeOK
  BY ConstantsAssumption DEF Init, VenueTypeOK, HistoryTypeOK, Verifying, Full
<1>4. AtWork BY DEF Init, AtWork, InHand
<1> QED BY <1>1, <1>2, <1>3, <1>4 DEF TypeOK

\* Type correctness: the worker never stores an intent id, a token, a session
\* or a control point that is not one, whatever crashes or fails.
THEOREM TypeCorrect == Spec => []TypeOK
<1>1. Spec => [](TypeOK /\ AtWork) BY TypesInitially, TypesPreserved, PTL DEF Spec
<1> QED BY <1>1, PTL

-----------------------------------------------------------------------------
(* The venue boundary. *)

VenueInv == Boundary /\ DurableBeforeVenue /\ NoRestartPastVenue

\* Steps that touch neither the intent rows nor the venue, and do not bring the
\* worker to the near side of the venue call.
Quiet ==
    /\ UNCHANGED << intentStatus, intentSession, nextIntent, attempted, calls, sessions >>
    /\ \/ pc' \notin {"reserve", "dry", "mark", "send"}
       \/ UNCHANGED << pc, iid >>

\* Quiet steps keep the boundary.
LEMMA QuietKeepsVenueInv == VenueInv /\ Quiet => VenueInv'
BY DEF VenueInv, Quiet, Boundary, DurableBeforeVenue, NoRestartPastVenue

\* Most steps are quiet: failures block, answers are classified afterwards.
LEMMA QuietSteps ==
    ASSUME Crash \/ TakeBatch \/ EmitFeedback
           \/ PersistIntentFails \/ ReserveFails \/ MarkIntentSubmittingFails
           \/ PersistOrderResponse \/ PersistOrderResponseFails
           \/ ResponseRejected \/ ResponseBlocks \/ ResponseFilled
           \/ RecordUnknownSubmission \/ RecordUnknownEvent \/ RecordUnknownState
    PROVE  Quiet
<1>1. CASE Crash \/ TakeBatch \/ EmitFeedback
  BY <1>1 DEF Quiet, Crash, TakeBatch, EmitFeedback, ledger, venue
<1>2. CASE PersistIntentFails \/ ReserveFails \/ MarkIntentSubmittingFails
           \/ PersistOrderResponseFails \/ ResponseBlocks \/ RecordUnknownState
  BY <1>2 DEF Quiet, PersistIntentFails, ReserveFails, MarkIntentSubmittingFails,
      PersistOrderResponseFails, ResponseBlocks, RecordUnknownState, Blocked, ledger, venue
<1>3. CASE PersistOrderResponse \/ RecordUnknownSubmission \/ RecordUnknownEvent
  BY <1>3 DEF Quiet, PersistOrderResponse, RecordUnknownSubmission, RecordUnknownEvent, venue
<1>4. CASE ResponseRejected \/ ResponseFilled
  BY <1>4 DEF Quiet, ResponseRejected, ResponseFilled, Rejected, NextOrder, ledger, venue
<1> QED BY <1>1, <1>2, <1>3, <1>4

\* So are queueing a batch, the chain and the verifiers.
LEMMA QuietOthers ==
    ASSUME (\E b \in Batches : TrySubmit(b))
           \/ (\E i \in Intents : SettleOnChain(i) \/ VerifierStep(i))
    PROVE  Quiet
<1>1. ASSUME NEW b \in Batches, TrySubmit(b) PROVE Quiet
  BY <1>1 DEF Quiet, TrySubmit, ledger, worker, venue
<1>2. ASSUME NEW i \in Intents, SettleOnChain(i) PROVE Quiet
  BY <1>2 DEF Quiet, SettleOnChain, ledger, worker
<1>3. ASSUME NEW i \in Intents, VerifierStep(i) PROVE Quiet
  BY <1>3 DEF Quiet, VerifierStep, ConfirmFill, ReadBudgetSpent, RaiseReconciliationHalt,
              MarkFillFailed, ledger, worker, venue
<1> QED BY <1>1, <1>2, <1>3

\* ensure_live_bootstrap_clean: an order that was posted left a live_orders row
\* or an orphaned attempt, so a clean database has none.
LEMMA CleanMeansUntouched ==
    ASSUME TypeOK, DurableBeforeVenue, BootstrapClean
    PROVE  \A i \in Intents : calls[i] = 0
<1> SUFFICES ASSUME NEW i \in Intents, calls[i] # 0 PROVE FALSE OBVIOUS
<1>1. calls[i] > 0 BY DEF TypeOK, VenueTypeOK
<1>2. intentStatus[i] = "submitting" BY <1>1 DEF DurableBeforeVenue
<1>3. CASE accepted[i] = NoRow
  BY <1>2, <1>3 DEF BootstrapClean, OrphanedVenueAttempts
<1>4. CASE accepted[i] # NoRow BY <1>4 DEF BootstrapClean, LiveOrders
<1> QED BY <1>3, <1>4

\* A new session starts on an untouched database.
LEMMA BootstrapVenueInv == TypeOK /\ AtWork /\ VenueInv /\ Bootstrap => VenueInv'
<1> SUFFICES ASSUME TypeOK, AtWork, VenueInv, Bootstrap PROVE VenueInv' OBVIOUS
<1>1. \A i \in Intents : calls[i] = 0 BY CleanMeansUntouched DEF VenueInv, Bootstrap
<1>2. pc = "idle" BY DEF AtWork, Bootstrap
<1>3. UNCHANGED << intentStatus, intentSession, nextIntent, attempted, calls, pc, iid >>
      /\ sessions' = sessions + 1
  BY DEF Bootstrap, worker, venue, InsertLiveSession
<1>4. \A i \in Intents : intentSession[i] \in Int /\ intentSession[i] <= sessions
      /\ sessions \in Int
  BY DEF TypeOK, LedgerTypeOK, VenueInv, Boundary
<1>5. Boundary' BY <1>2, <1>3, <1>4 DEF VenueInv, Boundary
<1>6. DurableBeforeVenue' /\ NoRestartPastVenue'
  BY <1>1, <1>3 DEF DurableBeforeVenue, NoRestartPastVenue
<1> QED BY <1>5, <1>6 DEF VenueInv

\* The new row is the next one, which nothing has touched.
LEMMA PersistIntentVenueInv == TypeOK /\ AtWork /\ VenueInv /\ PersistIntent => VenueInv'
<1> SUFFICES ASSUME TypeOK, AtWork, VenueInv, PersistIntent PROVE VenueInv' OBVIOUS
<1>1. nextIntent \in Intents /\ session = sessions
  BY HoldsLeg, ConstantsAssumption DEF PersistIntent, TypeOK, LedgerTypeOK, Intents
<1>2. calls[nextIntent] = 0 /\ nextIntent \notin attempted
  BY <1>1 DEF VenueInv, Boundary, TypeOK, LedgerTypeOK
<1>3. /\ nextIntent' = nextIntent + 1 /\ UNCHANGED << attempted, calls, sessions >>
      /\ intentSession' = [intentSession EXCEPT ![nextIntent] = session]
      /\ \A i \in Intents : i # nextIntent => intentStatus'[i] = intentStatus[i]
  BY DEF PersistIntent, venue, TypeOK, LedgerTypeOK
<1>4. pc' \notin {"dry", "mark", "send"} /\ (pc' = "reserve" => iid' = nextIntent)
  BY DEF PersistIntent, Rejected, NextOrder
<1>5. Boundary'
  BY <1>1, <1>2, <1>3, <1>4 DEF VenueInv, Boundary, TypeOK, LedgerTypeOK, Intents
<1>6. DurableBeforeVenue' /\ NoRestartPastVenue'
  BY <1>1, <1>2, <1>3
  DEF VenueInv, DurableBeforeVenue, NoRestartPastVenue, TypeOK, LedgerTypeOK
<1> QED BY <1>5, <1>6 DEF VenueInv

\* The attempt marker is set before the worker can get to the venue.
LEMMA ReserveVenueInv ==
    TypeOK /\ AtWork /\ VenueInv /\ ReserveLiveOrderSubmission => VenueInv'
<1> SUFFICES ASSUME TypeOK, AtWork, VenueInv, ReserveLiveOrderSubmission PROVE VenueInv' OBVIOUS
<1>1. iid \in Intents /\ iid < nextIntent /\ calls[iid] = 0 /\ nextIntent \in Int
  BY DEF ReserveLiveOrderSubmission, AtWork, InHand, Pcs, VenueInv, Boundary, TypeOK, LedgerTypeOK
<1>2. UNCHANGED << intentStatus, intentSession, nextIntent, calls, sessions >>
  BY DEF ReserveLiveOrderSubmission, venue
<1>3. CASE ReserveSucceeds
  <2>1. attempted' = attempted \cup {iid} /\ pc' \in {"dry", "mark"} /\ iid' = iid
    BY <1>3 DEF ReserveSucceeds
  <2>2. Boundary' BY <1>1, <1>2, <2>1 DEF VenueInv, Boundary, Intents
  <2>3. DurableBeforeVenue' /\ NoRestartPastVenue'
    BY <1>2, <2>1 DEF VenueInv, DurableBeforeVenue, NoRestartPastVenue
  <2> QED BY <2>2, <2>3 DEF VenueInv
<1>4. CASE ~ReserveSucceeds
  <2>1. Quiet BY <1>2, <1>4, ReserveCases DEF Quiet, Rejected, NextOrder, Blocked
  <2> QED BY <2>1, QuietKeepsVenueInv
<1> QED BY <1>3, <1>4

\* A dry run marks an intent that was not posted, and moves on.
LEMMA DryRunVenueInv == TypeOK /\ AtWork /\ VenueInv /\ DryRunLiveOrder => VenueInv'
<1> SUFFICES ASSUME TypeOK, AtWork, VenueInv, DryRunLiveOrder PROVE VenueInv' OBVIOUS
<1>1. iid \in Intents /\ calls[iid] = 0
  BY DEF DryRunLiveOrder, AtWork, InHand, Pcs, VenueInv, Boundary
<1>2. /\ UNCHANGED << intentSession, nextIntent, attempted, calls, sessions >>
      /\ \A i \in Intents : i # iid => intentStatus'[i] = intentStatus[i]
      /\ pc' \in {"persist", "emit"}
  BY DEF DryRunLiveOrder, venue, TypeOK, LedgerTypeOK, Rejected, NextOrder
<1>3. Boundary' BY <1>2 DEF VenueInv, Boundary
<1>4. DurableBeforeVenue' /\ NoRestartPastVenue'
  BY <1>1, <1>2 DEF VenueInv, DurableBeforeVenue, NoRestartPastVenue
<1> QED BY <1>3, <1>4 DEF VenueInv

\* mark_intent_submitting_or_block: the second mark.
LEMMA MarkVenueInv == TypeOK /\ AtWork /\ VenueInv /\ MarkIntentSubmitting => VenueInv'
<1> SUFFICES ASSUME TypeOK, AtWork, VenueInv, MarkIntentSubmitting PROVE VenueInv' OBVIOUS
<1>1. iid \in Intents /\ calls[iid] = 0 /\ iid \in attempted
  BY DEF MarkIntentSubmitting, AtWork, InHand, Pcs, VenueInv, Boundary
<1>2. /\ UNCHANGED << intentSession, nextIntent, attempted, calls, sessions, iid >>
      /\ intentStatus' = [intentStatus EXCEPT ![iid] = "submitting"]
      /\ pc' = "send"
  BY DEF MarkIntentSubmitting, venue
<1>3. Boundary' BY <1>1, <1>2 DEF VenueInv, Boundary, TypeOK, LedgerTypeOK
<1>4. DurableBeforeVenue' /\ NoRestartPastVenue'
  BY <1>1, <1>2 DEF VenueInv, DurableBeforeVenue, NoRestartPastVenue, TypeOK, LedgerTypeOK
<1> QED BY <1>3, <1>4 DEF VenueInv

\* The venue call itself: both marks are durable, and this is the first call.
LEMMA SubmitVenueInv == TypeOK /\ AtWork /\ VenueInv /\ SubmitOrderIntent => VenueInv'
<1> SUFFICES ASSUME TypeOK, AtWork, VenueInv, SubmitOrderIntent PROVE VenueInv' OBVIOUS
<1>1. pc = "send" /\ pc \in InHand BY DEF SubmitOrderIntent, InHand, Pcs
<1>2. /\ iid \in Intents /\ iid < nextIntent /\ calls[iid] = 0 /\ iid \in attempted
      /\ intentStatus[iid] = "submitting" /\ intentSession[iid] = sessions
  BY <1>1, HoldsLeg DEF AtWork, VenueInv, Boundary
<1>3. /\ UNCHANGED << intentStatus, intentSession, nextIntent, attempted, sessions, iid >>
      /\ calls' = [calls EXCEPT ![iid] = 1] /\ pc' = "respond"
  BY <1>2 DEF SubmitOrderIntent, ledger, TypeOK, VenueTypeOK
<1>4. Boundary'
  BY <1>2, <1>3 DEF VenueInv, Boundary, TypeOK, LedgerTypeOK, VenueTypeOK, Intents
<1>5. DurableBeforeVenue' /\ NoRestartPastVenue'
  BY <1>2, <1>3 DEF VenueInv, DurableBeforeVenue, NoRestartPastVenue, TypeOK, VenueTypeOK
<1> QED BY <1>4, <1>5 DEF VenueInv

\* Every step keeps the boundary.
LEMMA VenueInvPreserved == TypeOK /\ AtWork /\ VenueInv /\ [Next]_vars => VenueInv'
<1> SUFFICES ASSUME TypeOK, AtWork, VenueInv, [Next]_vars PROVE VenueInv' OBVIOUS
<1>1. CASE Bootstrap BY <1>1, BootstrapVenueInv
<1>2. CASE Crash \/ TakeBatch \/ EmitFeedback BY <1>2, QuietSteps, QuietKeepsVenueInv
<1>3. CASE SubmitOne
  BY <1>3, QuietSteps, QuietKeepsVenueInv, PersistIntentVenueInv, ReserveVenueInv,
     DryRunVenueInv, MarkVenueInv, SubmitVenueInv
  DEF SubmitOne
<1>4. CASE (\E b \in Batches : TrySubmit(b))
           \/ (\E i \in Intents : SettleOnChain(i) \/ VerifierStep(i))
  BY <1>4, QuietOthers, QuietKeepsVenueInv
<1>5. CASE UNCHANGED vars
  BY <1>5, QuietKeepsVenueInv DEF Quiet, vars, ledger, worker, venue
<1> QED BY <1>1, <1>2, <1>3, <1>4, <1>5 DEF Next, WorkerStep

\* Nothing has been written or posted at the start.
LEMMA VenueInvInitially == Init => VenueInv
BY ConstantsAssumption
DEF Init, VenueInv, Boundary, DurableBeforeVenue, NoRestartPastVenue, Intents

\* Types, control and boundary together are inductive.
LEMMA VenueInvariance == Spec => [](TypeOK /\ AtWork /\ VenueInv)
BY TypesInitially, TypesPreserved, VenueInvInitially, VenueInvPreserved, PTL DEF Spec

\* An order that reached the venue is durably marked as attempted and
\* submitting, and reached it once, whatever crashed or failed to be written.
THEOREM DurableBeforeVenueHolds == Spec => []DurableBeforeVenue
BY VenueInvariance, PTL DEF VenueInv

\* No session is started on a run database after an order was posted from it.
THEOREM NoRestartPastVenueHolds == Spec => []NoRestartPastVenue
BY VenueInvariance, PTL DEF VenueInv

-----------------------------------------------------------------------------
(* The canary cap. *)

\* Sets of intents are finite.
LEMMA IntentsFinite ==
    ASSUME NEW S, S \subseteq Intents
    PROVE  IsFiniteSet(S) /\ Cardinality(S) \in Nat
<1>1. IsFiniteSet(Intents)
  <2>1. 1 \in Int /\ MaxIntents \in Int BY ConstantsAssumption
  <2> QED BY <2>1, FS_Interval DEF Intents
<1>2. IsFiniteSet(S) BY <1>1, FS_Subset
<1> QED BY <1>2, FS_CardinalityType

\* A step that leaves the attempts of the newest session alone keeps the cap.
LEMMA SameAttempts ==
    AttemptsWithinCap /\ (AttemptedIn(sessions))' = AttemptedIn(sessions) => AttemptsWithinCap'
BY DEF AttemptsWithinCap

\* A new session has no attempts.
LEMMA BootstrapCap == TypeOK /\ VenueInv /\ Bootstrap => AttemptsWithinCap'
<1> SUFFICES ASSUME TypeOK, VenueInv, Bootstrap PROVE AttemptsWithinCap' OBVIOUS
<1>1. \A i \in attempted : intentSession[i] # sessions + 1
  BY DEF TypeOK, LedgerTypeOK, VenueInv, Boundary
<1>2. (AttemptedIn(sessions))' = {} BY <1>1 DEF AttemptedIn, Bootstrap, InsertLiveSession
<1> QED BY <1>2, FS_EmptySet, ConstantsAssumption DEF AttemptsWithinCap

\* A new row has no attempt yet.
LEMMA PersistIntentCap ==
    TypeOK /\ VenueInv /\ AttemptsWithinCap /\ PersistIntent => AttemptsWithinCap'
<1> SUFFICES ASSUME TypeOK, VenueInv, AttemptsWithinCap, PersistIntent
             PROVE  AttemptsWithinCap'
  OBVIOUS
<1>1. nextIntent \notin attempted
  BY DEF TypeOK, LedgerTypeOK, VenueInv, Boundary
<1>2. \A i \in attempted : intentSession'[i] = intentSession[i]
  BY <1>1 DEF PersistIntent, TypeOK, LedgerTypeOK
<1>3. (AttemptedIn(sessions))' = AttemptedIn(sessions)
  BY <1>2 DEF AttemptedIn, PersistIntent
<1> QED BY <1>3, SameAttempts

\* try_reserve_venue_attempt adds one attempt, and only below the cap.
LEMMA ReserveCap ==
    TypeOK /\ AtWork /\ AttemptsWithinCap /\ ReserveLiveOrderSubmission => AttemptsWithinCap'
<1> SUFFICES ASSUME TypeOK, AtWork, AttemptsWithinCap, ReserveLiveOrderSubmission
             PROVE  AttemptsWithinCap'
  OBVIOUS
<1>1. UNCHANGED << intentSession, sessions >> BY DEF ReserveLiveOrderSubmission
<1>2. session = sessions
  BY HoldsLeg DEF ReserveLiveOrderSubmission, InHand, Pcs
<1>3. CASE ReserveSucceeds
  <2>1. SUFFICES ASSUME MaxSessionOrders # 0
                 PROVE  Cardinality((AttemptedIn(sessions))') <= MaxSessionOrders
    BY DEF AttemptsWithinCap
  <2>2. Cardinality(AttemptedIn(sessions)) < MaxSessionOrders
    BY <1>2, <1>3, <2>1 DEF ReserveSucceeds
  <2>3. (AttemptedIn(sessions))' \subseteq AttemptedIn(sessions) \cup {iid}
    BY <1>1, <1>3 DEF ReserveSucceeds, AttemptedIn
  <2>4. AttemptedIn(sessions) \subseteq Intents
    BY DEF AttemptedIn, TypeOK, LedgerTypeOK
  <2>5. IsFiniteSet(AttemptedIn(sessions)) /\ Cardinality(AttemptedIn(sessions)) \in Nat
    BY <2>4, IntentsFinite
  <2>6. /\ IsFiniteSet(AttemptedIn(sessions) \cup {iid})
        /\ Cardinality(AttemptedIn(sessions) \cup {iid})
             \in {Cardinality(AttemptedIn(sessions)), Cardinality(AttemptedIn(sessions)) + 1}
    BY <2>5, FS_AddElement
  <2>7. Cardinality((AttemptedIn(sessions))') <= Cardinality(AttemptedIn(sessions) \cup {iid})
        /\ Cardinality((AttemptedIn(sessions))') \in Nat
    BY <2>3, <2>6, FS_Subset, FS_CardinalityType
  <2> QED BY <2>2, <2>5, <2>6, <2>7, ConstantsAssumption
<1>4. CASE ~ReserveSucceeds
  <2>1. attempted' = attempted BY <1>4, ReserveCases
  <2> QED BY <1>1, <2>1, SameAttempts DEF AttemptedIn
<1> QED BY <1>3, <1>4

\* Every step keeps the attempts of the newest session within the cap.
LEMMA CapPreserved ==
    TypeOK /\ AtWork /\ VenueInv /\ AttemptsWithinCap /\ [Next]_vars => AttemptsWithinCap'
<1> SUFFICES ASSUME TypeOK, AtWork, VenueInv, AttemptsWithinCap, [Next]_vars
             PROVE  AttemptsWithinCap'
  OBVIOUS
<1>0. Quiet => AttemptsWithinCap' BY SameAttempts DEF Quiet, AttemptedIn
<1>1. CASE Bootstrap BY <1>1, BootstrapCap
<1>2. CASE Crash \/ TakeBatch \/ EmitFeedback BY <1>0, <1>2, QuietSteps
<1>3. CASE DryRunLiveOrder \/ MarkIntentSubmitting \/ SubmitOrderIntent
  BY <1>3, SameAttempts
  DEF AttemptedIn, DryRunLiveOrder, MarkIntentSubmitting, SubmitOrderIntent, ledger
<1>4. CASE SubmitOne
  BY <1>0, <1>3, <1>4, QuietSteps, PersistIntentCap, ReserveCap DEF SubmitOne
<1>5. CASE (\E b \in Batches : TrySubmit(b))
           \/ (\E i \in Intents : SettleOnChain(i) \/ VerifierStep(i))
  BY <1>0, <1>5, QuietOthers
<1>6. CASE UNCHANGED vars
  BY <1>0, <1>6 DEF Quiet, vars, ledger, worker, venue
<1> QED BY <1>1, <1>2, <1>4, <1>5, <1>6 DEF Next, WorkerStep

\* No attempts at the start.
LEMMA CapInitially == Init => AttemptsWithinCap
<1> SUFFICES ASSUME Init PROVE AttemptsWithinCap OBVIOUS
<1>1. AttemptedIn(sessions) = {} BY DEF Init, AttemptedIn
<1> QED BY <1>1, FS_EmptySet, ConstantsAssumption DEF AttemptsWithinCap

\* Every posted order is an attempt of the newest session, so the cap on its
\* attempts caps the orders of the whole run database.
LEMMA CapCoversRunDb ==
    TypeOK /\ VenueInv /\ AttemptsWithinCap => OrderCapPerRunDb
<1> SUFFICES ASSUME TypeOK, VenueInv, AttemptsWithinCap, MaxSessionOrders # 0
             PROVE  Cardinality({i \in Intents : calls[i] > 0}) <= MaxSessionOrders
  BY DEF OrderCapPerRunDb
<1> DEFINE posted == {i \in Intents : calls[i] > 0}
<1>1. posted \subseteq AttemptedIn(sessions)
  BY DEF VenueInv, DurableBeforeVenue, NoRestartPastVenue, AttemptedIn
<1>2. AttemptedIn(sessions) \subseteq Intents BY DEF AttemptedIn, TypeOK, LedgerTypeOK
<1>3. IsFiniteSet(AttemptedIn(sessions)) /\ Cardinality(AttemptedIn(sessions)) \in Nat
  BY <1>2, IntentsFinite
<1>4. Cardinality(posted) <= Cardinality(AttemptedIn(sessions)) /\ Cardinality(posted) \in Nat
  BY <1>1, <1>3, FS_Subset, FS_CardinalityType
<1>5. Cardinality(AttemptedIn(sessions)) <= MaxSessionOrders BY DEF AttemptsWithinCap
<1> QED BY <1>3, <1>4, <1>5, ConstantsAssumption

-----------------------------------------------------------------------------
(* Feedback names every order of the batch once. *)

\* One more order is named.
LEMMA AppendNamed ==
    ASSUME NEW s \in Seq(Nat), NEW n \in Nat, IsInjective(s), n \notin Range(s)
    PROVE  IsInjective(Append(s, n)) /\ Range(Append(s, n)) = Range(s) \cup {n}
<1> DEFINE a == Append(s, n)
           m == Len(s) + 1
<1>1. /\ m \in DOMAIN a /\ a[m] = n
      /\ \A k \in DOMAIN s : k \in DOMAIN a /\ k # m /\ a[k] = s[k]
      /\ \A k \in DOMAIN a : k = m \/ k \in DOMAIN s
  OBVIOUS
<1> HIDE DEF a, m
<1>2. \A k \in DOMAIN s : s[k] # n
  BY DEF Range
<1>3. IsInjective(a)
  BY <1>1, <1>2 DEF IsInjective
<1>4. Range(a) = Range(s) \cup {n}
  BY <1>1 DEF Range
<1> QED BY <1>3, <1>4 DEF a

\* Two lists are joined.
LEMMA ConcatNamed ==
    ASSUME NEW s \in Seq(Nat), NEW t \in Seq(Nat), IsInjective(s), IsInjective(t),
           Range(s) \cap Range(t) = {}
    PROVE  /\ s \o t \in Seq(Nat) /\ IsInjective(s \o t)
           /\ Range(s \o t) = Range(s) \cup Range(t)
<1> DEFINE c == s \o t
           m == Len(s)
<1>1. /\ c \in Seq(Nat) /\ Len(c) = m + Len(t) /\ m \in Nat /\ Len(t) \in Nat
      /\ \A i \in 1..(m + Len(t)) : c[i] = IF i <= m THEN s[i] ELSE t[i - m]
  BY ConcatProperties
<1>2. DOMAIN c = 1..(m + Len(t)) /\ DOMAIN s = 1..m /\ DOMAIN t = 1..Len(t)
  BY <1>1
<1> HIDE DEF c, m
<1>a. \A i \in 1..(m + Len(t)) : \/ i \in 1..m /\ c[i] = s[i]
                                 \/ i - m \in 1..Len(t) /\ c[i] = t[i - m] /\ i \in Int
  BY <1>1
<1>b. \A i \in 1..m : i \in 1..(m + Len(t)) /\ c[i] = s[i]
  BY <1>1
<1>c. \A k \in 1..Len(t) : k + m \in 1..(m + Len(t)) /\ c[k + m] = t[k]
  <2> SUFFICES ASSUME NEW k \in 1..Len(t) PROVE k + m \in 1..(m + Len(t)) /\ c[k + m] = t[k]
    OBVIOUS
  <2>1. k + m \in 1..(m + Len(t)) /\ ~(k + m <= m) /\ (k + m) - m = k
    BY <1>1
  <2> QED BY <1>1, <2>1
<1>3. /\ \A i \in DOMAIN c : \/ i \in DOMAIN s /\ c[i] = s[i]
                             \/ i - m \in DOMAIN t /\ c[i] = t[i - m] /\ i \in Int
      /\ \A i \in DOMAIN s : i \in DOMAIN c /\ c[i] = s[i]
      /\ \A k \in DOMAIN t : k + m \in DOMAIN c /\ c[k + m] = t[k]
  BY <1>2, <1>a, <1>b, <1>c, Zenon
<1>4. IsInjective(c)
  <2> SUFFICES ASSUME NEW i \in DOMAIN c, NEW j \in DOMAIN c, c[i] = c[j] PROVE i = j
    BY DEF IsInjective
  <2>1. CASE i \in DOMAIN s /\ c[i] = s[i] /\ j \in DOMAIN s /\ c[j] = s[j]
    BY <2>1 DEF IsInjective
  <2>2. CASE /\ i - m \in DOMAIN t /\ c[i] = t[i - m] /\ i \in Int
             /\ j - m \in DOMAIN t /\ c[j] = t[j - m] /\ j \in Int
    <3>1. i - m = j - m
      BY <2>2 DEF IsInjective
    <3> QED BY <1>1, <2>2, <3>1
  <2>3. CASE i \in DOMAIN s /\ c[i] = s[i] /\ j - m \in DOMAIN t /\ c[j] = t[j - m]
    BY <2>3 DEF Range
  <2>4. CASE j \in DOMAIN s /\ c[j] = s[j] /\ i - m \in DOMAIN t /\ c[i] = t[i - m]
    BY <2>4 DEF Range
  <2> QED BY <1>3, <2>1, <2>2, <2>3, <2>4
<1>5. Range(c) = Range(s) \cup Range(t)
  <2>1. Range(c) \subseteq Range(s) \cup Range(t)
    BY <1>3 DEF Range
  <2>2. Range(s) \subseteq Range(c) /\ Range(t) \subseteq Range(c)
    BY <1>3 DEF Range
  <2> QED BY <2>1, <2>2
<1> QED BY <1>1, <1>4, <1>5 DEF c

\* release_unsubmitted_orders_after_block names each order behind the blocked one.
LEMMA TailNamed ==
    ASSUME NEW l \in Nat, NEW n \in Nat, l <= n
    PROVE  LET f == [k \in 1..(n - l) |-> l + k]
           IN IsInjective(f) /\ Range(f) = (l + 1)..n
<1> DEFINE f == [k \in 1..(n - l) |-> l + k]
<1>1. IsInjective(f)
  BY DEF IsInjective
<1>2. Range(f) \subseteq (l + 1)..n
  BY DEF Range
<1>3. ASSUME NEW x \in (l + 1)..n PROVE x \in Range(f)
  <2>1. x - l \in 1..(n - l) /\ l + (x - l) = x
    OBVIOUS
  <2>2. f[x - l] = x /\ x - l \in DOMAIN f
    BY <2>1
  <2> QED BY <2>2 DEF Range
<1> QED BY <1>1, <1>2, <1>3

\* The account at the end of the batch, and on the way there.
FeedbackInv == NamedSoFar /\ FeedbackAccountsForBatch

\* Steps that name no order, and bring the worker to none.
NamesNothing ==
    /\ UNCHANGED << batch, releases, fills, update, leg >>
    /\ \/ pc' = pc
       \/ pc \in InHand \cup {"persist"} /\ pc' \in InHand

\* Such steps leave the account as it is.
LEMMA NamesNothingKeeps == FeedbackInv /\ NamesNothing => FeedbackInv'
BY DEF FeedbackInv, NamesNothing, NamedSoFar, FeedbackAccountsForBatch, Named, NamedOnce,
       InHand, Pcs

\* An empty list names nothing.
LEMMA NothingNamed == IsInjective(<< >>) /\ Range(<< >>) = {}
BY DEF IsInjective, Range

\* A list of one names it.
LEMMA OneNamed ==
    ASSUME NEW n \in Nat
    PROVE  IsInjective(<< n >>) /\ Range(<< n >>) = {n} /\ << n >> \in Seq(Nat)
<1>1. DOMAIN << n >> = {1} /\ << n >>[1] = n
  OBVIOUS
<1> QED BY <1>1 DEF IsInjective, Range

\* The order in hand ends and is named: the batch goes on, or is done.
LEMMA NextOrderNames ==
    ASSUME TypeOK, AtWork, FeedbackInv, pc \in InHand \cup {"persist"}, NextOrder,
           \/ releases' = Append(releases, leg) /\ fills' = fills
           \/ fills' = Append(fills, leg) /\ releases' = releases
    PROVE  FeedbackInv'
<1>1. /\ releases \in Seq(Nat) /\ fills \in Seq(Nat) /\ leg \in Nat
      /\ leg \in 1..Len(batch.legs) /\ Len(batch.legs) \in Nat
  BY HoldsLeg DEF TypeOK, SequencesTypeOK
<1>2. /\ IsInjective(releases) /\ IsInjective(fills) /\ Range(releases) \cap Range(fills) = {}
      /\ Range(releases) \cup Range(fills) = 1..(leg - 1)
  BY DEF FeedbackInv, NamedSoFar, NamedOnce, Named
<1>3. leg \notin 1..(leg - 1) /\ (1..(leg - 1)) \cup {leg} = 1..leg /\ leg + 1 - 1 = leg
  BY <1>1
<1>4. leg \notin Range(releases) /\ leg \notin Range(fills)
  BY <1>2, <1>3
<1>5. /\ IsInjective(releases') /\ IsInjective(fills') /\ Range(releases') \cap Range(fills') = {}
      /\ Range(releases') \cup Range(fills') = 1..leg
  <2>1. CASE releases' = Append(releases, leg) /\ fills' = fills
    <3>1. IsInjective(releases') /\ Range(releases') = Range(releases) \cup {leg}
      BY <1>1, <1>2, <1>4, <2>1, AppendNamed
    <3> QED BY <1>2, <1>3, <1>4, <2>1, <3>1
  <2>2. CASE fills' = Append(fills, leg) /\ releases' = releases
    <3>1. IsInjective(fills') /\ Range(fills') = Range(fills) \cup {leg}
      BY <1>1, <1>2, <1>4, <2>2, AppendNamed
    <3> QED BY <1>2, <1>3, <1>4, <2>2, <3>1
  <2> QED BY <2>1, <2>2
<1>6. leg' = leg + 1 /\ batch' = batch /\ (pc' = "persist" \/ (pc' = "emit" /\ leg = Len(batch.legs)))
  BY <1>1 DEF NextOrder
<1>7. NamedSoFar'
  BY <1>3, <1>5, <1>6 DEF NamedSoFar, NamedOnce, Named, InHand, Pcs
<1>8. FeedbackAccountsForBatch'
  BY <1>1, <1>5, <1>6 DEF FeedbackAccountsForBatch, NamedOnce, Named
<1> QED BY <1>7, <1>8 DEF FeedbackInv

\* The batch stops: all orders behind the one in hand are named, and that one
\* too unless its outcome is unknown.
LEMMA BlockedNames ==
    ASSUME TypeOK, AtWork, FeedbackInv, pc \in InHand \cup {"persist"},
           NEW state, NEW release \in BOOLEAN, Blocked(state, release),
           release \/ state = "unknown_order"
    PROVE  FeedbackInv'
<1> DEFINE n == Len(batch.legs)
           b == IF release THEN << leg >> ELSE << >>
           c == [k \in 1..(n - leg) |-> leg + k]
<1>1. /\ releases \in Seq(Nat) /\ fills \in Seq(Nat) /\ leg \in Nat
      /\ leg \in 1..n /\ n \in Nat /\ leg <= n
  BY HoldsLeg DEF TypeOK, SequencesTypeOK
<1>2. /\ IsInjective(releases) /\ IsInjective(fills) /\ Range(releases) \cap Range(fills) = {}
      /\ Range(releases) \cup Range(fills) = 1..(leg - 1)
  BY DEF FeedbackInv, NamedSoFar, NamedOnce, Named
<1>3. /\ b \in Seq(Nat) /\ IsInjective(b) /\ Range(b) = IF release THEN {leg} ELSE {}
  <2>1. CASE release
    BY <1>1, <2>1, OneNamed
  <2>2. CASE ~release
    BY <2>2, NothingNamed
  <2> QED BY <2>1, <2>2
<1>4. c \in Seq(Nat) /\ IsInjective(c) /\ Range(c) = (leg + 1)..n
  <2> HIDE DEF n
  <2> QED BY <1>1, TailReleases, TailNamed
<1>5. /\ releases' = (releases \o b) \o c /\ fills' = fills /\ batch' = batch
      /\ update' = state /\ pc' = "emit"
  BY DEF Blocked, ReleaseUnsubmitted
<1> HIDE DEF b, c, n
<1>6. leg \notin 1..(leg - 1) /\ (1..(leg - 1)) \cap ((leg + 1)..n) = {} /\ leg \notin (leg + 1)..n
      /\ (1..n) = (1..(leg - 1)) \cup {leg} \cup ((leg + 1)..n)
  BY <1>1
<1>7. Range(releases) \cap Range(b) = {}
  BY <1>2, <1>3, <1>6
<1>8. releases \o b \in Seq(Nat) /\ IsInjective(releases \o b)
      /\ Range(releases \o b) = Range(releases) \cup Range(b)
  BY <1>1, <1>2, <1>3, <1>7, ConcatNamed
<1>9. Range(releases \o b) \cap Range(c) = {}
  BY <1>2, <1>3, <1>4, <1>6, <1>8
<1>10. IsInjective(releases') /\ Range(releases') = Range(releases) \cup Range(b) \cup Range(c)
  BY <1>4, <1>5, <1>8, <1>9, ConcatNamed
<1>11. /\ Range(releases') \cap Range(fills) = {}
       /\ Range(releases') \cup Range(fills) \subseteq 1..n
       /\ (1..n) \ {leg} \subseteq Range(releases') \cup Range(fills)
       /\ release => Range(releases') \cup Range(fills) = 1..n
  BY <1>2, <1>3, <1>4, <1>6, <1>10
<1>12. NamedSoFar'
  BY <1>5 DEF NamedSoFar, InHand, Pcs
<1>13. FeedbackAccountsForBatch'
  BY <1>1, <1>2, <1>5, <1>10, <1>11 DEF FeedbackAccountsForBatch, NamedOnce, Named, n
<1> QED BY <1>12, <1>13 DEF FeedbackInv

\* Steps that keep the order in hand, and steps of other tasks.
LEMMA NamesNothingSteps ==
    ASSUME TypeOK, AtWork,
           \/ MarkIntentSubmitting \/ SubmitOrderIntent \/ PersistOrderResponse
           \/ RecordUnknownSubmission \/ RecordUnknownEvent
           \/ Bootstrap \/ (\E b \in Batches : TrySubmit(b))
           \/ (\E i \in Intents : SettleOnChain(i) \/ VerifierStep(i))
           \/ UNCHANGED vars
    PROVE  NamesNothing
<1>1. CASE MarkIntentSubmitting \/ SubmitOrderIntent \/ PersistOrderResponse
           \/ RecordUnknownSubmission \/ RecordUnknownEvent
  BY <1>1 DEF NamesNothing, MarkIntentSubmitting, SubmitOrderIntent, PersistOrderResponse,
       RecordUnknownSubmission, RecordUnknownEvent, feedback, InHand, Pcs
<1>2. CASE Bootstrap \/ UNCHANGED vars
  BY <1>2 DEF NamesNothing, Bootstrap, vars, worker, feedback
<1>3. ASSUME NEW b \in Batches, TrySubmit(b) PROVE NamesNothing
  BY <1>3 DEF NamesNothing, TrySubmit, worker, feedback
<1>4. ASSUME NEW i \in Intents, SettleOnChain(i) \/ VerifierStep(i) PROVE NamesNothing
  BY <1>4 DEF NamesNothing, SettleOnChain, VerifierStep, ConfirmFill, ReadBudgetSpent,
       RaiseReconciliationHalt, MarkFillFailed, worker, feedback
<1> QED BY <1>1, <1>2, <1>3, <1>4

\* A batch is taken, its feedback is sent, or it is lost with the process.
LEMMA FreshBatchNames ==
    ASSUME TypeOK, TakeBatch \/ EmitFeedback \/ Crash
    PROVE  FeedbackInv'
<1>1. releases' = << >> /\ fills' = << >> /\ pc' # "emit"
  BY DEF TakeBatch, EmitFeedback, Crash, ClearFeedback
<1>2. pc' \in InHand \cup {"persist"} => leg' = 1
  BY DEF TakeBatch, EmitFeedback, Crash, InHand, Pcs
<1>3. 1..(1 - 1) = {} OBVIOUS
<1>4. NamedOnce' /\ Named' = {}
  BY <1>1, NothingNamed DEF NamedOnce, Named
<1> QED BY <1>1, <1>2, <1>3, <1>4 DEF FeedbackInv, NamedSoFar, FeedbackAccountsForBatch

\* Each way an order ends keeps the feedback's account.
LEMMA FeedbackStep ==
    ASSUME TypeOK, AtWork, FeedbackInv, [Next]_vars
    PROVE  FeedbackInv'
<1>1. CASE \/ MarkIntentSubmitting \/ SubmitOrderIntent \/ PersistOrderResponse
           \/ RecordUnknownSubmission \/ RecordUnknownEvent
           \/ Bootstrap \/ (\E b \in Batches : TrySubmit(b))
           \/ (\E i \in Intents : SettleOnChain(i) \/ VerifierStep(i))
           \/ UNCHANGED vars
  BY <1>1, NamesNothingSteps, NamesNothingKeeps
<1>2. CASE TakeBatch \/ EmitFeedback \/ Crash
  BY <1>2, FreshBatchNames
<1>3. ASSUME pc \in InHand \cup {"persist"}, NEW i, Rejected(i) PROVE FeedbackInv'
  BY <1>3, NextOrderNames DEF Rejected
<1>4. CASE PersistIntent
  <2>1. CASE Rejected(nextIntent)
    BY <1>3, <1>4, <2>1 DEF PersistIntent
  <2>2. CASE pc' = "reserve" /\ UNCHANGED << batch, leg, resp, feedback, released >>
    <3>1. NamesNothing
      BY <1>4, <2>2 DEF PersistIntent, NamesNothing, feedback, InHand, Pcs
    <3> QED BY <3>1, NamesNothingKeeps
  <2> QED BY <1>4, <2>1, <2>2 DEF PersistIntent
<1>5. CASE ReserveLiveOrderSubmission
  <2>1. pc \in InHand
    BY <1>5 DEF ReserveLiveOrderSubmission, InHand, Pcs
  <2>2. CASE ReserveSucceeds
    <3>1. NamesNothing
      BY <2>1, <2>2 DEF ReserveSucceeds, NamesNothing, feedback, InHand, Pcs
    <3> QED BY <3>1, NamesNothingKeeps
  <2>3. CASE Rejected(iid) BY <1>3, <2>1, <2>3
  <2>4. CASE Blocked("unknown_order", FALSE) BY <2>1, <2>4, BlockedNames
  <2> QED BY <1>5, <2>2, <2>3, <2>4, ReserveCases
<1>6. CASE DryRunLiveOrder \/ ResponseRejected
  BY <1>3, <1>6 DEF DryRunLiveOrder, ResponseRejected, InHand, Pcs
<1>7. CASE PersistIntentFails \/ ReserveFails \/ MarkIntentSubmittingFails
           \/ PersistOrderResponseFails \/ RecordUnknownState
  <2>1. /\ pc \in InHand \cup {"persist"}
        /\ Blocked("disarmed", TRUE) \/ Blocked("unknown_order", FALSE)
    BY <1>7 DEF PersistIntentFails, ReserveFails, MarkIntentSubmittingFails,
         PersistOrderResponseFails, RecordUnknownState, InHand, Pcs
  <2> QED BY <2>1, BlockedNames
<1>8. CASE ResponseBlocks
  <2>1. pc \in InHand \cup {"persist"} /\ Blocked("unknown_order", resp = "blocking")
    BY <1>8 DEF ResponseBlocks, InHand, Pcs
  <2> QED BY <2>1, BlockedNames
<1>9. CASE ResponseFilled
  BY <1>9, NextOrderNames DEF ResponseFilled, InHand, Pcs
<1> QED BY <1>1, <1>2, <1>4, <1>5, <1>6, <1>7, <1>8, <1>9 DEF Next, WorkerStep, SubmitOne

\* The worker has no batch at the start.
LEMMA FeedbackInitially == Init => FeedbackInv
BY DEF Init, FeedbackInv, NamedSoFar, FeedbackAccountsForBatch, InHand, Pcs

-----------------------------------------------------------------------------
(* No fill is silent. *)

\* No fill is silent, and what that rests on.
SilenceInv == AnswerInHand /\ NoSilentFill

\* A refusal is one; a full fill is stored as one.
LEMMA AnswerFacts ==
    /\ \A r \in {"rejected", "zero"} : MatchedUnder(r) = {0}
    /\ AcceptedSize("matched") = Full
<1>1. MatchedUnder("rejected") = {0} /\ MatchedUnder("zero") = {0}
  BY DEF MatchedUnder
<1>2. AcceptedSize("matched") = Full
  BY DEF AcceptedSize
<1> QED BY <1>1, <1>2

\* Steps of the monitor, the chain and the verifiers.
Elsewhere ==
    UNCHANGED << pc, iid, resp, update, nextIntent, calls, venueFill, intentSession,
                 session, accepted, alarmed >>

\* They concern no order in hand.
LEMMA ElsewhereKeeps == SilenceInv /\ Elsewhere => SilenceInv'
BY DEF SilenceInv, Elsewhere, AnswerInHand, NoSilentFill, Filled

\* The order in hand goes on, short of its answer or past it.
OrderGoesOn ==
    /\ pc \in InHand /\ pc' \in InHand \ {"respond", "classify"}
    /\ \A i \in Intents \ {iid} : accepted'[i] = accepted[i]
    /\ UNCHANGED << iid, nextIntent, calls, venueFill, intentSession, session, alarmed >>

\* An order still in hand needs no account yet.
LEMMA OrderGoesOnKeeps == SilenceInv /\ OrderGoesOn => SilenceInv'
<1> SUFFICES ASSUME SilenceInv, OrderGoesOn PROVE SilenceInv' OBVIOUS
<1>1. AnswerInHand'
  BY DEF SilenceInv, OrderGoesOn, AnswerInHand
<1>2. NoSilentFill'
  BY DEF SilenceInv, OrderGoesOn, NoSilentFill, Filled, InHand, Pcs
<1> QED BY <1>1, <1>2 DEF SilenceInv

\* The order in hand ends: nothing was matched, or it is on record, or the
\* monitor will hear of it.
OrderEnds ==
    /\ pc \in InHand \cup {"persist"} /\ pc' \in {"persist", "emit"} /\ iid' = 0
    /\ UNCHANGED << nextIntent, calls, venueFill, intentSession, session, accepted, alarmed >>
    /\ \/ pc = "persist"
       \/ venueFill[iid] = 0
       \/ Filled(iid)
       \/ pc' = "emit" /\ update' = "unknown_order"

\* An order that ends this way is accounted for.
LEMMA OrderEndsKeeps == TypeOK /\ AtWork /\ SilenceInv /\ OrderEnds => SilenceInv'
<1> SUFFICES ASSUME TypeOK, AtWork, SilenceInv, OrderEnds PROVE SilenceInv' OBVIOUS
<1>1. AnswerInHand'
  BY DEF SilenceInv, OrderEnds, AnswerInHand, InHand, Pcs
<1>2. NoSilentFill'
  <2> SUFFICES ASSUME NEW i \in Intents, venueFill'[i] > 0, intentSession'[i] = session'
               PROVE  \/ Filled(i)'
                      \/ session' \in alarmed'
                      \/ pc' = "emit" /\ update' = "unknown_order"
    BY DEF NoSilentFill
  <2>1. /\ venueFill[i] > 0 /\ intentSession[i] = session
        /\ Filled(i) => Filled(i)' 
        /\ session \in alarmed => session' \in alarmed'
    BY DEF OrderEnds, Filled
  <2>2. CASE i # iid
    BY <2>1, <2>2 DEF SilenceInv, NoSilentFill, OrderEnds, InHand, Pcs
  <2>3. CASE i = iid
    <3>1. pc # "persist"
      <4>1. i # 0 BY ConstantsAssumption DEF Intents
      <4> QED BY <2>3, <4>1 DEF SilenceInv, AnswerInHand, InHand, Pcs
    <3> QED BY <2>1, <2>3, <3>1 DEF OrderEnds
  <2> QED BY <2>2, <2>3
<1> QED BY <1>1, <1>2 DEF SilenceInv

\* A new session starts on a database from which nothing was posted.
LEMMA BootstrapSilence == TypeOK /\ AtWork /\ VenueInv /\ SilenceInv /\ Bootstrap => SilenceInv'
<1> SUFFICES ASSUME TypeOK, AtWork, VenueInv, SilenceInv, Bootstrap PROVE SilenceInv' OBVIOUS
<1>1. \A i \in Intents : venueFill[i] = 0
  BY CleanMeansUntouched DEF VenueInv, Bootstrap, SilenceInv, AnswerInHand
<1>2. UNCHANGED << pc, iid, resp, nextIntent, calls, venueFill, intentSession, accepted >>
  BY DEF Bootstrap, worker, venue
<1>3. AnswerInHand'
  BY <1>2 DEF SilenceInv, AnswerInHand
<1>4. NoSilentFill'
  BY <1>1, <1>2 DEF NoSilentFill
<1> QED BY <1>3, <1>4 DEF SilenceInv

\* No order is posted outside a session.
LEMMA PostedInSession ==
    ASSUME TypeOK, VenueInv, AnswerInHand, NEW i \in Intents, venueFill[i] > 0
    PROVE  intentSession[i] # 0 /\ i < nextIntent
<1>1. calls[i] # 0
  BY DEF AnswerInHand
<1>2. i \in Int /\ nextIntent \in Int
  BY ConstantsAssumption DEF TypeOK, LedgerTypeOK, Intents
<1>3. i < nextIntent
  BY <1>1, <1>2 DEF VenueInv, Boundary
<1> QED BY <1>3 DEF AnswerInHand

\* A crash ends the session; a batch begins or ends with no order in hand.
LEMMA BatchSilence ==
    ASSUME TypeOK, VenueInv, SilenceInv, Crash \/ TakeBatch \/ EmitFeedback
    PROVE  SilenceInv'
<1>1. /\ UNCHANGED << nextIntent, calls, venueFill, intentSession, accepted >>
      /\ pc' \in {"idle", "persist"} /\ iid' \in {0, iid}
  BY DEF Crash, TakeBatch, EmitFeedback, ledger, venue
<1>2. CASE Crash
  <2>1. session' = 0 /\ iid' = 0 BY <1>2 DEF Crash
  <2>2. AnswerInHand' BY <1>1, <2>1 DEF SilenceInv, AnswerInHand, InHand, Pcs
  <2>3. NoSilentFill'
    BY <1>1, <2>1, PostedInSession DEF SilenceInv, NoSilentFill
  <2> QED BY <2>2, <2>3 DEF SilenceInv
<1>3. CASE TakeBatch \/ EmitFeedback
  <2>1. /\ UNCHANGED << session, iid >> /\ pc \in {"idle", "emit"}
        /\ pc = "emit" /\ update = "unknown_order" => session \in alarmed'
        /\ session \in alarmed => session \in alarmed'
    BY <1>3 DEF TakeBatch, EmitFeedback, history
  <2>2. AnswerInHand' BY <1>1, <2>1 DEF SilenceInv, AnswerInHand, InHand, Pcs
  <2>3. NoSilentFill'
    BY <1>1, <2>1 DEF SilenceInv, NoSilentFill, Filled
  <2> QED BY <2>2, <2>3 DEF SilenceInv
<1> QED BY <1>2, <1>3

\* The new row is not at the venue.
LEMMA PersistIntentSilence ==
    TypeOK /\ AtWork /\ VenueInv /\ SilenceInv /\ PersistIntent => SilenceInv'
<1> SUFFICES ASSUME TypeOK, AtWork, VenueInv, SilenceInv, PersistIntent PROVE SilenceInv' OBVIOUS
<1>1. nextIntent \in Intents /\ session # 0 /\ nextIntent \in Int
  BY HoldsLeg, ConstantsAssumption DEF PersistIntent, TypeOK, LedgerTypeOK, Intents
<1>2. venueFill[nextIntent] = 0
  BY <1>1 DEF VenueInv, Boundary, SilenceInv, AnswerInHand
<1>3. /\ nextIntent' = nextIntent + 1
      /\ UNCHANGED << calls, venueFill, session, accepted, alarmed >>
      /\ intentSession' = [intentSession EXCEPT ![nextIntent] = session]
  BY DEF PersistIntent, venue
<1>4. pc = "persist" /\ iid = 0
  BY DEF PersistIntent, SilenceInv, AnswerInHand, InHand, Pcs
<1>5. \/ pc' = "reserve" /\ iid' = nextIntent
      \/ pc' \in {"persist", "emit"} /\ iid' = 0
  BY DEF PersistIntent, Rejected, NextOrder
<1>6. AnswerInHand'
  <2>1. (IF pc \in InHand THEN iid = nextIntent - 1 ELSE iid = 0)'
    BY <1>1, <1>3, <1>5 DEF InHand, Pcs
  <2>2. pc' \notin {"respond", "classify"}
    BY <1>5
  <2>3. \A i \in Intents : calls'[i] = 0 => venueFill'[i] = 0
    BY <1>3 DEF SilenceInv, AnswerInHand
  <2>4. \A i \in Intents : i < nextIntent' => intentSession'[i] # 0
    BY <1>1, <1>3 DEF SilenceInv, AnswerInHand, TypeOK, LedgerTypeOK, Intents
  <2> QED BY <2>1, <2>2, <2>3, <2>4 DEF AnswerInHand
<1>7. NoSilentFill'
  <2> SUFFICES ASSUME NEW i \in Intents, venueFill'[i] > 0, intentSession'[i] = session'
               PROVE  Filled(i)' \/ session' \in alarmed'
    BY DEF NoSilentFill
  <2>1. i # nextIntent /\ i # iid /\ venueFill[i] > 0
    BY <1>2, <1>3, <1>4, ConstantsAssumption DEF Intents
  <2>2. intentSession[i] = session
    BY <1>3, <2>1 DEF TypeOK, LedgerTypeOK
  <2> QED BY <1>3, <1>4, <2>1, <2>2 DEF SilenceInv, NoSilentFill, Filled
<1> QED BY <1>6, <1>7 DEF SilenceInv

\* The answer is about what the venue did, and the order is still in hand.
LEMMA SubmitSilence ==
    TypeOK /\ AtWork /\ VenueInv /\ SilenceInv /\ SubmitOrderIntent => SilenceInv'
<1> SUFFICES ASSUME TypeOK, AtWork, VenueInv, SilenceInv, SubmitOrderIntent PROVE SilenceInv'
  OBVIOUS
<1>1. /\ pc = "send" /\ pc \in InHand /\ iid \in Intents /\ pc' = "respond"
      /\ UNCHANGED << iid, nextIntent, intentSession, session, accepted, alarmed >>
      /\ calls' = [calls EXCEPT ![iid] = @ + 1]
  BY DEF SubmitOrderIntent, AtWork, InHand, Pcs, ledger, history
<1>2. PICK r \in Responses : \E f \in MatchedUnder(r) :
        resp' = r /\ venueFill' = [venueFill EXCEPT ![iid] = f]
  BY DEF SubmitOrderIntent
<1>3. PICK f \in MatchedUnder(r) : venueFill' = [venueFill EXCEPT ![iid] = f]
  BY <1>2
<1>4. /\ resp' = r /\ venueFill'[iid] = f /\ calls'[iid] # 0
      /\ \A i \in Intents : i # iid => venueFill'[i] = venueFill[i] /\ calls'[i] = calls[i]
  BY <1>1, <1>2, <1>3 DEF TypeOK, VenueTypeOK
<1>5. AnswerInHand'
  BY <1>1, <1>4 DEF SilenceInv, AnswerInHand, InHand, Pcs
<1>6. NoSilentFill'
  BY <1>1, <1>4 DEF SilenceInv, NoSilentFill, Filled
<1> QED BY <1>5, <1>6 DEF SilenceInv

\* The answer is stored as it came.
LEMMA PersistResponseSilence ==
    TypeOK /\ AtWork /\ SilenceInv /\ PersistOrderResponse => SilenceInv'
<1> SUFFICES ASSUME TypeOK, AtWork, SilenceInv, PersistOrderResponse PROVE SilenceInv' OBVIOUS
<1>1. /\ pc = "respond" /\ pc \in InHand /\ iid \in Intents /\ pc' = "classify"
      /\ UNCHANGED << iid, resp, nextIntent, intentSession, session, alarmed, calls, venueFill >>
      /\ accepted' = [accepted EXCEPT ![iid] = AcceptedSize(resp)]
  BY DEF PersistOrderResponse, AtWork, InHand, Pcs, venue, LogLiveOrder
<1>2. /\ accepted'[iid] = AcceptedSize(resp)
      /\ \A i \in Intents : i # iid => accepted'[i] = accepted[i]
  BY <1>1 DEF TypeOK, LedgerTypeOK
<1>3. AnswerInHand'
  BY <1>1, <1>2 DEF SilenceInv, AnswerInHand, InHand, Pcs
<1>4. NoSilentFill'
  BY <1>1, <1>2 DEF SilenceInv, NoSilentFill, Filled
<1> QED BY <1>3, <1>4 DEF SilenceInv

\* Which steps go on with the order in hand, and which end it.
LEMMA OrderSteps ==
    ASSUME TypeOK, AtWork, VenueInv, SilenceInv
    PROVE  /\ MarkIntentSubmitting \/ RecordUnknownSubmission \/ RecordUnknownEvent => OrderGoesOn
           /\ ReserveLiveOrderSubmission => OrderGoesOn \/ OrderEnds
           /\ PersistIntentFails \/ ReserveFails \/ DryRunLiveOrder \/ MarkIntentSubmittingFails
                => OrderEnds
           /\ PersistOrderResponseFails \/ ResponseBlocks \/ RecordUnknownState => OrderEnds
           /\ ResponseRejected \/ ResponseFilled => OrderEnds
<1>1. ASSUME MarkIntentSubmitting \/ RecordUnknownSubmission \/ RecordUnknownEvent
      PROVE  OrderGoesOn
  BY <1>1 DEF MarkIntentSubmitting, RecordUnknownSubmission, RecordUnknownEvent, OrderGoesOn,
       InHand, Pcs, venue, TypeOK, LedgerTypeOK, LogLiveOrder
<1>2. pc \in {"reserve", "dry", "mark"} => venueFill[iid] = 0
  BY DEF AtWork, VenueInv, Boundary, SilenceInv, AnswerInHand, InHand, Pcs
<1>3. ASSUME ReserveLiveOrderSubmission PROVE OrderGoesOn \/ OrderEnds
  <2>1. /\ pc = "reserve" /\ pc \in InHand
        /\ UNCHANGED << nextIntent, calls, venueFill, intentSession, session, accepted, alarmed >>
    BY <1>3 DEF ReserveLiveOrderSubmission, venue, InHand, Pcs
  <2>2. CASE ReserveSucceeds
    BY <2>1, <2>2 DEF ReserveSucceeds, OrderGoesOn, InHand, Pcs
  <2>3. CASE Rejected(iid) \/ Blocked("unknown_order", FALSE)
    BY <1>2, <2>1, <2>3 DEF Rejected, NextOrder, Blocked, OrderEnds
  <2> QED BY <1>3, <2>2, <2>3, ReserveCases
<1>4. ASSUME PersistIntentFails \/ ReserveFails \/ DryRunLiveOrder \/ MarkIntentSubmittingFails
      PROVE  OrderEnds
  BY <1>2, <1>4 DEF PersistIntentFails, ReserveFails, DryRunLiveOrder, MarkIntentSubmittingFails,
       Rejected, NextOrder, Blocked, OrderEnds, InHand, Pcs, ledger, venue
<1>5. ASSUME PersistOrderResponseFails \/ ResponseBlocks \/ RecordUnknownState
      PROVE  OrderEnds
  BY <1>5 DEF PersistOrderResponseFails, ResponseBlocks, RecordUnknownState, Blocked, OrderEnds,
       InHand, Pcs, ledger, venue
<1>6. ASSUME ResponseRejected PROVE OrderEnds
  <2>1. pc = "classify" /\ resp \in {"rejected", "zero"}
    BY <1>6 DEF ResponseRejected
  <2>2. venueFill[iid] = 0
    BY <2>1, AnswerFacts DEF SilenceInv, AnswerInHand
  <2> QED BY <1>6, <2>1, <2>2 DEF ResponseRejected, Rejected, NextOrder, OrderEnds, InHand, Pcs, ledger, venue
<1>7. ASSUME ResponseFilled PROVE OrderEnds
  <2>1. pc = "classify" /\ resp = "matched"
    BY <1>7 DEF ResponseFilled
  <2>2. accepted[iid] = Full
    BY <2>1, AnswerFacts DEF SilenceInv, AnswerInHand
  <2>3. Filled(iid)
    BY <2>2 DEF Filled, Full
  <2> QED BY <1>7, <2>1, <2>3 DEF ResponseFilled, NextOrder, OrderEnds, InHand, Pcs, venue
<1> QED BY <1>1, <1>3, <1>4, <1>5, <1>6, <1>7

\* Every step keeps it.
LEMMA SilenceStep ==
    ASSUME TypeOK, AtWork, VenueInv, SilenceInv, [Next]_vars
    PROVE  SilenceInv'
<1>1. CASE Bootstrap BY <1>1, BootstrapSilence
<1>2. CASE Crash \/ TakeBatch \/ EmitFeedback BY <1>2, BatchSilence
<1>3. CASE SubmitOne
  BY <1>3, PersistIntentSilence, SubmitSilence, PersistResponseSilence, OrderSteps,
     OrderGoesOnKeeps, OrderEndsKeeps
  DEF SubmitOne
<1>4. ASSUME NEW b \in Batches, TrySubmit(b) PROVE SilenceInv'
  BY <1>4, ElsewhereKeeps DEF TrySubmit, Elsewhere, worker, feedback, ledger, venue, history
<1>5. ASSUME NEW i \in Intents, SettleOnChain(i) PROVE SilenceInv'
  BY <1>5, ElsewhereKeeps DEF SettleOnChain, Elsewhere, worker, feedback, ledger, history
<1>6. ASSUME NEW i \in Intents, VerifierStep(i) PROVE SilenceInv'
  BY <1>6, ElsewhereKeeps DEF VerifierStep, ConfirmFill, ReadBudgetSpent,
       RaiseReconciliationHalt, MarkFillFailed, Elsewhere, worker, feedback, ledger, venue, history
<1>7. CASE UNCHANGED vars
  BY <1>7, ElsewhereKeeps DEF vars, Elsewhere, worker, feedback, ledger, venue, history
<1> QED BY <1>1, <1>2, <1>3, <1>4, <1>5, <1>6, <1>7 DEF Next, WorkerStep

\* Nothing is matched at the start.
LEMMA SilenceInitially == Init => SilenceInv
<1> SUFFICES ASSUME Init PROVE SilenceInv OBVIOUS
<1>1. /\ pc = "idle" /\ iid = 0 /\ nextIntent = 1
      /\ \A i \in Intents : venueFill[i] = 0 /\ ~(i < 1)
  BY ConstantsAssumption DEF Init, Intents
<1>2. AnswerInHand BY <1>1 DEF AnswerInHand, InHand, Pcs
<1>3. NoSilentFill BY <1>1 DEF NoSilentFill
<1> QED BY <1>2, <1>3 DEF SilenceInv

-----------------------------------------------------------------------------
(* No phantom hides behind a real fill. *)

\* A set of intents has a newest one.
LEMMA NewestIntent ==
    ASSUME NEW S, S \subseteq Intents, S # {}
    PROVE  \E m \in S : \A j \in S : j <= m
<1> DEFINE T == {MaxIntents - i : i \in S}
<1>1. \A i \in S : i \in Int /\ MaxIntents - i \in Nat /\ MaxIntents \in Int
  BY ConstantsAssumption DEF Intents
<1>2. T \subseteq Nat /\ T # {}
  BY <1>1
<1>3. PICK x \in T : \A y \in T : ~ (<< y, x >> \in OpToRel(<, Nat))
  <2> HIDE DEF T
  <2> QED BY <1>2, WFMin, NatLessThanWellFounded
<1>4. \A y \in T : ~(y < x)
  BY <1>2, <1>3 DEF OpToRel
<1>5. PICK m \in S : x = MaxIntents - m
  OBVIOUS
<1>6. ASSUME NEW j \in S PROVE j <= m
  <2>1. ~(MaxIntents - j < MaxIntents - m)
    BY <1>4, <1>5
  <2> QED BY <1>1, <2>1
<1> QED BY <1>6

\* Sizes as they are stored, or as the chain has them.
Sizes == [Intents -> NoRow..(Full + 1)]

\* Totals are natural numbers, and grow with the sizes.
LEMMA TotalGrows ==
    ASSUME NEW f \in Sizes, NEW g \in Sizes,
           NEW S, S \subseteq Intents, NEW T, T \subseteq Intents,
           \A j \in S : f[j] > 0 => j \in T /\ f[j] <= g[j]
    PROVE  Total(f, S) \in Nat /\ Total(g, T) \in Nat /\ Total(f, S) <= Total(g, T)
<1> DEFINE all == Intents \X (1..(Full + 1))
<1>1. IsFiniteSet(all)
  <2>1. IsFiniteSet(Intents)
    BY IntentsFinite
  <2>2. IsFiniteSet(1..(Full + 1))
    <3>1. 1 \in Int /\ Full + 1 \in Int
      BY DEF Full
    <3> QED BY <3>1, FS_Interval
  <2> QED BY <2>1, <2>2, FS_Product
<1>2. \A j \in Intents : f[j] \in Int /\ g[j] \in Int /\ g[j] <= Full + 1
  BY DEF Sizes, NoRow, Full
<1>3. Units(g, T) \subseteq all
  <2> SUFFICES ASSUME NEW j \in T, NEW p \in {j} \X (1..g[j]) PROVE p \in all
    BY DEF Units
  <2>1. j \in Intents /\ 1..g[j] \subseteq 1..(Full + 1)
    BY <1>2 DEF Full
  <2> QED BY <2>1
<1>4. Units(f, S) \subseteq Units(g, T)
  <2> SUFFICES ASSUME NEW j \in S, NEW p \in {j} \X (1..f[j]) PROVE p \in Units(g, T)
    BY DEF Units
  <2>1. f[j] > 0
    BY <1>2
  <2>2. j \in T /\ 1..f[j] \subseteq 1..g[j]
    BY <1>2, <2>1
  <2>3. p \in {j} \X (1..g[j])
    BY <2>2
  <2> QED BY <2>2, <2>3 DEF Units
<1>5. IsFiniteSet(Units(g, T))
  BY <1>1, <1>3, FS_Subset
<1>6. IsFiniteSet(Units(f, S)) /\ Cardinality(Units(f, S)) <= Cardinality(Units(g, T))
  BY <1>4, <1>5, FS_Subset
<1>7. Cardinality(Units(f, S)) \in Nat /\ Cardinality(Units(g, T)) \in Nat
  BY <1>5, <1>6, FS_CardinalityType
<1> QED BY <1>6, <1>7 DEF Total

\* The stored sizes and the chain's are such sizes.
LEMMA SizesTyped == TypeOK => accepted \in Sizes /\ chain \in Sizes
BY DEF TypeOK, LedgerTypeOK, VenueTypeOK, Sizes, NoRow, Null, Full

\* The balance the verifier reads is a natural number.
LEMMA PositionNat == ASSUME TypeOK, NEW t PROVE OnchainPosition(t) \in Nat
<1> DEFINE on == {j \in Intents : intentToken[j] = t}
<1>1. chain \in Sizes
  BY SizesTyped
<1>2. on \subseteq Intents /\ \A j \in on : chain[j] <= chain[j]
  BY <1>1 DEF Sizes, NoRow, Full
<1> HIDE DEF on
<1>3. Total(chain, on) \in Nat
  BY <1>1, <1>2, TotalGrows
<1> QED BY <1>3 DEF OnchainPosition, on

\* A confirmed fill stays covered while the rows up to it keep what they say and
\* the chain loses nothing.
LEMMA CoverKept ==
    ASSUME TypeOK, TypeOK', NEW i \in Intents,
           OnchainPosition(intentToken[i]) >= ExpectedRaw(i),
           \A j \in 1..i : /\ accepted'[j] = accepted[j] /\ intentSession'[j] = intentSession[j]
                           /\ intentToken'[j] = intentToken[j],
           \A j \in Intents : chain[j] > 0 => intentToken'[j] = intentToken[j] /\ chain[j] <= chain'[j]
    PROVE  (OnchainPosition(intentToken[i]) >= ExpectedRaw(i))'
<1> DEFINE t == intentToken[i]
           on == {j \in Intents : intentToken[j] = t}
           onP == {j \in Intents : intentToken'[j] = t}
<1>1. i \in 1..i /\ 1..i \subseteq Intents
  BY ConstantsAssumption DEF Intents
<1>2. intentToken'[i] = t /\ intentSession'[i] = intentSession[i]
  BY <1>1
<1>3. accepted \in Sizes /\ chain \in Sizes /\ accepted' \in Sizes /\ chain' \in Sizes
  <2>1. accepted' \in Sizes /\ chain' \in Sizes
    BY DEF TypeOK, LedgerTypeOK, VenueTypeOK, Sizes, NoRow, Null, Full
  <2> QED BY <2>1, SizesTyped
<1>4. MatchedUpTo(i)' = MatchedUpTo(i) /\ MatchedUpTo(i) \subseteq Intents
  BY <1>1, <1>2 DEF MatchedUpTo, Filled
<1>5. Total(accepted', MatchedUpTo(i)) <= Total(accepted, MatchedUpTo(i))
      /\ Total(accepted', MatchedUpTo(i)) \in Nat /\ Total(accepted, MatchedUpTo(i)) \in Nat
  <2>1. \A j \in MatchedUpTo(i) : accepted'[j] <= accepted[j]
    BY <1>1, <1>3 DEF MatchedUpTo, Sizes, NoRow, Full
  <2> QED BY <1>3, <1>4, <2>1, TotalGrows
<1>6. Total(chain, on) <= Total(chain', onP)
      /\ Total(chain, on) \in Nat /\ Total(chain', onP) \in Nat
  <2>1. on \subseteq Intents /\ onP \subseteq Intents
        /\ \A j \in on : chain[j] > 0 => j \in onP /\ chain[j] <= chain'[j]
    OBVIOUS
  <2> HIDE DEF on, onP
  <2> QED BY <1>3, <2>1, TotalGrows
<1>7. /\ OnchainPosition(intentToken[i]) = Total(chain, on)
      /\ (OnchainPosition(intentToken[i]))' = Total(chain', onP)
      /\ ExpectedRaw(i) = Total(accepted, MatchedUpTo(i))
      /\ ExpectedRaw(i)' = Total(accepted', MatchedUpTo(i))
  BY <1>2, <1>4 DEF OnchainPosition, ExpectedRaw, Total, Units
<1> HIDE DEF on, onP, t
<1>8. Total(chain, on) >= Total(accepted, MatchedUpTo(i))
  BY <1>7
<1> QED BY <1>5, <1>6, <1>7, <1>8

\* What no step takes back: rows other than the one in hand, and the chain.
RowsStay ==
    /\ \A j \in Intents : j < nextIntent =>
         intentSession'[j] = intentSession[j] /\ intentToken'[j] = intentToken[j]
    /\ \A j \in Intents : j # iid => accepted'[j] = accepted[j]
    /\ \A j \in Intents : chain[j] <= chain'[j]

\* Rows are written for the order in hand only, and the chain only gains.
LEMMA RowsStayStep == ASSUME TypeOK, AtWork, [Next]_vars PROVE RowsStay
<1>0. \A j \in Intents : chain[j] \in Int /\ venueFill[j] \in Int /\ j \in Int
  BY ConstantsAssumption DEF TypeOK, VenueTypeOK, Intents
<1>a. UNCHANGED << intentSession, intentToken, accepted, chain >> => RowsStay
  BY <1>0 DEF RowsStay
<1>1. CASE Bootstrap \/ Crash \/ TakeBatch \/ EmitFeedback \/ UNCHANGED vars
  BY <1>1, <1>a DEF Bootstrap, Crash, TakeBatch, EmitFeedback, vars, ledger, venue
<1>2. CASE PersistIntent
  <2>1. UNCHANGED << accepted, chain >> /\ nextIntent \in Int
        /\ intentSession' = [intentSession EXCEPT ![nextIntent] = session]
        /\ intentToken' = [intentToken EXCEPT ![nextIntent] = batch.legs[leg]]
    BY <1>2 DEF PersistIntent, venue, TypeOK, LedgerTypeOK
  <2> QED BY <1>0, <2>1 DEF RowsStay, TypeOK, LedgerTypeOK
<1>3. CASE PersistOrderResponse \/ RecordUnknownSubmission
  <2>1. /\ UNCHANGED << intentSession, intentToken, chain >>
        /\ \A j \in Intents : j # iid => accepted'[j] = accepted[j]
    BY <1>3 DEF PersistOrderResponse, RecordUnknownSubmission, venue, TypeOK, LedgerTypeOK, LogLiveOrder
  <2> QED BY <1>0, <2>1 DEF RowsStay
<1>4. CASE ReserveLiveOrderSubmission \/ DryRunLiveOrder \/ MarkIntentSubmitting
           \/ SubmitOrderIntent \/ ResponseBlocks \/ ResponseFilled \/ RecordUnknownEvent
           \/ RecordUnknownState
  BY <1>4, <1>a DEF ReserveLiveOrderSubmission, DryRunLiveOrder, MarkIntentSubmitting,
       SubmitOrderIntent, ResponseBlocks, ResponseFilled, RecordUnknownEvent,
       RecordUnknownState, ledger, venue
<1>5. CASE PersistIntentFails \/ ReserveFails \/ MarkIntentSubmittingFails
           \/ PersistOrderResponseFails \/ ResponseRejected
  BY <1>5, <1>a DEF PersistIntentFails, ReserveFails, MarkIntentSubmittingFails,
       PersistOrderResponseFails, ResponseRejected, ledger, venue
<1>6. ASSUME NEW b \in Batches, TrySubmit(b) PROVE RowsStay
  BY <1>6, <1>a DEF TrySubmit, ledger, venue
<1>7. ASSUME NEW i \in Intents, SettleOnChain(i) PROVE RowsStay
  BY <1>0, <1>7 DEF SettleOnChain, ledger, RowsStay, TypeOK, VenueTypeOK
<1>8. ASSUME NEW i \in Intents, VerifierStep(i) PROVE RowsStay
  BY <1>8, <1>a DEF VerifierStep, ConfirmFill, ReadBudgetSpent, RaiseReconciliationHalt,
       MarkFillFailed, ledger, venue
<1> QED BY <1>1, <1>2, <1>3, <1>4, <1>5, <1>6, <1>7, <1>8 DEF Next, WorkerStep, SubmitOne

\* So a confirmed fill stays covered: it is older than the order in hand.
LEMMA ConfirmedStaysCovered ==
    ASSUME TypeOK, TypeOK', AtWork, VenueInv, SilenceInv, VerdictsAreCovered, RowsStay,
           NEW i \in Intents, reconcile[i] = "confirmed"
    PROVE  (OnchainPosition(intentToken[i]) >= ExpectedRaw(i))'
<1>1. i < nextIntent /\ i # iid /\ i \in Int /\ nextIntent \in Int
  BY ConstantsAssumption DEF VerdictsAreCovered, NoEarlyVerdict, TypeOK, LedgerTypeOK, Intents
<1>2. \A j \in 1..i : j \in Intents /\ j < nextIntent /\ j # iid
  <2>1. iid = 0 \/ iid = nextIntent - 1
    BY DEF SilenceInv, AnswerInHand
  <2> QED BY <1>1, <2>1, ConstantsAssumption DEF Intents
<1>3. \A j \in Intents : chain[j] > 0 => j < nextIntent
  <2> SUFFICES ASSUME NEW j \in Intents, chain[j] > 0 PROVE j < nextIntent OBVIOUS
  <2>1. venueFill[j] > 0
    BY DEF VerdictsAreCovered, TypeOK, VenueTypeOK
  <2> QED BY <2>1, PostedInSession DEF SilenceInv
<1>4. OnchainPosition(intentToken[i]) >= ExpectedRaw(i)
  BY DEF VerdictsAreCovered
<1>5. \A j \in 1..i : /\ accepted'[j] = accepted[j] /\ intentSession'[j] = intentSession[j]
                      /\ intentToken'[j] = intentToken[j]
  BY <1>2 DEF RowsStay
<1>6. \A j \in Intents : chain[j] > 0 => intentToken'[j] = intentToken[j] /\ chain[j] <= chain'[j]
  BY <1>3 DEF RowsStay
<1> QED BY <1>4, <1>5, <1>6, CoverKept

\* Steps that give no verdict, and take in hand nothing but a new row.
NoVerdict ==
    /\ UNCHANGED reconcile
    /\ \A i \in Intents : verifier'[i] \in {"none", verifier[i]}
    /\ nextIntent <= nextIntent'
    /\ iid' \in {0, iid} \/ iid' = nextIntent

\* They make no verdict early.
LEMMA NoVerdictKeeps == ASSUME TypeOK, TypeOK', NoEarlyVerdict, NoVerdict PROVE NoEarlyVerdict'
<1>1. \A i \in Intents : i \in Int /\ i # 0 /\ nextIntent \in Int /\ nextIntent' \in Int
  BY ConstantsAssumption DEF TypeOK, LedgerTypeOK, Intents
<1>2. ASSUME NEW i \in Intents, i >= nextIntent' \/ i = iid' PROVE i >= nextIntent \/ i = iid
  BY <1>1, <1>2 DEF NoVerdict
<1> QED BY <1>2 DEF NoEarlyVerdict, NoVerdict

\* Every step keeps verdicts to the orders that are done.
LEMMA EarlyVerdictStep ==
    ASSUME TypeOK, TypeOK', AtWork, NoEarlyVerdict, [Next]_vars
    PROVE  NoEarlyVerdict'
<1>0. \A i \in Intents : i \in Int /\ i # 0 /\ nextIntent \in Int
  BY ConstantsAssumption DEF TypeOK, LedgerTypeOK, Intents
<1>1. CASE Bootstrap \/ Crash \/ TakeBatch \/ EmitFeedback \/ UNCHANGED vars
  <2>1. NoVerdict
    BY <1>0, <1>1 DEF NoVerdict, Bootstrap, Crash, TakeBatch, EmitFeedback, vars, worker, ledger,
         TypeOK, LedgerTypeOK
  <2> QED BY <2>1, NoVerdictKeeps
<1>2. CASE PersistIntent
  <2>1. iid' \in {0, iid} \/ iid' = nextIntent
    BY <1>2 DEF PersistIntent, Rejected, NextOrder
  <2>2. NoVerdict
    BY <1>2, <2>1 DEF NoVerdict, PersistIntent, TypeOK, LedgerTypeOK
  <2> QED BY <2>2, NoVerdictKeeps
<1>3. CASE ReserveLiveOrderSubmission
  <2>1. iid' \in {0, iid}
    BY <1>3, ReserveCases DEF ReserveSucceeds, Rejected, NextOrder, Blocked
  <2>2. NoVerdict
    BY <1>3, <2>1 DEF NoVerdict, ReserveLiveOrderSubmission, TypeOK, LedgerTypeOK
  <2> QED BY <2>2, NoVerdictKeeps
<1>4. CASE PersistIntentFails \/ ReserveFails \/ MarkIntentSubmittingFails
           \/ PersistOrderResponseFails \/ ResponseRejected \/ DryRunLiveOrder
           \/ ResponseBlocks \/ RecordUnknownState
  <2>1. NoVerdict
    BY <1>4 DEF NoVerdict, PersistIntentFails, ReserveFails, MarkIntentSubmittingFails,
         PersistOrderResponseFails, ResponseRejected, DryRunLiveOrder, ResponseBlocks,
         RecordUnknownState, Rejected, NextOrder, Blocked, ledger, TypeOK, LedgerTypeOK
  <2> QED BY <2>1, NoVerdictKeeps
<1>5. CASE MarkIntentSubmitting \/ SubmitOrderIntent \/ PersistOrderResponse
           \/ RecordUnknownSubmission \/ RecordUnknownEvent
  <2>1. NoVerdict
    BY <1>5 DEF NoVerdict, MarkIntentSubmitting, SubmitOrderIntent, PersistOrderResponse,
         RecordUnknownSubmission, RecordUnknownEvent, ledger, TypeOK, LedgerTypeOK
  <2> QED BY <2>1, NoVerdictKeeps
<1>6. CASE ResponseFilled
  <2>1. iid \in Intents /\ iid < nextIntent /\ iid' = 0 /\ nextIntent' = nextIntent
    BY <1>6 DEF ResponseFilled, NextOrder, AtWork, InHand, Pcs
  <2>2. \A i \in Intents : i # iid => verifier'[i] = verifier[i] /\ reconcile'[i] = reconcile[i]
    BY <1>6 DEF ResponseFilled, TypeOK, LedgerTypeOK, HistoryTypeOK, SpawnVerification
  <2> QED BY <1>0, <2>1, <2>2 DEF NoEarlyVerdict
<1>7. ASSUME NEW b \in Batches, TrySubmit(b) PROVE NoEarlyVerdict'
  BY <1>7 DEF TrySubmit, NoEarlyVerdict, ledger, worker
<1>8. ASSUME NEW i \in Intents, SettleOnChain(i) PROVE NoEarlyVerdict'
  BY <1>8 DEF SettleOnChain, NoEarlyVerdict, ledger, worker
<1>9. ASSUME NEW i \in Intents, VerifierStep(i) PROVE NoEarlyVerdict'
  <2>1. verifier[i] # "none" /\ UNCHANGED << iid, nextIntent >>
    BY <1>9 DEF VerifierStep, ConfirmFill, ReadBudgetSpent, RaiseReconciliationHalt,
         MarkFillFailed, ledger, worker
  <2>2. \A j \in Intents : j # i => verifier'[j] = verifier[j] /\ reconcile'[j] = reconcile[j]
    BY <1>9 DEF VerifierStep, ConfirmFill, ReadBudgetSpent, RaiseReconciliationHalt,
         MarkFillFailed, ledger, TypeOK, LedgerTypeOK, HistoryTypeOK
  <2> QED BY <2>1, <2>2 DEF NoEarlyVerdict
<1> QED BY <1>1, <1>2, <1>3, <1>4, <1>5, <1>6, <1>7, <1>8, <1>9 DEF Next, WorkerStep, SubmitOne

\* The chain holds no more of an order than the venue matched.
LEMMA ChainStep ==
    ASSUME TypeOK, TypeOK', AtWork, VenueInv, AnswerInHand,
           \A i \in Intents : chain[i] <= venueFill[i], [Next]_vars
    PROVE  \A i \in Intents : chain'[i] <= venueFill'[i]
<1>0. UNCHANGED << chain, venueFill >> => \A i \in Intents : chain'[i] <= venueFill'[i]
  OBVIOUS
<1>1. CASE SubmitOrderIntent
  <2>1. iid \in Intents /\ venueFill[iid] = 0
    BY <1>1 DEF SubmitOrderIntent, AtWork, InHand, Pcs, VenueInv, Boundary, AnswerInHand
  <2>2. chain[iid] = 0 /\ chain' = chain
    BY <1>1, <2>1 DEF SubmitOrderIntent, TypeOK, VenueTypeOK
  <2>3. \A i \in Intents : i # iid => venueFill'[i] = venueFill[i]
    BY <1>1 DEF SubmitOrderIntent, TypeOK, VenueTypeOK
  <2>4. venueFill'[iid] >= 0
    BY <2>1 DEF TypeOK, VenueTypeOK, Full
  <2> QED BY <2>1, <2>2, <2>3, <2>4
<1>2. ASSUME NEW i \in Intents, SettleOnChain(i)
      PROVE  \A j \in Intents : chain'[j] <= venueFill'[j]
  <2>1. /\ venueFill' = venueFill /\ chain'[i] = venueFill[i] /\ venueFill[i] \in Int
        /\ \A j \in Intents : j # i => chain'[j] = chain[j]
    BY <1>2 DEF SettleOnChain, TypeOK, VenueTypeOK
  <2> QED BY <2>1
<1>3. CASE Bootstrap \/ Crash \/ TakeBatch \/ EmitFeedback \/ UNCHANGED vars
           \/ (\E b \in Batches : TrySubmit(b)) \/ (\E i \in Intents : VerifierStep(i))
  BY <1>0, <1>3 DEF Bootstrap, Crash, TakeBatch, EmitFeedback, TrySubmit, VerifierStep,
       ConfirmFill, ReadBudgetSpent, RaiseReconciliationHalt, MarkFillFailed, vars, venue
<1>4. CASE PersistIntent \/ PersistIntentFails \/ ReserveLiveOrderSubmission \/ ReserveFails
           \/ DryRunLiveOrder \/ MarkIntentSubmitting \/ MarkIntentSubmittingFails
  BY <1>0, <1>4 DEF PersistIntent, PersistIntentFails, ReserveLiveOrderSubmission, ReserveFails,
       DryRunLiveOrder, MarkIntentSubmitting, MarkIntentSubmittingFails, venue
<1>5. CASE PersistOrderResponse \/ PersistOrderResponseFails \/ ResponseRejected
           \/ ResponseBlocks \/ ResponseFilled \/ RecordUnknownSubmission
           \/ RecordUnknownEvent \/ RecordUnknownState
  BY <1>0, <1>5 DEF PersistOrderResponse, PersistOrderResponseFails, ResponseRejected,
       ResponseBlocks, ResponseFilled, RecordUnknownSubmission, RecordUnknownEvent,
       RecordUnknownState, venue
<1> QED BY <1>1, <1>2, <1>3, <1>4, <1>5 DEF Next, WorkerStep, SubmitOne

\* A fill is confirmed by its own verifier and by nothing else.
LEMMA ConfirmedBy ==
    ASSUME TypeOK, [Next]_vars, NEW i \in Intents, reconcile'[i] = "confirmed",
           reconcile[i] # "confirmed"
    PROVE  ConfirmFill(i)
<1>1. CASE Bootstrap \/ Crash \/ TakeBatch \/ EmitFeedback \/ UNCHANGED vars
           \/ (\E b \in Batches : TrySubmit(b)) \/ (\E k \in Intents : SettleOnChain(k))
  BY <1>1 DEF Bootstrap, Crash, TakeBatch, EmitFeedback, TrySubmit, SettleOnChain, vars, ledger
<1>2. CASE PersistIntent \/ PersistIntentFails \/ ReserveLiveOrderSubmission \/ ReserveFails
           \/ DryRunLiveOrder \/ MarkIntentSubmitting \/ MarkIntentSubmittingFails
  BY <1>2 DEF PersistIntent, PersistIntentFails, ReserveLiveOrderSubmission, ReserveFails,
       DryRunLiveOrder, MarkIntentSubmitting, MarkIntentSubmittingFails, ledger
<1>3. CASE SubmitOrderIntent \/ PersistOrderResponse \/ PersistOrderResponseFails
           \/ ResponseRejected \/ ResponseBlocks \/ RecordUnknownSubmission
           \/ RecordUnknownEvent \/ RecordUnknownState
  BY <1>3 DEF SubmitOrderIntent, PersistOrderResponse, PersistOrderResponseFails,
       ResponseRejected, ResponseBlocks, RecordUnknownSubmission, RecordUnknownEvent,
       RecordUnknownState, ledger
<1>4. CASE ResponseFilled
  BY <1>4 DEF ResponseFilled, TypeOK, LedgerTypeOK
<1>5. ASSUME NEW k \in Intents, VerifierStep(k) PROVE ConfirmFill(i)
  <2>1. CASE ConfirmFill(k)
    <3>1. i = k BY <2>1 DEF ConfirmFill, TypeOK, LedgerTypeOK
    <3> QED BY <2>1, <3>1
  <2>2. CASE ReadBudgetSpent(k) \/ RaiseReconciliationHalt(k) \/ MarkFillFailed(k)
    BY <2>2 DEF ReadBudgetSpent, RaiseReconciliationHalt, MarkFillFailed, ledger, TypeOK, LedgerTypeOK
  <2> QED BY <1>5, <2>1, <2>2 DEF VerifierStep
<1> QED BY <1>1, <1>2, <1>3, <1>4, <1>5 DEF Next, WorkerStep, SubmitOne

\* A verdict is given on a covered position, which stays covered.
LEMMA VerdictsStep ==
    ASSUME TypeOK, TypeOK', AtWork, VenueInv, SilenceInv, VerdictsAreCovered, [Next]_vars
    PROVE  VerdictsAreCovered'
<1>1. NoEarlyVerdict'
  BY EarlyVerdictStep DEF VerdictsAreCovered
<1>2. \A i \in Intents : chain'[i] <= venueFill'[i]
  BY ChainStep DEF VerdictsAreCovered, SilenceInv
<1>3. ASSUME NEW i \in Intents, reconcile'[i] = "confirmed"
      PROVE  (OnchainPosition(intentToken[i]) >= ExpectedRaw(i))'
  <2>1. CASE reconcile[i] = "confirmed"
    BY <2>1, RowsStayStep, ConfirmedStaysCovered
  <2>2. CASE reconcile[i] # "confirmed"
    <3>1. ConfirmFill(i)
      BY <1>3, <2>2, ConfirmedBy
    <3>2. /\ OnchainPosition(intentToken[i]) >= ExpectedRaw(i)
          /\ UNCHANGED << accepted, intentSession, intentToken, chain >>
      BY <3>1 DEF ConfirmFill, venue
    <3> QED
      BY <3>2 DEF OnchainPosition, ExpectedRaw, MatchedUpTo, Filled, Total, Units
  <2> QED BY <2>1, <2>2
<1> QED BY <1>1, <1>2, <1>3 DEF VerdictsAreCovered

\* No verdicts at the start.
LEMMA VerdictsInitially == Init => VerdictsAreCovered
BY ConstantsAssumption DEF Init, VerdictsAreCovered, NoEarlyVerdict, Intents

\* Of the fills of a session on a token the newest is held against all of them.
LEMMA CoveredMeansNoPhantom ==
    ASSUME TypeOK, VerdictsAreCovered
    PROVE  PhantomNeverHides
<1> SUFFICES ASSUME NEW t \in Tokens, NEW s \in Sessions,
                    NEW S, S = {i \in FilledIn(s) : intentToken[i] = t},
                    \A i \in S : reconcile[i] = "confirmed"
             PROVE  OnchainPosition(t) >= Total(accepted, S)
  BY DEF PhantomNeverHides
<1>1. accepted \in Sizes /\ chain \in Sizes /\ S \subseteq Intents
  BY SizesTyped DEF FilledIn
<1>2. CASE S = {}
  <2>3. Units(accepted, S) = {}
    BY <1>2 DEF Units
  <2>4. Total(accepted, S) = 0
    BY <2>3, FS_EmptySet DEF Total
  <2> QED BY <2>4, PositionNat
<1>3. CASE S # {}
  <2>1. PICK m \in S : \A j \in S : j <= m
    BY <1>1, <1>3, NewestIntent
  <2>2. m \in Intents /\ intentToken[m] = t /\ intentSession[m] = s /\ m \in Int
    BY <1>1, ConstantsAssumption DEF FilledIn, Intents
  <2>3. S \subseteq MatchedUpTo(m) /\ MatchedUpTo(m) \subseteq Intents
    BY <1>1, <2>1, <2>2, ConstantsAssumption DEF MatchedUpTo, FilledIn, Intents
  <2>4. \A j \in S : accepted[j] <= accepted[j]
    BY <1>1 DEF Sizes, NoRow, Full
  <2>5. /\ Total(accepted, S) \in Nat /\ Total(accepted, MatchedUpTo(m)) \in Nat
        /\ Total(accepted, S) <= Total(accepted, MatchedUpTo(m))
    BY <1>1, <2>3, <2>4, TotalGrows
  <2>6. OnchainPosition(t) >= Total(accepted, MatchedUpTo(m))
    BY <2>2 DEF VerdictsAreCovered, ExpectedRaw
  <2>7. OnchainPosition(t) \in Nat
    BY PositionNat
  <2> QED BY <2>5, <2>6, <2>7
<1> QED BY <1>2, <1>3

-----------------------------------------------------------------------------
(* The inductive invariant, and the theorems that follow from it. *)

\* IInv is an inductive invariant of the specification.
THEOREM IInvHolds == Spec => []IInv
<1> DEFINE All == /\ TypeOK /\ AtWork /\ VenueInv /\ AttemptsWithinCap
                  /\ FeedbackInv /\ SilenceInv /\ VerdictsAreCovered
<1>1. Init => All
  BY TypesInitially, VenueInvInitially, CapInitially, FeedbackInitially, SilenceInitially,
     VerdictsInitially
<1>2. All /\ [Next]_vars => All'
  <2> SUFFICES ASSUME All, [Next]_vars PROVE All' OBVIOUS
  <2>1. TypeOK' /\ AtWork' BY TypesPreserved
  <2>2. VenueInv' /\ AttemptsWithinCap' BY VenueInvPreserved, CapPreserved
  <2>3. FeedbackInv' BY FeedbackStep
  <2>4. SilenceInv' BY SilenceStep
  <2>5. VerdictsAreCovered' BY <2>1, VerdictsStep
  <2> QED BY <2>1, <2>2, <2>3, <2>4, <2>5
<1>3. All => IInv BY DEF IInv, VenueInv, FeedbackInv, SilenceInv
<1> QED BY <1>1, <1>2, <1>3, PTL DEF Spec

\* The canary promise, for every cap, every database failure and any number of
\* crashes and restarts: a nonzero LIVE_MAX_SESSION_ORDERS bounds the orders
\* posted from one run database.
THEOREM OrderCapHolds == Spec => []OrderCapPerRunDb
<1>1. IInv => OrderCapPerRunDb BY CapCoversRunDb DEF IInv, VenueInv
<1> QED BY <1>1, IInvHolds, PTL

\* submit_live_orders_from_worker and release_unsubmitted_orders_after_block:
\* the feedback of a batch of any length names each order once, and leaves out
\* none but one whose outcome is unknown.
THEOREM FeedbackAccountsHolds == Spec => []FeedbackAccountsForBatch
<1>1. IInv => FeedbackAccountsForBatch BY DEF IInv
<1> QED BY <1>1, IInvHolds, PTL

\* A size the venue matched in the running session is on record as a fill, or
\* the monitor is told unknown_order, whichever answer came and whichever write
\* failed.
THEOREM NoSilentFillHolds == Spec => []NoSilentFill
<1>1. IInv => NoSilentFill BY DEF IInv
<1> QED BY <1>1, IInvHolds, PTL

\* verify_onchain_fill: when all fills of a session on a token are confirmed,
\* the chain holds all of them, in whatever order they settled and were read.
THEOREM PhantomNeverHidesHolds == Spec => []PhantomNeverHides
<1>1. IInv => PhantomNeverHides BY CoveredMeansNoPhantom DEF IInv
<1> QED BY <1>1, IInvHolds, PTL
=============================================================================
