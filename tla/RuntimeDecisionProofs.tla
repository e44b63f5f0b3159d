----------------------- MODULE RuntimeDecisionProofs -----------------------
(***************************************************************************)
(* Proofs about Bankroll and RuntimeDecision, for any number of orders,    *)
(* markets and messages, any mailbox, any limits and any policy.           *)
(***************************************************************************)
EXTENDS RuntimeDecision, FiniteSetTheorems, SequenceTheorems, TLAPS

-----------------------------------------------------------------------------
(* The bankroll.                                                             *)

\* A bankroll whose totals are the sums of its buckets.
Consistent(b) ==
    /\ b \in Bankrolls
    /\ b.activeTotal = AddUp(b.active)
    /\ b.pendingTotal = AddUp(b.pending)

\* consume_family_active_reserve: bucket and total lose the same amount, which
\* is the amount asked for as far as the bucket holds it.
LEMMA ConsumeActiveFact ==
    ASSUME NEW b, Consistent(b), NEW f \in Families, NEW amount \in Nat
    PROVE  LET c == ConsumeActive(b, f, amount)
               r == Least(amount, b.active[f])
           IN /\ Consistent(c)
              /\ r \in Nat /\ r <= amount
              /\ c.activeTotal = b.activeTotal - r
              /\ c.pendingTotal = b.pendingTotal
              /\ c.balance = b.balance /\ c.fees = b.fees
<1> DEFINE r == Least(amount, b.active[f])
           c == ConsumeActive(b, f, amount)
<1>1. /\ b.active \in [Families -> Nat] /\ b.pending \in [Families -> Nat]
      /\ b.activeTotal \in Nat /\ b.pendingTotal \in Nat
      /\ b.balance \in Int /\ b.fees \in Nat
      /\ b.activeTotal = AddUp(b.active) /\ b.pendingTotal = AddUp(b.pending)
  BY DEF Consistent, Bankrolls
<1>2. /\ r \in Nat /\ r <= amount /\ r <= b.active[f]
  BY <1>1 DEF Least
<1>3. /\ b.active["latency_arb"] \in Nat /\ b.active["spread_capture"] \in Nat
      /\ b.active["calm_persistence"] \in Nat
  BY <1>1 DEF Families
<1>4. b.active[f] <= b.activeTotal
  BY <1>1, <1>3 DEF AddUp, Families
<1>5. c = [b EXCEPT !.active = [b.active EXCEPT ![f] = b.active[f] - r],
                    !.activeTotal = b.activeTotal - r]
  <2>1. Positive(b.active[f] - r) = b.active[f] - r /\ Positive(b.activeTotal - r) = b.activeTotal - r
    BY <1>1, <1>2, <1>4 DEF Positive
  <2> QED BY <2>1, Zenon DEF ConsumeActive
<1>6. /\ c.active = [b.active EXCEPT ![f] = b.active[f] - r]
      /\ c.activeTotal = b.activeTotal - r
      /\ c.pending = b.pending /\ c.pendingTotal = b.pendingTotal
      /\ c.balance = b.balance /\ c.fees = b.fees
  BY <1>5 DEF Consistent, Bankrolls
<1>7. c \in Bankrolls
  <2>1. [b.active EXCEPT ![f] = b.active[f] - r] \in [Families -> Nat]
    BY <1>1, <1>2
  <2>2. b.activeTotal - r \in Nat
    BY <1>1, <1>2, <1>4
  <2> QED BY <1>5, <2>1, <2>2 DEF Consistent, Bankrolls
<1>8. c.activeTotal = AddUp(c.active)
  BY <1>1, <1>2, <1>3, <1>6 DEF AddUp, Families
<1>9. Consistent(c)
  BY <1>1, <1>6, <1>7, <1>8 DEF Consistent
<1> QED BY <1>2, <1>6, <1>9

\* consume_family_pending_reserve, likewise.
LEMMA ConsumePendingFact ==
    ASSUME NEW b, Consistent(b), NEW f \in Families, NEW amount \in Nat
    PROVE  LET c == ConsumePending(b, f, amount)
           IN /\ Consistent(c)
              /\ c.activeTotal = b.activeTotal
              /\ c.pendingTotal <= b.pendingTotal
              /\ c.balance = b.balance /\ c.fees = b.fees
<1> DEFINE r == Least(amount, b.pending[f])
           c == ConsumePending(b, f, amount)
<1>1. /\ b.active \in [Families -> Nat] /\ b.pending \in [Families -> Nat]
      /\ b.activeTotal \in Nat /\ b.pendingTotal \in Nat
      /\ b.balance \in Int /\ b.fees \in Nat
      /\ b.activeTotal = AddUp(b.active) /\ b.pendingTotal = AddUp(b.pending)
  BY DEF Consistent, Bankrolls
<1>2. /\ r \in Nat /\ r <= amount /\ r <= b.pending[f]
  BY <1>1 DEF Least
<1>3. /\ b.pending["latency_arb"] \in Nat /\ b.pending["spread_capture"] \in Nat
      /\ b.pending["calm_persistence"] \in Nat
  BY <1>1 DEF Families
<1>4. b.pending[f] <= b.pendingTotal
  BY <1>1, <1>3 DEF AddUp, Families
<1>5. c = [b EXCEPT !.pending = [b.pending EXCEPT ![f] = b.pending[f] - r],
                    !.pendingTotal = b.pendingTotal - r]
  <2>1. Positive(b.pending[f] - r) = b.pending[f] - r /\ Positive(b.pendingTotal - r) = b.pendingTotal - r
    BY <1>1, <1>2, <1>4 DEF Positive
  <2> QED BY <2>1, Zenon DEF ConsumePending
<1>6. /\ c.pending = [b.pending EXCEPT ![f] = b.pending[f] - r]
      /\ c.pendingTotal = b.pendingTotal - r
      /\ c.active = b.active /\ c.activeTotal = b.activeTotal
      /\ c.balance = b.balance /\ c.fees = b.fees
  BY <1>5 DEF Consistent, Bankrolls
<1>7. c \in Bankrolls
  <2>1. [b.pending EXCEPT ![f] = b.pending[f] - r] \in [Families -> Nat]
    BY <1>1, <1>2
  <2>2. b.pendingTotal - r \in Nat
    BY <1>1, <1>2, <1>4
  <2> QED BY <1>5, <2>1, <2>2 DEF Consistent, Bankrolls
<1>8. c.pendingTotal = AddUp(c.pending)
  BY <1>1, <1>2, <1>3, <1>6 DEF AddUp, Families
<1>9. Consistent(c)
  BY <1>1, <1>6, <1>7, <1>8 DEF Consistent
<1> QED BY <1>1, <1>2, <1>6, <1>9

\* add_reserved: the reserve grows by the amount.
LEMMA AddReservedFact ==
    ASSUME NEW b, Consistent(b), NEW f \in Families, NEW amount \in Nat
    PROVE  LET c == AddReserved(b, f, amount)
           IN Consistent(c) /\ Committed(c) = Committed(b) + amount
<1> DEFINE c == AddReserved(b, f, amount)
<1>1. /\ b.active \in [Families -> Nat] /\ b.pending \in [Families -> Nat]
      /\ b.activeTotal \in Nat /\ b.pendingTotal \in Nat
      /\ b.activeTotal = AddUp(b.active) /\ b.pendingTotal = AddUp(b.pending)
  BY DEF Consistent, Bankrolls
<1>2. /\ b.active["latency_arb"] \in Nat /\ b.active["spread_capture"] \in Nat
      /\ b.active["calm_persistence"] \in Nat
  BY <1>1 DEF Families
<1>3. c = [b EXCEPT !.active = [b.active EXCEPT ![f] = b.active[f] + amount],
                    !.activeTotal = b.activeTotal + amount]
  BY DEF AddReserved, Consistent, Bankrolls
<1>4. /\ c.active = [b.active EXCEPT ![f] = b.active[f] + amount]
      /\ c.activeTotal = b.activeTotal + amount
      /\ c.pending = b.pending /\ c.pendingTotal = b.pendingTotal
  BY <1>3 DEF Consistent, Bankrolls
<1>5. c \in Bankrolls
  <2>1. [b.active EXCEPT ![f] = b.active[f] + amount] \in [Families -> Nat]
    BY <1>1
  <2>2. b.activeTotal + amount \in Nat
    BY <1>1
  <2> QED BY <1>3, <2>1, <2>2 DEF Consistent, Bankrolls
<1>6. c.activeTotal = AddUp(c.active)
  BY <1>1, <1>2, <1>4 DEF AddUp, Families
<1> QED BY <1>1, <1>4, <1>5, <1>6 DEF Consistent, Committed

\* hydrate_trade_reserve of a closed market: the reserve grows by the amount.
LEMMA AddPendingFact ==
    ASSUME NEW b, Consistent(b), NEW f \in Families, NEW amount \in Nat
    PROVE  LET c == AddPending(b, f, amount)
           IN Consistent(c) /\ Committed(c) = Committed(b) + amount
<1> DEFINE c == AddPending(b, f, amount)
<1>1. /\ b.active \in [Families -> Nat] /\ b.pending \in [Families -> Nat]
      /\ b.activeTotal \in Nat /\ b.pendingTotal \in Nat
      /\ b.activeTotal = AddUp(b.active) /\ b.pendingTotal = AddUp(b.pending)
  BY DEF Consistent, Bankrolls
<1>2. /\ b.pending["latency_arb"] \in Nat /\ b.pending["spread_capture"] \in Nat
      /\ b.pending["calm_persistence"] \in Nat
  BY <1>1 DEF Families
<1>3. c = [b EXCEPT !.pending = [b.pending EXCEPT ![f] = b.pending[f] + amount],
                    !.pendingTotal = b.pendingTotal + amount]
  BY DEF AddPending, Consistent, Bankrolls
<1>4. /\ c.pending = [b.pending EXCEPT ![f] = b.pending[f] + amount]
      /\ c.pendingTotal = b.pendingTotal + amount
      /\ c.active = b.active /\ c.activeTotal = b.activeTotal
  BY <1>3 DEF Consistent, Bankrolls
<1>5. c \in Bankrolls
  <2>1. [b.pending EXCEPT ![f] = b.pending[f] + amount] \in [Families -> Nat]
    BY <1>1
  <2>2. b.pendingTotal + amount \in Nat
    BY <1>1
  <2> QED BY <1>3, <2>1, <2>2 DEF Consistent, Bankrolls
<1>6. c.pendingTotal = AddUp(c.pending)
  BY <1>1, <1>2, <1>4 DEF AddUp, Families
<1> QED BY <1>1, <1>4, <1>5, <1>6 DEF Consistent, Committed

\* release_from_family_buckets never lets the reserve grow.
LEMMA ReleaseFact ==
    ASSUME NEW b, Consistent(b), NEW f \in Families, NEW amount \in Nat
    PROVE  LET c == Release(b, f, amount)
           IN Consistent(c) /\ Committed(c) <= Committed(b)
<1> DEFINE d == ConsumeActive(b, f, amount)
           r == Least(amount, b.active[f])
           c == ConsumePending(d, f, amount - r)
<1>1. /\ Consistent(d) /\ r \in Nat /\ r <= amount
      /\ d.activeTotal = b.activeTotal - r /\ d.pendingTotal = b.pendingTotal
  BY ConsumeActiveFact
<1>2. amount - r \in Nat
  BY <1>1
<1>3. /\ Consistent(c) /\ c.activeTotal = d.activeTotal /\ c.pendingTotal <= d.pendingTotal
  BY <1>1, <1>2, ConsumePendingFact
<1>4. /\ b.activeTotal \in Nat /\ b.pendingTotal \in Nat
      /\ c.activeTotal \in Nat /\ c.pendingTotal \in Nat
  BY <1>3 DEF Consistent, Bankrolls
<1>5. Committed(c) <= Committed(b)
  BY <1>1, <1>3, <1>4 DEF Committed
<1> QED BY <1>3, <1>5 DEF Release

\* transition_family_reserve_to_pending keeps the reserve.
LEMMA ToPendingFact ==
    ASSUME NEW b, Consistent(b), NEW f \in Families, NEW amount \in Nat
    PROVE  LET c == ToPending(b, f, amount)
           IN Consistent(c) /\ Committed(c) = Committed(b)
<1> DEFINE d == ConsumeActive(b, f, amount)
           r == Least(amount, b.active[f])
           c == AddPending(d, f, r)
<1>1. /\ Consistent(d) /\ r \in Nat
      /\ d.activeTotal = b.activeTotal - r /\ d.pendingTotal = b.pendingTotal
  BY ConsumeActiveFact
<1>2. Consistent(c) /\ Committed(c) = Committed(d) + r
  BY <1>1, AddPendingFact
<1>3. b.activeTotal \in Nat /\ b.pendingTotal \in Nat
  BY DEF Consistent, Bankrolls
<1>4. Committed(c) = Committed(b)
  BY <1>1, <1>2, <1>3 DEF Committed
<1> QED BY <1>2, <1>4 DEF ToPending

\* apply_trade_result_in_memory never lets the reserve grow.
LEMMA ApplyTradeResultFact ==
    ASSUME NEW b, Consistent(b), NEW f \in Families,
           NEW cost \in Nat, NEW payout \in Nat, NEW fee \in Nat
    PROVE  LET c == ApplyTradeResult(b, f, cost, payout, fee)
           IN Consistent(c) /\ Committed(c) <= Committed(b)
<1> DEFINE d == Release(b, f, cost)
           c == [d EXCEPT !.balance = d.balance + payout - cost - fee, !.fees = d.fees + fee]
<1>1. Consistent(d) /\ Committed(d) <= Committed(b)
  BY ReleaseFact
<1>2. d \in Bankrolls /\ d.balance \in Int /\ d.fees \in Nat
  BY <1>1 DEF Consistent, Bankrolls
<1>3. /\ c.active = d.active /\ c.pending = d.pending
      /\ c.activeTotal = d.activeTotal /\ c.pendingTotal = d.pendingTotal
  BY <1>2 DEF Bankrolls
<1>4. c \in Bankrolls
  <2>1. d.balance + payout - cost - fee \in Int /\ d.fees + fee \in Nat
    BY <1>2
  <2> QED BY <1>2, <2>1 DEF Bankrolls
<1>5. c = ApplyTradeResult(b, f, cost, payout, fee)
  BY DEF ApplyTradeResult
<1> HIDE DEF c
<1> QED BY <1>1, <1>3, <1>4, <1>5 DEF Consistent, Committed

-----------------------------------------------------------------------------
(* Types, buckets and the ceiling.                                           *)

\* The inductive invariant: a total that fell below its buckets would let
\* ToPending create reserve, so the ceiling needs BucketsAgree.
ReserveInv == TypeOK /\ BucketsAgree /\ CommittedWithinCeiling

\* Short sequences over a set, concatenation, first element and rest.
LEMMA ShortSeq ==
    ASSUME NEW S, NEW a \in S, NEW b \in S
    PROVE  << a >> \in Seq(S) /\ << a, b >> \in Seq(S) /\ << >> \in Seq(S)
  OBVIOUS

LEMMA ConcatSeq ==
    ASSUME NEW S, NEW s \in Seq(S), NEW t \in Seq(S)
    PROVE  s \o t \in Seq(S)
  OBVIOUS

LEMMA HeadTail ==
    ASSUME NEW S, NEW s \in Seq(S), s # << >>
    PROVE  Head(s) \in S /\ Tail(s) \in Seq(S)
  OBVIOUS

LEMMA NoJobType == NoJob \in Messages /\ 1 \in Markets /\ "up" \in Sides
<1>1. 1 \in Markets /\ "up" \in Sides
  BY DecisionAssumption DEF Markets, Sides
<1> QED BY <1>1 DEF NoJob, Messages

LEMMA MessageType ==
    ASSUME NEW kind \in {"none", "closed", "resolved", "feedback", "release", "due", "undo"},
           NEW ids \in SUBSET Ids, NEW strict \in BOOLEAN
    PROVE  Message(kind, ids, strict) \in Messages
  BY NoJobType DEF Message, NoJob, Messages

LEMMA MarketMessageType ==
    ASSUME NEW kind \in {"closed", "resolved"}, NEW m \in Markets, NEW outcome \in Sides
    PROVE  MarketMessage(kind, m, outcome) \in Messages
  BY NoJobType DEF MarketMessage, NoJob, Messages

LEMMA RemovedType ==
    /\ NoOrder \in Orders
    /\ [NoOrder EXCEPT !.at = "removed"] \in Orders
<1>1. 1 \in Markets /\ "up" \in Sides /\ "latency_arb" \in Families /\ 0 \in Nat
  BY DecisionAssumption DEF Markets, Sides, Families
<1> QED BY <1>1 DEF NoOrder, Orders

\* Post keeps the channels well-typed.
LEMMA PostType ==
    ASSUME TypeOK, NEW messages \in Seq(Messages), Post(messages)
    PROVE  mailbox' \in Seq(Messages) /\ toSend' \in Seq(Messages) /\ lost' \in BOOLEAN
<1>1. mailbox \in Seq(Messages) /\ toSend \in Seq(Messages) /\ lost \in BOOLEAN
  BY DEF TypeOK
<1>2. CASE messages = << >>
  BY <1>1, <1>2 DEF Post
<1>3. CASE messages # << >>
  <2>1. Head(messages) \in Messages /\ Tail(messages) \in Seq(Messages)
    BY <1>3
  <2>2. << >> \in Seq(Messages) /\ Append(mailbox, Head(messages)) \in Seq(Messages)
    BY <1>1, <2>1
  <2> QED BY <1>1, <1>3, <2>1, <2>2, Zenon DEF Post
<1> QED BY <1>2, <1>3

\* The bankroll, as ReserveInv sees it.
Sound(b) == Consistent(b) /\ Committed(b) <= Ceiling

LEMMA SoundFact == ReserveInv => Sound(bankroll)
  BY DEF ReserveInv, TypeOK, BucketsAgree, CommittedWithinCeiling, Sound, Consistent

LEMMA SoundPrime ==
    TypeOK' /\ Sound(bankroll') => ReserveInv'
  BY DEF ReserveInv, BucketsAgree, CommittedWithinCeiling, Sound, Consistent

\* Committed amounts are natural numbers.
LEMMA CommittedNat ==
    ASSUME NEW b, Consistent(b)
    PROVE  Committed(b) \in Nat
  BY DEF Consistent, Bankrolls, Committed

LEMMA SoundRelease ==
    ASSUME NEW b, Sound(b), NEW f \in Families, NEW amount \in Nat
    PROVE  Sound(Release(b, f, amount))
<1> DEFINE c == Release(b, f, amount)
<1>1. Consistent(b) /\ Committed(b) <= Ceiling
  BY DEF Sound
<1>2. Consistent(c) /\ Committed(c) <= Committed(b)
  BY <1>1, ReleaseFact
<1>3. Committed(b) \in Nat /\ Committed(c) \in Nat
  BY <1>1, <1>2, CommittedNat
<1>4. Committed(c) <= Ceiling
  BY <1>1, <1>2, <1>3, BankrollAssumption
<1> QED BY <1>2, <1>4 DEF Sound

LEMMA SoundToPending ==
    ASSUME NEW b, Sound(b), NEW f \in Families, NEW amount \in Nat
    PROVE  Sound(ToPending(b, f, amount))
  BY ToPendingFact DEF Sound

LEMMA SoundTradeResult ==
    ASSUME NEW b, Sound(b), NEW f \in Families,
           NEW cost \in Nat, NEW payout \in Nat, NEW fee \in Nat
    PROVE  Sound(ApplyTradeResult(b, f, cost, payout, fee))
<1> DEFINE c == ApplyTradeResult(b, f, cost, payout, fee)
<1>1. Consistent(b) /\ Committed(b) <= Ceiling
  BY DEF Sound
<1>2. Consistent(c) /\ Committed(c) <= Committed(b)
  BY <1>1, ApplyTradeResultFact
<1>3. Committed(b) \in Nat /\ Committed(c) \in Nat
  BY <1>1, <1>2, CommittedNat
<1>4. Committed(c) <= Ceiling
  BY <1>1, <1>2, <1>3, BankrollAssumption
<1> QED BY <1>2, <1>4 DEF Sound

\* A reservation within open_exposure_headroom keeps to the ceiling.
LEMMA SoundReserve ==
    ASSUME NEW b, Sound(b), NEW f \in Families, NEW cost \in Nat, NEW policy,
           Affordable(b, f, cost, policy)
    PROVE  Sound(AddReserved(b, f, cost))
<1>1. Consistent(b) /\ Committed(b) \in Nat /\ Committed(b) <= Ceiling
  BY CommittedNat DEF Sound
<1>2. Consistent(AddReserved(b, f, cost)) /\ Committed(AddReserved(b, f, cost)) = Committed(b) + cost
  BY <1>1, AddReservedFact
<1>3. cost > 0 /\ cost <= Headroom(b)
  BY DEF Affordable
<1>4. Committed(b) + cost <= Ceiling
  BY <1>1, <1>3, BankrollAssumption DEF Headroom, Positive
<1> QED BY <1>2, <1>4 DEF Sound

\* Init gives ReserveInv: at most one seeded trade, within the ceiling.
LEMMA ReserveInit == Init => ReserveInv
<1> SUFFICES ASSUME Init PROVE ReserveInv
  OBVIOUS
<1> DEFINE n == NewBankroll(config.balance)
<1>1. PICK seed \in IF config.live THEN {0} ELSE SeedCosts :
      \E ended \in IF seed = 0 THEN {FALSE} ELSE BOOLEAN :
         /\ bankroll = IF ended THEN AddPending(n, "latency_arb", seed)
                       ELSE AddReserved(n, "latency_arb", seed)
         /\ orders = [i \in Ids |->
                        IF i = 1 /\ seed > 0
                        THEN [NoOrder EXCEPT !.cost = seed, !.at = IF ended THEN "settling" ELSE "open"]
                        ELSE NoOrder]
         /\ nextId = IF seed > 0 THEN 2 ELSE 1
         /\ phase = [m \in Markets |-> IF m > 1 THEN "future" ELSE IF ended THEN "closed" ELSE "open"]
  BY Zenon DEF Init
<1>2. PICK ended \in BOOLEAN :
         /\ bankroll = IF ended THEN AddPending(n, "latency_arb", seed)
                       ELSE AddReserved(n, "latency_arb", seed)
         /\ orders = [i \in Ids |->
                        IF i = 1 /\ seed > 0
                        THEN [NoOrder EXCEPT !.cost = seed, !.at = IF ended THEN "settling" ELSE "open"]
                        ELSE NoOrder]
         /\ nextId = IF seed > 0 THEN 2 ELSE 1
         /\ phase = [m \in Markets |-> IF m > 1 THEN "future" ELSE IF ended THEN "closed" ELSE "open"]
  BY <1>1, Zenon
<1>3. seed \in Nat /\ seed <= Ceiling
  BY BankrollAssumption, DecisionAssumption
<1>4. config \in Configs /\ config.balance \in Int
  BY DecisionAssumption DEF Init
<1>5. Consistent(n) /\ Committed(n) = 0
  BY <1>4 DEF NewBankroll, Consistent, Bankrolls, AddUp, Committed, Families
<1>6. "latency_arb" \in Families
  BY DEF Families
<1>7. Sound(bankroll)
  <2>1. CASE ended
    <3>1. /\ Consistent(AddPending(n, "latency_arb", seed))
          /\ Committed(AddPending(n, "latency_arb", seed)) = 0 + seed
      BY <1>3, <1>5, <1>6, AddPendingFact
    <3>2. 0 + seed <= Ceiling
      BY <1>3
    <3> QED BY <1>2, <2>1, <3>1, <3>2, Zenon DEF Sound
  <2>2. CASE ~ended
    <3>1. /\ Consistent(AddReserved(n, "latency_arb", seed))
          /\ Committed(AddReserved(n, "latency_arb", seed)) = 0 + seed
      BY <1>3, <1>5, <1>6, AddReservedFact
    <3>2. 0 + seed <= Ceiling
      BY <1>3
    <3> QED BY <1>2, <2>2, <3>1, <3>2, Zenon DEF Sound
  <2> QED BY <2>1, <2>2
<1>8. orders \in [Ids -> Orders]
  <2>1. NoOrder \in Orders
    BY RemovedType
  <2>2. [NoOrder EXCEPT !.cost = seed, !.at = IF ended THEN "settling" ELSE "open"] \in Orders
    BY <1>3, <2>1 DEF Orders, NoOrder
  <2> QED BY <1>2, <2>1, <2>2
<1>9. nextId \in 1..(MaxOrders + 1)
  BY <1>2, <1>3, DecisionAssumption
<1>10. phase \in [Markets -> {"future", "open", "closed", "resolved"}]
  BY <1>2
<1>11. NoJob \in Messages
  BY NoJobType
<1>12. TypeOK
  <2>1. /\ wpc \in {"drain", "work", "take", "decide"}
        /\ job \in Messages /\ request \subseteq Markets
        /\ tried \subseteq Families /\ draft \subseteq Ids
        /\ outputDropped \in BOOLEAN /\ latest \subseteq Markets
        /\ dead \subseteq Ids /\ lost \in BOOLEAN
    BY <1>11, Zenon DEF Init
  <2>2. /\ mailbox \in Seq(Messages) /\ outputs \in Seq(SUBSET Ids) /\ toSend \in Seq(Messages)
        /\ submitted \in Seq(SUBSET Ids)
        /\ feedback \in Seq([answered : SUBSET Ids, released : SUBSET Ids])
    BY DEF Init
  <2>3. fillCost \in [Ids -> Nat]
    BY DEF Init
  <2> QED BY <1>4, <1>7, <1>8, <1>9, <1>10, <2>1, <2>2, <2>3, Zenon DEF TypeOK, Sound, Consistent
<1> QED BY <1>7, <1>12 DEF ReserveInv, BucketsAgree, CommittedWithinCeiling, Sound, Consistent

\* An iteration of the worker's loop keeps the types, if bankroll, orders and
\* dead keep theirs.
LEMMA IterationType ==
    ASSUME TypeOK, NEW i \in Ids, Done(i),
           bankroll' \in Bankrolls, orders' \in [Ids -> Orders], dead' \subseteq Ids
    PROVE  TypeOK'
<1>1. job' \in Messages
  <2>1. job \in Messages /\ job.ids \ {i} \subseteq Ids
    BY DEF TypeOK, Messages
  <2> QED BY <2>1 DEF Done, Messages
<1> QED BY <1>1 DEF TypeOK, Done, channels

\* Orders stay orders when one of them changes place, cost, or is forgotten.
LEMMA OrdersType ==
    ASSUME TypeOK, NEW i \in Ids, NEW cost \in Nat,
           NEW at \in {"none", "queued", "open", "settling", "removed"}
    PROVE  /\ [orders EXCEPT ![i].at = at] \in [Ids -> Orders]
           /\ [orders EXCEPT ![i].at = at, ![i].cost = cost] \in [Ids -> Orders]
           /\ [orders EXCEPT ![i] = [NoOrder EXCEPT !.at = "removed"]] \in [Ids -> Orders]
           /\ orders[i] \in Orders /\ orders[i].cost \in Nat
           /\ orders[i].strategy \in Families /\ orders[i].side \in Sides
<1>1. orders \in [Ids -> Orders]
  BY DEF TypeOK
<1>2. /\ orders[i] \in Orders /\ orders[i].cost \in Nat
      /\ orders[i].strategy \in Families /\ orders[i].side \in Sides
  BY <1>1 DEF Orders
<1>3. [orders[i] EXCEPT !.at = at] \in Orders /\ [orders[i] EXCEPT !.at = at, !.cost = cost] \in Orders
  BY <1>2 DEF Orders
<1>4. [orders EXCEPT ![i].at = at, ![i].cost = cost]
        = [orders EXCEPT ![i] = [orders[i] EXCEPT !.at = at, !.cost = cost]]
  BY <1>1, <1>2 DEF Orders
<1> QED BY <1>1, <1>2, <1>3, <1>4, RemovedType

\* The worker's calls of the engine.
LEMMA ReserveEngine ==
    ASSUME ReserveInv, NEW i \in Ids, EngineStep(i)
    PROVE  ReserveInv'
<1> DEFINE f == orders[i].strategy
           cost == orders[i].cost
<1>1. TypeOK /\ Sound(bankroll)
  BY SoundFact DEF ReserveInv
<1>2. /\ orders \in [Ids -> Orders] /\ dead \subseteq Ids
      /\ f \in Families /\ cost \in Nat /\ fillCost[i] \in Nat
  BY <1>1, OrdersType DEF TypeOK
<1>3. SUFFICES /\ Done(i) /\ Sound(bankroll')
               /\ orders' \in [Ids -> Orders] /\ dead' \subseteq Ids
  <2>1. bankroll' \in Bankrolls
    BY <1>3 DEF Sound, Consistent
  <2>2. TypeOK'
    BY <1>1, <1>3, <2>1, IterationType
  <2> QED BY <1>3, <2>2, SoundPrime
<1>4. ASSUME NEW new \in Nat, Fill(i, new)
      PROVE  Sound(bankroll') /\ orders' \in [Ids -> Orders]
  <2>1. Positive(cost - new) \in Nat
    BY <1>2, <1>4 DEF Positive
  <2>2. Sound(Release(bankroll, f, Positive(cost - new)))
    BY <1>1, <1>2, <2>1, SoundRelease
  <2>3. [orders EXCEPT ![i].at = "open", ![i].cost = new] \in [Ids -> Orders]
    BY <1>1, <1>4, OrdersType
  <2> QED BY <1>4, <2>2, <2>3, Zenon DEF Fill
<1>5. Sound(Release(bankroll, f, cost))
  BY <1>1, <1>2, SoundRelease
<1>6. Forget(i) => orders' \in [Ids -> Orders]
  BY <1>1, OrdersType DEF Forget
<1>7. Leave(i, "settling") \/ Leave(i, "removed") => orders' \in [Ids -> Orders]
  <2>1. /\ [orders EXCEPT ![i].at = "settling"] \in [Ids -> Orders]
        /\ [orders EXCEPT ![i].at = "removed"] \in [Ids -> Orders]
    BY <1>1, <1>2, OrdersType
  <2> QED BY <2>1, Zenon DEF Leave
<1>8. CASE WindowClosed(i)
  <2>1. Sound(ToPending(bankroll, f, cost))
    BY <1>1, <1>2, SoundToPending
  <2> QED BY <1>1, <1>2, <1>7, <1>8, <2>1, Zenon DEF WindowClosed
<1>9. CASE AuthoritativeResolution(i)
  <2> DEFINE payout == IF orders[i].side = job.outcome THEN 2 * orders[i].cost ELSE 0
  <2>1. payout \in Nat /\ Fee \in Nat
    BY <1>2, DecisionAssumption
  <2>2. Sound(ApplyTradeResult(bankroll, f, cost, payout, Fee))
    BY <1>1, <1>2, <2>1, SoundTradeResult
  <2> QED BY <1>1, <1>2, <1>6, <1>9, <2>2, Zenon DEF AuthoritativeResolution
<1>10. CASE ReleaseReservations(i)
  BY <1>1, <1>2, <1>5, <1>6, <1>10, Zenon DEF ReleaseReservations
<1>11. CASE ApplyFeedback(i)
  BY <1>1, <1>2, <1>4, <1>7, <1>11, Zenon DEF ApplyFeedback
<1>12. CASE ProcessDueOrder(i)
  <2>1. Done(i)
    BY <1>12 DEF ProcessDueOrder
  <2>2. CASE UNCHANGED << bankroll, orders, dead >>
    BY <1>1, <1>2, <2>1, <2>2
  <2>3. CASE /\ bankroll' = Release(bankroll, orders[i].strategy, orders[i].cost)
             /\ Forget(i) /\ dead' = dead \cup {i}
    BY <1>2, <1>5, <1>6, <2>1, <2>3
  <2>4. CASE (\E c \in 1..orders[i].cost : Fill(i, c)) /\ UNCHANGED dead
    <3>1. PICK c \in 1..orders[i].cost : Fill(i, c)
      BY <2>4
    <3>2. c \in Nat
      BY <1>2
    <3> QED BY <1>2, <1>4, <2>1, <2>4, <3>1, <3>2
  <2> QED BY <1>12, <2>2, <2>3, <2>4, Zenon DEF ProcessDueOrder
<1>13. CASE RollbackOutput(i)
  BY <1>2, <1>5, <1>6, <1>13, Zenon DEF RollbackOutput
<1> QED BY <1>8, <1>9, <1>10, <1>11, <1>12, <1>13 DEF EngineStep

\* The worker's own steps, and the strategies.
LEMMA ReserveWorker ==
    ASSUME ReserveInv,
           \/ ReceiveMessage \/ MailboxEmpty \/ TakeRequest \/ FinishJob \/ ForwardDecision
           \/ \E f \in Strategies : SubmitSingle(f) \/ SubmitSpread(f)
    PROVE  ReserveInv'
<1>1. TypeOK /\ Sound(bankroll)
  BY SoundFact DEF ReserveInv
<1>2. CASE ReceiveMessage
  <2>1. Head(mailbox) \in Messages /\ Tail(mailbox) \in Seq(Messages)
    BY <1>1, <1>2 DEF TypeOK, ReceiveMessage
  <2>2. job' \in Messages
    BY <1>2, <2>1 DEF ReceiveMessage, Messages
  <2>3. TypeOK'
    BY <1>1, <1>2, <2>1, <2>2 DEF TypeOK, ReceiveMessage, engine, world
  <2> QED BY <1>1, <1>2, <2>3, SoundPrime DEF ReceiveMessage, engine
<1>3. CASE MailboxEmpty
  <2>1. TypeOK'
    BY <1>1, <1>3 DEF TypeOK, MailboxEmpty, engine, channels, world
  <2> QED BY <1>1, <1>3, <2>1, SoundPrime DEF MailboxEmpty, engine
<1>4. CASE TakeRequest
  <2>1. {i \in Ids : Queued(i)} \in SUBSET Ids
    OBVIOUS
  <2>3. Message("due", {i \in Ids : Queued(i)}, FALSE) \in Messages
    BY <2>1, MessageType
  <2>4. job' \in Messages /\ wpc' \in {"drain", "work", "take", "decide"}
    BY <1>1, <1>4, <2>3, Zenon DEF TypeOK, TakeRequest
  <2>5. TypeOK'
    BY <1>1, <1>4, <2>4 DEF TypeOK, TakeRequest, engine, world
  <2> QED BY <1>1, <1>4, <2>5, SoundPrime DEF TakeRequest, engine
<1>5. CASE FinishJob
  <2>1. NoJob \in Messages
    BY NoJobType
  <2>2. wpc' \in {"drain", "work", "take", "decide"} /\ outputDropped' \in BOOLEAN
    BY <1>1, <1>5 DEF TypeOK, FinishJob
  <2>3. TypeOK'
    BY <1>1, <1>5, <2>1, <2>2 DEF TypeOK, FinishJob, engine, channels, world
  <2> QED BY <1>1, <1>5, <2>3, SoundPrime DEF FinishJob, engine
<1>6. CASE ForwardDecision
  <2> DEFINE live == IF config.live THEN draft ELSE {}
  <2>1. live \in SUBSET Ids
    BY <1>1 DEF TypeOK
  <2>2. Message("undo", live, FALSE) \in Messages
    BY <2>1, MessageType
  <2>3. Append(outputs, live) \in Seq(SUBSET Ids)
    BY <1>1, <2>1 DEF TypeOK
  <2>4. /\ outputs' \in Seq(SUBSET Ids) /\ wpc' \in {"drain", "work", "take", "decide"}
        /\ job' \in Messages /\ outputDropped' \in BOOLEAN /\ dead' \subseteq Ids
    <3>1. CASE /\ outputs' = IF live = {} THEN outputs ELSE Append(outputs, live)
               /\ wpc' = "drain"
               /\ UNCHANGED << job, outputDropped, dead >>
      BY <1>1, <2>3, <3>1 DEF TypeOK
    <3>2. CASE /\ job' = Message("undo", live, FALSE)
               /\ wpc' = "work"
               /\ outputDropped' = TRUE
               /\ dead' = dead \cup live
               /\ UNCHANGED outputs
      BY <1>1, <2>1, <2>2, <3>2 DEF TypeOK
    <3> QED BY <1>6, <3>1, <3>2, Zenon DEF ForwardDecision
  <2>5. TypeOK'
    BY <1>1, <1>6, <2>4 DEF TypeOK, ForwardDecision, engine
  <2> QED BY <1>1, <1>6, <2>5, SoundPrime DEF ForwardDecision, engine
<1>7. ASSUME NEW f \in Strategies, SubmitSingle(f)
      PROVE  ReserveInv'
  <2>1. PICK m \in request, side \in Directions, cost \in SingleCosts :
             /\ Affordable(bankroll, f, cost, config)
             /\ bankroll' = AddReserved(bankroll, f, cost)
             /\ orders' = [orders EXCEPT ![nextId] = Order(f, m, side, cost)]
    BY <1>7, Zenon DEF SubmitSingle
  <2>2. f \in Families /\ cost \in Nat /\ side \in Sides /\ m \in Markets
    BY <1>1, DecisionAssumption DEF TypeOK, Sides
  <2>3. Sound(bankroll')
    BY <1>1, <2>1, <2>2, SoundReserve
  <2>4. Order(f, m, side, cost) \in Orders
    BY <2>2 DEF Order, Orders
  <2>5. nextId \in Ids /\ nextId + 1 \in 1..(MaxOrders + 1)
    BY <1>1, <1>7, DecisionAssumption DEF TypeOK, SubmitSingle, Ids
  <2>6. orders' \in [Ids -> Orders]
    BY <1>1, <2>1, <2>4 DEF TypeOK
  <2>7. nextId' \in 1..(MaxOrders + 1) /\ draft' \subseteq Ids /\ tried' \subseteq Families
    BY <1>1, <1>7, <2>2, <2>5, DecisionAssumption DEF TypeOK, SubmitSingle, Decided, Ids
  <2>8. TypeOK'
    BY <1>1, <1>7, <2>3, <2>6, <2>7
    DEF TypeOK, SubmitSingle, Decided, Sound, Consistent, channels, world
  <2> QED BY <2>3, <2>8, SoundPrime
<1>8. ASSUME NEW f \in Strategies, SubmitSpread(f)
      PROVE  ReserveInv'
  <2>1. PICK m \in request : \E up, down \in 1..MaxPosition :
             /\ Affordable(bankroll, f, up + down, config)
             /\ bankroll' = AddReserved(bankroll, f, up + down)
             /\ orders' = [orders EXCEPT ![nextId] = Order(f, m, "up", up),
                                         ![nextId + 1] = Order(f, m, "down", down)]
    BY <1>8, Zenon DEF SubmitSpread
  <2>2. PICK up \in 1..MaxPosition, down \in 1..MaxPosition :
             /\ Affordable(bankroll, f, up + down, config)
             /\ bankroll' = AddReserved(bankroll, f, up + down)
             /\ orders' = [orders EXCEPT ![nextId] = Order(f, m, "up", up),
                                         ![nextId + 1] = Order(f, m, "down", down)]
    BY <2>1
  <2>3. /\ f \in Families /\ m \in Markets /\ "up" \in Sides /\ "down" \in Sides
        /\ up \in Nat /\ down \in Nat /\ up + down \in Nat
    BY <1>1, BankrollAssumption, DecisionAssumption DEF TypeOK, Sides
  <2>4. Sound(bankroll')
    BY <1>1, <2>2, <2>3, SoundReserve
  <2>5. Order(f, m, "up", up) \in Orders /\ Order(f, m, "down", down) \in Orders
    BY <2>3 DEF Order, Orders
  <2>6. nextId \in Ids /\ nextId + 1 \in Ids /\ nextId + 2 \in 1..(MaxOrders + 1)
    BY <1>1, <1>8, DecisionAssumption DEF TypeOK, SubmitSpread, Ids
  <2>7. orders' \in [Ids -> Orders]
    BY <1>1, <2>2, <2>5 DEF TypeOK
  <2>8. nextId' \in 1..(MaxOrders + 1) /\ draft' \subseteq Ids /\ tried' \subseteq Families
    <3>1. /\ nextId' = nextId + 2 /\ tried' = tried \cup {f}
          /\ draft' = draft \cup nextId..(nextId + 2 - 1)
      BY <1>8 DEF SubmitSpread, Decided
    <3>2. nextId..(nextId + 2 - 1) \subseteq Ids
      BY <1>1, <2>6, DecisionAssumption DEF TypeOK, Ids
    <3> QED BY <1>1, <2>3, <2>6, <3>1, <3>2 DEF TypeOK
  <2>9. TypeOK'
    BY <1>1, <1>8, <2>4, <2>7, <2>8
    DEF TypeOK, SubmitSpread, Decided, Sound, Consistent, channels, world
  <2> QED BY <2>4, <2>9, SoundPrime
<1> QED BY <1>2, <1>3, <1>4, <1>5, <1>6, <1>7, <1>8

\* The main loop and the submission worker.
LEMMA ReserveMain ==
    ASSUME ReserveInv,
           \/ \E m \in Markets : \/ ActivateWindow(m) \/ CloseWindow(m) \/ TryEvaluate(m)
                                 \/ \E outcome \in Sides : ResolutionResult(m, outcome)
           \/ HandleOutput \/ HandleFeedback \/ TrySend \/ SubmissionAnswers
    PROVE  ReserveInv'
<1>1. TypeOK /\ Sound(bankroll)
  BY SoundFact DEF ReserveInv
<1>2. ASSUME NEW m \in Markets, ActivateWindow(m) PROVE ReserveInv'
  <2>1. TypeOK'
    BY <1>1, <1>2 DEF TypeOK, ActivateWindow, engine, worker, channels
  <2> QED BY <1>1, <1>2, <2>1, SoundPrime DEF ActivateWindow, engine
<1>3. ASSUME NEW m \in Markets, CloseWindow(m) PROVE ReserveInv'
  <2>1. << MarketMessage("closed", m, "up") >> \in Seq(Messages)
    BY MarketMessageType, NoJobType
  <2>2. mailbox' \in Seq(Messages) /\ toSend' \in Seq(Messages) /\ lost' \in BOOLEAN
    BY <1>1, <1>3, <2>1, PostType DEF CloseWindow
  <2>3. TypeOK'
    BY <1>1, <1>3, <2>2 DEF TypeOK, CloseWindow, engine, worker
  <2> QED BY <1>1, <1>3, <2>3, SoundPrime DEF CloseWindow, engine
<1>4. ASSUME NEW m \in Markets, NEW outcome \in Sides, ResolutionResult(m, outcome) PROVE ReserveInv'
  <2>1. << MarketMessage("resolved", m, outcome) >> \in Seq(Messages)
    BY MarketMessageType
  <2>2. mailbox' \in Seq(Messages) /\ toSend' \in Seq(Messages) /\ lost' \in BOOLEAN
    BY <1>1, <1>4, <2>1, PostType DEF ResolutionResult
  <2>3. TypeOK'
    BY <1>1, <1>4, <2>2 DEF TypeOK, ResolutionResult, engine, worker
  <2> QED BY <1>1, <1>4, <2>3, SoundPrime DEF ResolutionResult, engine
<1>5. ASSUME NEW m \in Markets, TryEvaluate(m) PROVE ReserveInv'
  <2>1. TypeOK'
    BY <1>1, <1>5 DEF TypeOK, TryEvaluate, engine, worker, world
  <2> QED BY <1>1, <1>5, <2>1, SoundPrime DEF TryEvaluate, engine
<1>6. CASE HandleOutput
  <2> DEFINE ids == Head(outputs)
  <2>1. ids \in SUBSET Ids /\ Tail(outputs) \in Seq(SUBSET Ids)
    BY <1>1, <1>6 DEF TypeOK, HandleOutput
  <2>2. Message("feedback", ids, FALSE) \in Messages /\ Message("release", ids, FALSE) \in Messages
    BY <2>1, MessageType
  <2>3. << Message("feedback", ids, FALSE), Message("release", ids, FALSE) >> \in Seq(Messages)
    BY <2>2, ShortSeq
  <2>4. Append(submitted, ids) \in Seq(SUBSET Ids)
    BY <1>1, <2>1 DEF TypeOK
  <2>5. /\ mailbox' \in Seq(Messages) /\ toSend' \in Seq(Messages) /\ lost' \in BOOLEAN
        /\ submitted' \in Seq(SUBSET Ids) /\ dead' \subseteq Ids
    <3>1. CASE submitted' = Append(submitted, ids) /\ UNCHANGED << mailbox, toSend, lost, dead >>
      BY <1>1, <2>4, <3>1 DEF TypeOK
    <3>2. CASE /\ Post(<< Message("feedback", ids, FALSE), Message("release", ids, FALSE) >>)
               /\ dead' = dead \cup ids
               /\ UNCHANGED submitted
      <4>1. mailbox' \in Seq(Messages) /\ toSend' \in Seq(Messages) /\ lost' \in BOOLEAN
        BY <1>1, <2>3, <3>2, PostType
      <4> QED BY <1>1, <2>1, <3>2, <4>1 DEF TypeOK
    <3> QED BY <1>6, <3>1, <3>2, Zenon DEF HandleOutput
  <2>6. TypeOK'
    BY <1>1, <1>6, <2>1, <2>5 DEF TypeOK, HandleOutput, engine, worker
  <2> QED BY <1>1, <1>6, <2>6, SoundPrime DEF HandleOutput, engine
<1>7. CASE HandleFeedback
  <2> DEFINE f == Head(feedback)
             first == IF f.answered = {} THEN << >> ELSE << Message("feedback", f.answered, TRUE) >>
             second == IF f.released = {} THEN << >> ELSE << Message("release", f.released, TRUE) >>
             F == [answered : SUBSET Ids, released : SUBSET Ids]
  <2>1. f \in F /\ Tail(feedback) \in Seq(F)
    BY <1>1, <1>7, HeadTail, Zenon DEF TypeOK, HandleFeedback
  <2>2. f.answered \in SUBSET Ids /\ f.released \in SUBSET Ids
    BY <2>1
  <2>3. /\ Message("feedback", f.answered, TRUE) \in Messages
        /\ Message("release", f.released, TRUE) \in Messages
    BY <2>2, MessageType
  <2>4. first \in Seq(Messages) /\ second \in Seq(Messages)
    BY <2>3, ShortSeq, Zenon
  <2>5. first \o second \in Seq(Messages)
    BY <2>4, ConcatSeq, Zenon
  <2>6. Post(first \o second)
    BY <1>7, Zenon DEF HandleFeedback
  <2>7. mailbox' \in Seq(Messages) /\ toSend' \in Seq(Messages) /\ lost' \in BOOLEAN
    BY <1>1, <2>5, <2>6, PostType
  <2>8. TypeOK'
    BY <1>1, <1>7, <2>1, <2>7 DEF TypeOK, HandleFeedback, engine, worker
  <2> QED BY <1>1, <1>7, <2>8, SoundPrime DEF HandleFeedback, engine
<1>8. CASE TrySend
  <2>1. mailbox' \in Seq(Messages) /\ toSend' \in Seq(Messages) /\ lost' \in BOOLEAN
    BY <1>1, <1>8, PostType DEF TrySend, TypeOK
  <2>2. TypeOK'
    BY <1>1, <1>8, <2>1 DEF TypeOK, TrySend, engine, worker
  <2> QED BY <1>1, <1>8, <2>2, SoundPrime DEF TrySend, engine
<1>9. CASE SubmissionAnswers
  <2> DEFINE ids == Head(submitted)
             F == [answered : SUBSET Ids, released : SUBSET Ids]
  <2>1. ids \in SUBSET Ids /\ Tail(submitted) \in Seq(SUBSET Ids)
    BY <1>1, <1>9 DEF TypeOK, SubmissionAnswers
  <2>2. PICK filled \in SUBSET ids : \E doubt \in SUBSET (ids \ filled) :
             /\ \E cost \in [filled -> 1..(2 * MaxPosition)] :
                  fillCost' = [i \in Ids |-> IF i \in filled THEN cost[i] ELSE fillCost[i]]
             /\ LET rejected == ids \ (filled \cup doubt)
                IN /\ feedback' = Append(feedback, [answered |-> filled \cup rejected,
                                                    released |-> rejected])
                   /\ dead' = dead \cup rejected
    BY <1>9, Zenon DEF SubmissionAnswers
  <2>3. PICK doubt \in SUBSET (ids \ filled) :
             /\ \E cost \in [filled -> 1..(2 * MaxPosition)] :
                  fillCost' = [i \in Ids |-> IF i \in filled THEN cost[i] ELSE fillCost[i]]
             /\ feedback' = Append(feedback, [answered |-> filled \cup (ids \ (filled \cup doubt)),
                                              released |-> ids \ (filled \cup doubt)])
             /\ dead' = dead \cup (ids \ (filled \cup doubt))
    BY <2>2, Zenon
  <2>4. fillCost' \in [Ids -> Nat]
    BY <1>1, <2>3, BankrollAssumption DEF TypeOK
  <2>5. [answered |-> filled \cup (ids \ (filled \cup doubt)), released |-> ids \ (filled \cup doubt)] \in F
    BY <2>1
  <2>6. feedback' \in Seq(F) /\ dead' \subseteq Ids
    BY <1>1, <2>1, <2>3, <2>5 DEF TypeOK
  <2>7. TypeOK'
    BY <1>1, <1>9, <2>1, <2>4, <2>6 DEF TypeOK, SubmissionAnswers, engine, worker
  <2> QED BY <1>1, <1>9, <2>7, SoundPrime DEF SubmissionAnswers, engine
<1> QED BY <1>2, <1>3, <1>4, <1>5, <1>6, <1>7, <1>8, <1>9

\* ReserveInv is inductive.
LEMMA ReserveNext == ReserveInv /\ [Next]_vars => ReserveInv'
<1> SUFFICES ASSUME ReserveInv, [Next]_vars PROVE ReserveInv'
  OBVIOUS
<1>1. CASE \E i \in Ids : EngineStep(i)
  BY <1>1, ReserveEngine
<1>2. CASE \/ ReceiveMessage \/ MailboxEmpty \/ TakeRequest \/ FinishJob \/ ForwardDecision
           \/ \E f \in Strategies : SubmitSingle(f) \/ SubmitSpread(f)
  BY <1>2, ReserveWorker
<1>3. CASE \/ \E m \in Markets : \/ ActivateWindow(m) \/ CloseWindow(m) \/ TryEvaluate(m)
                                 \/ \E outcome \in Sides : ResolutionResult(m, outcome)
           \/ HandleOutput \/ HandleFeedback \/ TrySend \/ SubmissionAnswers
  BY <1>3, ReserveMain
<1>4. CASE UNCHANGED vars
  BY <1>4 DEF ReserveInv, TypeOK, BucketsAgree, CommittedWithinCeiling,
              vars, engine, worker, channels, world
<1> QED BY <1>1, <1>2, <1>3, <1>4, Zenon DEF Next

LEMMA ReserveInvariant == Spec => []ReserveInv
  BY ReserveInit, ReserveNext, PTL DEF Spec

\* Every variable keeps its type, whatever the order of messages and calls: no
\* bucket of the bankroll (bankroll.rs) ever goes below zero.
THEOREM DecisionTypes == Spec => []TypeOK
<1>1. ReserveInv => TypeOK
  BY DEF ReserveInv
<1> QED BY <1>1, ReserveInvariant, PTL

\* The totals of the bankroll remain the sums of its family buckets, although
\* each is clamped on its own (consume_family_active_reserve and its kin).
THEOREM BucketsStayInStep == Spec => []BucketsAgree
<1>1. ReserveInv => BucketsAgree
  BY DEF ReserveInv
<1> QED BY <1>1, ReserveInvariant, PTL

\* open_exposure_headroom: the reserve never exceeds the ceiling, whatever is
\* settled, filled, lost or rolled back in between.
THEOREM ReserveCeiling == Spec => []CommittedWithinCeiling
<1>1. ReserveInv => CommittedWithinCeiling
  BY DEF ReserveInv
<1> QED BY <1>1, ReserveInvariant, PTL

-----------------------------------------------------------------------------
(* No double exposure.                                                       *)

\* A message tells the truth about the orders it names: feedback is about
\* orders that filled or are dead, only the reserve of dead orders is returned.
Truthful(msg, paid, gone) ==
    /\ msg.kind = "feedback" => \A i \in msg.ids : paid[i] > 0 \/ i \in gone
    /\ msg.kind \in {"release", "undo"} => msg.ids \subseteq gone

\* ... and only the worker itself undoes an output.
AllTruthful(s, paid, gone) ==
    \A k \in DOMAIN s : Truthful(s[k], paid, gone) /\ s[k].kind # "undo"

\* The inductive strengthening: what the worker was told to forget is dead, so
\* that every exposed order is one that can_queue_single and can_queue_spread see.
ForgottenAreDead ==
    /\ \A i \in Ids : orders[i].at = "none" => orders[i].cost = 0
    /\ \A i \in Ids : orders[i].at = "removed" => i \in dead
    /\ AllTruthful(mailbox, fillCost, dead) /\ AllTruthful(toSend, fillCost, dead)
    /\ Truthful(job, fillCost, dead)
    /\ \A k \in DOMAIN feedback :
         /\ \A i \in feedback[k].answered : fillCost[i] > 0 \/ i \in dead
         /\ feedback[k].released \subseteq dead

ExposureInv == TypeOK /\ ForgottenAreDead /\ NoDoubleExposure

\* Messages stay truthful as orders fill and die.
LEMMA TruthfulStays ==
    ASSUME NEW msg \in Messages, NEW p1, NEW p2, NEW g1, NEW g2,
           g1 \subseteq g2, \A i \in Ids : p1[i] > 0 => p2[i] > 0,
           Truthful(msg, p1, g1)
    PROVE  Truthful(msg, p2, g2)
<1>1. msg.ids \subseteq Ids
  BY DEF Messages
<1> QED BY <1>1 DEF Truthful

LEMMA AllTruthfulStays ==
    ASSUME NEW s \in Seq(Messages), NEW p1, NEW p2, NEW g1, NEW g2,
           g1 \subseteq g2, \A i \in Ids : p1[i] > 0 => p2[i] > 0,
           AllTruthful(s, p1, g1)
    PROVE  AllTruthful(s, p2, g2)
<1> SUFFICES ASSUME NEW k \in DOMAIN s PROVE Truthful(s[k], p2, g2) /\ s[k].kind # "undo"
  BY DEF AllTruthful
<1>1. s[k] \in Messages /\ Truthful(s[k], p1, g1) /\ s[k].kind # "undo"
  BY DEF AllTruthful
<1> QED BY <1>1, TruthfulStays

\* Post moves truthful messages only.
LEMMA PostTruthful ==
    ASSUME TypeOK, NEW messages \in Seq(Messages), Post(messages), NEW paid, NEW gone,
           AllTruthful(messages, paid, gone), AllTruthful(mailbox, paid, gone),
           AllTruthful(toSend, paid, gone)
    PROVE  AllTruthful(mailbox', paid, gone) /\ AllTruthful(toSend', paid, gone)
<1>1. mailbox \in Seq(Messages) /\ toSend \in Seq(Messages)
  BY DEF TypeOK
<1>2. CASE messages = << >>
  BY <1>2 DEF Post
<1>3. CASE messages # << >>
  <2>1. AllTruthful(Tail(messages), paid, gone)
    BY <1>3 DEF AllTruthful
  <2>2. AllTruthful(Append(mailbox, Head(messages)), paid, gone)
    <3>1. Truthful(Head(messages), paid, gone) /\ Head(messages).kind # "undo"
      BY <1>3 DEF AllTruthful
    <3> QED BY <1>1, <3>1 DEF AllTruthful
  <2>3. AllTruthful(<< >>, paid, gone)
    BY DEF AllTruthful
  <2> QED BY <1>3, <2>1, <2>2, <2>3, Zenon DEF Post
<1> QED BY <1>2, <1>3

\* A step that exposes nothing new keeps NoDoubleExposure.
LEMMA NothingNew ==
    ASSUME NoDoubleExposure,
           \A i \in Ids : orders'[i].at # "none" /\ i \notin dead' =>
              /\ orders[i].at # "none" /\ i \notin dead
              /\ orders'[i].market = orders[i].market
              /\ orders'[i].strategy = orders[i].strategy
              /\ orders'[i].side = orders[i].side
    PROVE  NoDoubleExposure'
  BY DEF NoDoubleExposure, Exposed

LEMMA ExposureInit == Init => ExposureInv
<1> SUFFICES ASSUME Init PROVE ExposureInv
  OBVIOUS
<1>1. TypeOK
  BY ReserveInit DEF ReserveInv
<1> DEFINE Seeded(seed, ended) == orders = [i \in Ids |->
                        IF i = 1 /\ seed > 0
                        THEN [NoOrder EXCEPT !.cost = seed, !.at = IF ended THEN "settling" ELSE "open"]
                        ELSE NoOrder]
<1>2. PICK seed \in IF config.live THEN {0} ELSE SeedCosts :
        \E ended \in IF seed = 0 THEN {FALSE} ELSE BOOLEAN : Seeded(seed, ended)
  BY Zenon DEF Init
<1>3. PICK ended \in IF seed = 0 THEN {FALSE} ELSE BOOLEAN : Seeded(seed, ended)
  BY <1>2, Zenon
<1>6. \A i \in Ids : /\ orders[i].at # "removed"
                     /\ orders[i].at # "none" => i = 1
                     /\ orders[i].at = "none" => orders[i].cost = 0
  BY <1>3 DEF NoOrder
<1>4. NoDoubleExposure
  BY <1>6 DEF NoDoubleExposure, Exposed
<1>5. ForgottenAreDead
  BY <1>6 DEF Init, ForgottenAreDead, AllTruthful, Truthful, NoJob
<1> QED BY <1>1, <1>4, <1>5 DEF ExposureInv

\* An iteration of the worker's loop: what it forgets is dead, the rest it keeps.
LEMMA ExposureEngine ==
    ASSUME ExposureInv, TypeOK', NEW i \in Ids, EngineStep(i)
    PROVE  ExposureInv'
<1>1. TypeOK /\ ForgottenAreDead /\ NoDoubleExposure
  BY DEF ExposureInv
<1>2. /\ orders \in [Ids -> Orders] /\ job \in Messages /\ mailbox \in Seq(Messages)
      /\ toSend \in Seq(Messages)
  BY <1>1 DEF TypeOK
<1>3. Done(i)
  BY DEF EngineStep, WindowClosed, AuthoritativeResolution, ReleaseReservations, ApplyFeedback,
         ProcessDueOrder, RollbackOutput
<1>4. /\ dead \subseteq dead' /\ fillCost' = fillCost
      /\ \A j \in Ids : j # i => orders'[j] = orders[j]
      /\ orders'[i].at # "none" \/ orders'[i] = orders[i]
      /\ \/ i \in dead'
         \/ /\ orders[i].at # "none"
            /\ orders'[i].market = orders[i].market /\ orders'[i].strategy = orders[i].strategy
            /\ orders'[i].side = orders[i].side /\ orders'[i].at # "removed"
         \/ orders'[i] = orders[i]
  <2>1. orders[i] \in Orders
    BY <1>2
  <2>2. ASSUME NEW at, Leave(i, at)
        PROVE  /\ \A j \in Ids : j # i => orders'[j] = orders[j]
               /\ orders'[i] = [orders[i] EXCEPT !.at = at]
               /\ orders'[i].at = at
    BY <1>2, <2>1, <2>2 DEF Leave, Orders
  <2>3. ASSUME NEW cost, Fill(i, cost)
        PROVE  /\ \A j \in Ids : j # i => orders'[j] = orders[j]
               /\ orders'[i].market = orders[i].market /\ orders'[i].strategy = orders[i].strategy
               /\ orders'[i].side = orders[i].side /\ orders'[i].at = "open"
    BY <1>2, <2>1, <2>3 DEF Fill, Orders
  <2>4. Forget(i) => /\ \A j \in Ids : j # i => orders'[j] = orders[j]
                     /\ orders'[i].at = "removed"
    BY <1>2 DEF Forget, NoOrder
  <2>5. fillCost' = fillCost
    BY <1>3 DEF Done
  <2>6. CASE WindowClosed(i)
    <3>1. dead' = dead
      BY <2>6 DEF WindowClosed
    <3>2. CASE orders[i].at = "open"
      <4>1. Leave(i, "settling")
        BY <2>6, <3>2 DEF WindowClosed
      <4>2. /\ \A j \in Ids : j # i => orders'[j] = orders[j]
            /\ orders'[i] = [orders[i] EXCEPT !.at = "settling"]
        BY <2>2, <4>1
      <4>3. /\ orders'[i].market = orders[i].market /\ orders'[i].strategy = orders[i].strategy
            /\ orders'[i].side = orders[i].side /\ orders'[i].at = "settling"
        BY <2>1, <4>2 DEF Orders
      <4> QED BY <2>5, <3>1, <3>2, <4>2, <4>3
    <3>3. CASE orders[i].at # "open"
      BY <2>5, <2>6, <3>1, <3>3 DEF WindowClosed
    <3> QED BY <3>2, <3>3
  <2>7. CASE AuthoritativeResolution(i)
    BY <2>4, <2>5, <2>7 DEF AuthoritativeResolution
  <2>8. CASE ReleaseReservations(i)
    <3>1. i \in dead /\ dead' = dead
      BY <1>1, <2>8 DEF ReleaseReservations, Handles, ForgottenAreDead, Truthful
    <3> QED BY <2>4, <2>5, <2>8, <3>1 DEF ReleaseReservations
  <2>9. CASE ApplyFeedback(i)
    <3>1. dead' = dead
      BY <2>9 DEF ApplyFeedback
    <3>2. CASE ~Queued(i)
      BY <2>5, <2>9, <3>1, <3>2 DEF ApplyFeedback
    <3>3. CASE Queued(i) /\ fillCost[i] > 0
      <4>1. Fill(i, fillCost[i])
        BY <2>9, <3>3 DEF ApplyFeedback
      <4> QED BY <2>3, <2>5, <3>1, <3>3, <4>1 DEF Queued
    <3>4. CASE Queued(i) /\ ~(fillCost[i] > 0)
      <4>1. i \in dead
        BY <1>1, <2>9, <3>4 DEF ApplyFeedback, Handles, ForgottenAreDead, Truthful
      <4>2. Leave(i, "removed")
        BY <2>9, <3>4 DEF ApplyFeedback
      <4>3. /\ \A j \in Ids : j # i => orders'[j] = orders[j]
            /\ orders'[i].at = "removed"
        BY <2>2, <4>2
      <4> QED BY <2>5, <3>1, <4>1, <4>3
    <3> QED BY <3>2, <3>3, <3>4
  <2>10. CASE ProcessDueOrder(i)
    <3>1. CASE UNCHANGED << bankroll, orders, dead >>
      BY <2>5, <3>1
    <3>2. CASE Forget(i) /\ dead' = dead \cup {i}
      BY <2>4, <2>5, <3>2
    <3>3. CASE \E cost \in 1..orders[i].cost : Fill(i, cost) /\ dead' = dead
      <4>1. orders[i].at # "none"
        BY <1>1, <3>3 DEF ForgottenAreDead
      <4> QED BY <2>3, <2>5, <3>3, <4>1
    <3> QED BY <2>10, <3>1, <3>2, <3>3, Zenon DEF ProcessDueOrder
  <2>11. CASE RollbackOutput(i)
    <3>1. i \in dead /\ dead' = dead
      BY <1>1, <2>11 DEF RollbackOutput, Handles, ForgottenAreDead, Truthful
    <3> QED BY <2>4, <2>5, <2>11, <3>1 DEF RollbackOutput
  <2> QED BY <2>6, <2>7, <2>8, <2>9, <2>10, <2>11 DEF EngineStep
<1>5. NoDoubleExposure'
  BY <1>1, <1>4, NothingNew
<1>6. \A j \in Ids : /\ orders'[j].at = "none" => orders'[j].cost = 0
                     /\ orders'[j].at = "removed" => j \in dead'
  BY <1>1, <1>4 DEF ForgottenAreDead
<1>7. Truthful(job', fillCost, dead)
  BY <1>1, <1>2, <1>3 DEF Done, ForgottenAreDead, Truthful, Messages
<1>8. mailbox' = mailbox /\ toSend' = toSend /\ feedback' = feedback
  BY <1>3 DEF Done, channels
<1>9. AllTruthful(mailbox', fillCost', dead') /\ AllTruthful(toSend', fillCost', dead')
  BY <1>1, <1>2, <1>4, <1>8, AllTruthfulStays DEF ForgottenAreDead
<1>10. Truthful(job', fillCost', dead')
  BY <1>4, <1>7, TruthfulStays DEF TypeOK
<1>11. \A k \in DOMAIN feedback' :
         /\ \A j \in feedback'[k].answered : fillCost'[j] > 0 \/ j \in dead'
         /\ feedback'[k].released \subseteq dead'
  BY <1>1, <1>4, <1>8 DEF ForgottenAreDead
<1> QED BY <1>5, <1>6, <1>9, <1>10, <1>11 DEF ExposureInv, ForgottenAreDead

\* The worker's own steps: an undone output's orders are dead.
LEMMA ExposureWorker ==
    ASSUME ExposureInv, TypeOK',
           ReceiveMessage \/ MailboxEmpty \/ TakeRequest \/ FinishJob \/ ForwardDecision
    PROVE  ExposureInv'
<1>1. TypeOK /\ ForgottenAreDead /\ NoDoubleExposure
  BY DEF ExposureInv
<1>2. /\ job \in Messages /\ mailbox \in Seq(Messages) /\ toSend \in Seq(Messages)
  BY <1>1 DEF TypeOK
<1>3. /\ orders' = orders /\ fillCost' = fillCost /\ dead \subseteq dead'
      /\ toSend' = toSend /\ feedback' = feedback
  BY DEF ReceiveMessage, MailboxEmpty, TakeRequest, FinishJob, ForwardDecision,
         engine, channels, world
<1>4. Truthful(job', fillCost', dead') /\ AllTruthful(mailbox', fillCost', dead')
  <2>1. Truthful(NoJob, fillCost', dead')
    BY DEF Truthful, NoJob
  <2>2. AllTruthful(mailbox, fillCost', dead') /\ Truthful(job, fillCost', dead')
    BY <1>1, <1>2, <1>3, TruthfulStays, AllTruthfulStays DEF ForgottenAreDead
  <2>3. CASE ReceiveMessage
    <3>1. /\ Truthful(Head(mailbox), fillCost', dead') /\ Head(mailbox) \in Messages
          /\ Head(mailbox).kind # "undo"
          /\ AllTruthful(Tail(mailbox), fillCost', dead')
      BY <1>2, <2>2, <2>3 DEF ReceiveMessage, AllTruthful
    <3>2. Truthful(job', fillCost', dead')
      BY <2>3, <3>1 DEF ReceiveMessage, Truthful, Messages
    <3> QED BY <2>3, <3>1, <3>2 DEF ReceiveMessage
  <2>4. CASE MailboxEmpty
    BY <2>2, <2>4 DEF MailboxEmpty, channels
  <2>5. CASE TakeRequest
    <3>1. Truthful(Message("due", {i \in Ids : Queued(i)}, FALSE), fillCost', dead')
      BY DEF Truthful, Message, NoJob
    <3> QED BY <2>2, <2>5, <3>1, Zenon DEF TakeRequest
  <2>6. CASE FinishJob
    BY <2>1, <2>2, <2>6 DEF FinishJob, channels
  <2>7. CASE ForwardDecision
    <3> DEFINE live == IF config.live THEN draft ELSE {}
    <3>1. CASE UNCHANGED job
      BY <2>2, <2>7, <3>1 DEF ForwardDecision
    <3>2. CASE job' = Message("undo", live, FALSE) /\ dead' = dead \cup live
      <4>1. Truthful(job', fillCost', dead')
        BY <3>2 DEF Truthful, Message, NoJob
      <4> QED BY <2>2, <2>7, <4>1 DEF ForwardDecision
    <3> QED BY <2>7, <3>1, <3>2 DEF ForwardDecision
  <2> QED BY <2>3, <2>4, <2>5, <2>6, <2>7
<1>5. AllTruthful(toSend', fillCost', dead')
  BY <1>1, <1>2, <1>3, AllTruthfulStays DEF ForgottenAreDead
<1>6. NoDoubleExposure'
  BY <1>1, <1>3, NothingNew
<1> QED BY <1>1, <1>3, <1>4, <1>5, <1>6 DEF ExposureInv, ForgottenAreDead

\* The strategies: a new order meets no exposed order of its market and strategy.
LEMMA ExposureSubmit ==
    ASSUME ExposureInv, TypeOK', NEW f \in Strategies, SubmitSingle(f) \/ SubmitSpread(f)
    PROVE  ExposureInv'
<1>1. TypeOK /\ ForgottenAreDead /\ NoDoubleExposure
  BY DEF ExposureInv
<1>2. /\ dead' = dead /\ fillCost' = fillCost /\ mailbox' = mailbox /\ toSend' = toSend
      /\ job' = job /\ feedback' = feedback
  BY DEF SubmitSingle, SubmitSpread, Decided, channels, world
<1>3. orders \in [Ids -> Orders] /\ MaxPosition \in Nat
  BY <1>1, BankrollAssumption DEF TypeOK
<1>4. ASSUME NEW m \in request, NEW i \in Exposed,
             orders[i].market = m, orders[i].strategy = f
      PROVE  FALSE
  <2>1. i \in Ids /\ orders[i] \in Orders /\ orders[i].at # "none" /\ i \notin dead
    BY <1>3 DEF Exposed
  <2>2. orders[i].at \in {"queued", "open", "settling"} /\ orders[i].side \in Sides
    BY <1>1, <2>1 DEF ForgottenAreDead, Orders
  <2>3. ~Duplicate(f, Sides)
    BY DEF SubmitSingle, SubmitSpread
  <2> QED BY <1>4, <2>1, <2>2, <2>3 DEF Duplicate, Open, Queued
<1>5. CASE SubmitSingle(f)
  <2>1. PICK m \in request, side \in Directions, cost \in SingleCosts :
             orders' = [orders EXCEPT ![nextId] = Order(f, m, side, cost)]
    BY <1>5, Zenon DEF SubmitSingle
  <2>2. nextId \in Ids
    BY <1>1, <1>5, DecisionAssumption DEF TypeOK, SubmitSingle, Ids
  <2>3. /\ orders'[nextId] = Order(f, m, side, cost)
        /\ \A i \in Ids : i # nextId => orders'[i] = orders[i]
    BY <1>3, <2>1, <2>2
  <2>4. /\ orders'[nextId].at = "queued" /\ orders'[nextId].market = m
        /\ orders'[nextId].strategy = f
    BY <2>3 DEF Order
  <2>5. \A i \in Exposed' : i \in Ids /\ (i = nextId \/ (i \in Exposed /\ orders'[i] = orders[i]))
    BY <1>2, <2>3 DEF Exposed
  <2>6. NoDoubleExposure'
    BY <1>1, <1>4, <2>4, <2>5 DEF NoDoubleExposure
  <2>7. ForgottenAreDead'
    BY <1>1, <1>2, <2>3, <2>4 DEF ForgottenAreDead
  <2> QED BY <2>6, <2>7 DEF ExposureInv
<1>6. CASE SubmitSpread(f)
  <2>1. PICK m \in request : \E up, down \in 1..MaxPosition :
             orders' = [orders EXCEPT ![nextId] = Order(f, m, "up", up),
                                      ![nextId + 1] = Order(f, m, "down", down)]
    BY <1>6, Zenon DEF SubmitSpread
  <2>2. PICK up, down : orders' = [orders EXCEPT ![nextId] = Order(f, m, "up", up),
                                                 ![nextId + 1] = Order(f, m, "down", down)]
    BY <2>1
  <2>3. nextId \in Ids /\ nextId + 1 \in Ids /\ nextId # nextId + 1
    BY <1>1, <1>6, DecisionAssumption DEF TypeOK, SubmitSpread, Ids
  <2>4. /\ orders'[nextId] = Order(f, m, "up", up)
        /\ orders'[nextId + 1] = Order(f, m, "down", down)
        /\ \A i \in Ids : i # nextId /\ i # nextId + 1 => orders'[i] = orders[i]
    BY <1>3, <2>2, <2>3
  <2>5. /\ orders'[nextId].at = "queued" /\ orders'[nextId + 1].at = "queued"
        /\ orders'[nextId].market = m /\ orders'[nextId + 1].market = m
        /\ orders'[nextId].strategy = f /\ orders'[nextId + 1].strategy = f
        /\ orders'[nextId].side = "up" /\ orders'[nextId + 1].side = "down"
    BY <2>4 DEF Order
  <2>6. f = "spread_capture"
    BY <1>6 DEF SubmitSpread
  <2>7. \A i \in Exposed' : /\ i \in Ids
                            /\ \/ i = nextId \/ i = nextId + 1
                               \/ i \in Exposed /\ orders'[i] = orders[i]
    BY <1>2, <2>4 DEF Exposed
  <2> DEFINE one == nextId
             two == nextId + 1
  <2>8. NoDoubleExposure'
    <3>1. /\ \A i \in Exposed' : i = one \/ i = two \/ (i \in Exposed /\ orders'[i] = orders[i])
          /\ orders'[one].market = m /\ orders'[two].market = m
          /\ orders'[one].strategy = f /\ orders'[two].strategy = f
          /\ orders'[one].side # orders'[two].side
      BY <2>5, <2>7
    <3> HIDE DEF one, two
    <3> SUFFICES ASSUME NEW i \in Exposed', NEW j \in Exposed', i # j,
                        orders'[i].market = orders'[j].market,
                        orders'[i].strategy = orders'[j].strategy
                 PROVE  orders'[i].strategy = "spread_capture" /\ orders'[i].side # orders'[j].side
      BY DEF NoDoubleExposure
    <3>2. CASE i \in {one, two} /\ j \in {one, two}
      BY <2>6, <3>1, <3>2
    <3>3. CASE i \notin {one, two} /\ j \notin {one, two}
      BY <1>1, <3>1, <3>3 DEF NoDoubleExposure
    <3>4. CASE i \in {one, two} /\ j \notin {one, two}
      BY <1>4, <3>1, <3>4
    <3>5. CASE i \notin {one, two} /\ j \in {one, two}
      BY <1>4, <3>1, <3>5
    <3> QED BY <3>2, <3>3, <3>4, <3>5
  <2>9. ForgottenAreDead'
    BY <1>1, <1>2, <2>4, <2>5 DEF ForgottenAreDead
  <2> QED BY <2>8, <2>9 DEF ExposureInv
<1> QED BY <1>5, <1>6

\* Lists of at most two truthful messages.
LEMMA ShortTruthful ==
    ASSUME NEW a, NEW b, NEW c, NEW d,
           Truthful(a, c, d), a.kind # "undo", Truthful(b, c, d), b.kind # "undo"
    PROVE  AllTruthful(<< a, b >>, c, d) /\ AllTruthful(<< a >>, c, d) /\ AllTruthful(<< >>, c, d)
BY DEF AllTruthful

\* Append leaves what was there.
LEMMA AppendAt ==
    ASSUME NEW S, NEW s \in Seq(S), NEW e \in S, NEW k \in DOMAIN s
    PROVE  Append(s, e)[k] = s[k] /\ s[k] \in S
OBVIOUS

\* The main loop and the submission worker: answers and rollbacks are truthful.
LEMMA ExposureMain ==
    ASSUME ExposureInv, TypeOK',
           \/ \E m \in Markets : \/ ActivateWindow(m) \/ CloseWindow(m) \/ TryEvaluate(m)
                                 \/ \E outcome \in Sides : ResolutionResult(m, outcome)
           \/ HandleOutput \/ HandleFeedback \/ TrySend \/ SubmissionAnswers
    PROVE  ExposureInv'
<1>1. TypeOK /\ ForgottenAreDead /\ NoDoubleExposure
  BY DEF ExposureInv
<1>2. /\ job \in Messages /\ mailbox \in Seq(Messages) /\ toSend \in Seq(Messages)
      /\ fillCost \in [Ids -> Nat]
      /\ feedback \in Seq([answered : SUBSET Ids, released : SUBSET Ids])
  BY <1>1 DEF TypeOK
<1>3. SUFFICES /\ orders' = orders /\ job' = job
               /\ dead \subseteq dead' /\ \A i \in Ids : fillCost[i] > 0 => fillCost'[i] > 0
               /\ AllTruthful(mailbox', fillCost', dead') /\ AllTruthful(toSend', fillCost', dead')
               /\ \A k \in DOMAIN feedback' :
                    /\ \A i \in feedback'[k].answered : fillCost'[i] > 0 \/ i \in dead'
                    /\ feedback'[k].released \subseteq dead'
  <2>1. NoDoubleExposure'
    BY <1>1, <1>3, NothingNew
  <2>2. Truthful(job', fillCost', dead')
    BY <1>1, <1>2, <1>3, TruthfulStays DEF ForgottenAreDead
  <2> QED BY <1>1, <1>3, <2>1, <2>2 DEF ExposureInv, ForgottenAreDead
<1>4. AllTruthful(mailbox, fillCost, dead) /\ AllTruthful(toSend, fillCost, dead)
  BY <1>1 DEF ForgottenAreDead
<1>5. \A k \in DOMAIN feedback :
        /\ \A i \in feedback[k].answered : fillCost[i] > 0 \/ i \in dead
        /\ feedback[k].released \subseteq dead
  BY <1>1 DEF ForgottenAreDead
<1>6. CASE \E m \in Markets : ActivateWindow(m) \/ TryEvaluate(m)
  <2>1. /\ orders' = orders /\ job' = job /\ dead' = dead /\ fillCost' = fillCost
        /\ mailbox' = mailbox /\ toSend' = toSend /\ feedback' = feedback
    BY <1>6 DEF ActivateWindow, TryEvaluate, engine, worker, channels, world
  <2> QED BY <1>4, <1>5, <2>1
<1>7. ASSUME NEW m \in Markets, NEW outcome \in Sides,
             CloseWindow(m) \/ ResolutionResult(m, outcome)
      PROVE  /\ orders' = orders /\ job' = job /\ dead' = dead /\ fillCost' = fillCost
             /\ feedback' = feedback
             /\ AllTruthful(mailbox', fillCost, dead) /\ AllTruthful(toSend', fillCost, dead)
  <2>1. /\ orders' = orders /\ job' = job /\ dead' = dead /\ fillCost' = fillCost
        /\ feedback' = feedback
    BY <1>7 DEF CloseWindow, ResolutionResult, engine, worker
  <2>2. ASSUME NEW kind \in {"closed", "resolved"}, NEW o \in Sides,
               Post(<< MarketMessage(kind, m, o) >>)
        PROVE  AllTruthful(mailbox', fillCost, dead) /\ AllTruthful(toSend', fillCost, dead)
    <3> DEFINE msg == MarketMessage(kind, m, o)
    <3>1. msg \in Messages
      BY MarketMessageType
    <3>2. Truthful(msg, fillCost, dead) /\ msg.kind # "undo"
      BY DEF MarketMessage, NoJob, Truthful
    <3>3. << msg >> \in Seq(Messages)
      BY <3>1, ShortSeq
    <3> HIDE DEF msg
    <3>4. AllTruthful(<< msg >>, fillCost, dead)
      BY <3>2 DEF AllTruthful
    <3>5. Post(<< msg >>)
      BY <2>2 DEF msg
    <3> QED BY <1>1, <1>4, <3>3, <3>4, <3>5, PostTruthful
  <2>3. "up" \in Sides
    BY DEF Sides
  <2> QED BY <1>7, <2>1, <2>2, <2>3 DEF CloseWindow, ResolutionResult
<1>8. CASE \E m \in Markets : CloseWindow(m) \/ \E outcome \in Sides : ResolutionResult(m, outcome)
  BY <1>4, <1>5, <1>7, <1>8 DEF Sides
<1>9. CASE HandleOutput
  <2> DEFINE ids == Head(outputs)
             back == << Message("feedback", ids, FALSE), Message("release", ids, FALSE) >>
  <2>1. orders' = orders /\ job' = job /\ fillCost' = fillCost /\ feedback' = feedback
    BY <1>9 DEF HandleOutput, engine, worker
  <2>2. CASE UNCHANGED << mailbox, toSend, lost, dead >>
    BY <1>4, <1>5, <2>1, <2>2
  <2>3. CASE Post(back) /\ dead' = dead \cup ids
    <3>1. ids \in SUBSET Ids
      BY <1>1, <1>9 DEF TypeOK, HandleOutput
    <3>2. Message("feedback", ids, FALSE) \in Messages /\ Message("release", ids, FALSE) \in Messages
      BY <3>1, MessageType
    <3>3. back \in Seq(Messages)
      BY <3>2, ShortSeq
    <3>4. AllTruthful(back, fillCost, dead')
      <4>1. /\ Truthful(Message("feedback", ids, FALSE), fillCost, dead')
            /\ Message("feedback", ids, FALSE).kind # "undo"
        BY <2>3 DEF Truthful, Message, NoJob
      <4>2. /\ Truthful(Message("release", ids, FALSE), fillCost, dead')
            /\ Message("release", ids, FALSE).kind # "undo"
        BY <2>3 DEF Truthful, Message, NoJob
      <4> QED BY <4>1, <4>2, ShortTruthful, Zenon
    <3>5. AllTruthful(mailbox, fillCost, dead') /\ AllTruthful(toSend, fillCost, dead')
      BY <1>2, <1>4, <2>3, AllTruthfulStays
    <3>6. AllTruthful(mailbox', fillCost, dead') /\ AllTruthful(toSend', fillCost, dead')
      BY <1>1, <2>3, <3>3, <3>4, <3>5, PostTruthful
    <3> QED BY <1>5, <2>1, <2>3, <3>6
  <2> QED BY <1>9, <2>2, <2>3, Zenon DEF HandleOutput
<1>10. CASE HandleFeedback
  <2> DEFINE f == Head(feedback)
             F == [answered : SUBSET Ids, released : SUBSET Ids]
             first == IF f.answered = {} THEN << >> ELSE << Message("feedback", f.answered, TRUE) >>
             second == IF f.released = {} THEN << >> ELSE << Message("release", f.released, TRUE) >>
  <2>1. orders' = orders /\ job' = job /\ fillCost' = fillCost /\ dead' = dead
    BY <1>10 DEF HandleFeedback, engine, worker
  <2>2. feedback # << >> /\ feedback' = Tail(feedback) /\ Post(first \o second)
    BY <1>10, Zenon DEF HandleFeedback
  <2>3. f \in F
    BY <1>2, <2>2, HeadTail, Zenon
  <2>4. f.answered \in SUBSET Ids /\ f.released \in SUBSET Ids
    BY <2>3
  <2>5. (\A i \in f.answered : fillCost[i] > 0 \/ i \in dead) /\ f.released \subseteq dead
    BY <1>2, <1>5, <2>2
  <2>6. /\ Message("feedback", f.answered, TRUE) \in Messages
        /\ Message("release", f.released, TRUE) \in Messages
    BY <2>4, MessageType
  <2>7. first \in Seq(Messages) /\ second \in Seq(Messages)
    BY <2>6, ShortSeq, Zenon
  <2>8. AllTruthful(first, fillCost, dead) /\ AllTruthful(second, fillCost, dead)
    <3>1. /\ Truthful(Message("feedback", f.answered, TRUE), fillCost, dead)
          /\ Message("feedback", f.answered, TRUE).kind # "undo"
      BY <2>5 DEF Truthful, Message, NoJob
    <3>2. /\ Truthful(Message("release", f.released, TRUE), fillCost, dead)
          /\ Message("release", f.released, TRUE).kind # "undo"
      BY <2>5 DEF Truthful, Message, NoJob
    <3> QED BY <3>1, <3>2, ShortTruthful, Zenon
  <2>9. first \o second \in Seq(Messages) /\ AllTruthful(first \o second, fillCost, dead)
    <3> HIDE DEF first, second
    <3> QED BY <2>7, <2>8 DEF AllTruthful
  <2>10. AllTruthful(mailbox', fillCost, dead) /\ AllTruthful(toSend', fillCost, dead)
    BY <1>1, <1>4, <2>2, <2>9, PostTruthful
  <2>11. \A k \in DOMAIN feedback' :
           /\ \A i \in feedback'[k].answered : fillCost[i] > 0 \/ i \in dead
           /\ feedback'[k].released \subseteq dead
    BY <1>2, <1>5, <2>2
  <2> QED BY <2>1, <2>10, <2>11
<1>11. CASE TrySend
  <2>1. /\ orders' = orders /\ job' = job /\ fillCost' = fillCost /\ dead' = dead
        /\ feedback' = feedback /\ Post(toSend)
    BY <1>11 DEF TrySend, engine, worker
  <2>2. AllTruthful(mailbox', fillCost, dead) /\ AllTruthful(toSend', fillCost, dead)
    BY <1>1, <1>2, <1>4, <2>1, PostTruthful
  <2> QED BY <1>5, <2>1, <2>2
<1>12. CASE SubmissionAnswers
  <2> DEFINE ids == Head(submitted)
  <2>1. orders' = orders /\ job' = job /\ mailbox' = mailbox /\ toSend' = toSend
    BY <1>12 DEF SubmissionAnswers, engine, worker
  <2>2. PICK filled \in SUBSET ids : \E doubt \in SUBSET (ids \ filled) :
             /\ \E cost \in [filled -> 1..(2 * MaxPosition)] :
                  fillCost' = [i \in Ids |-> IF i \in filled THEN cost[i] ELSE fillCost[i]]
             /\ LET rejected == ids \ (filled \cup doubt)
                IN /\ feedback' = Append(feedback, [answered |-> filled \cup rejected,
                                                    released |-> rejected])
                   /\ dead' = dead \cup rejected
    BY <1>12, Zenon DEF SubmissionAnswers
  <2>3. PICK rejected \in SUBSET ids :
             /\ \E cost \in [filled -> 1..(2 * MaxPosition)] :
                  fillCost' = [i \in Ids |-> IF i \in filled THEN cost[i] ELSE fillCost[i]]
             /\ feedback' = Append(feedback, [answered |-> filled \cup rejected,
                                              released |-> rejected])
             /\ dead' = dead \cup rejected
    BY <2>2, Zenon
  <2>4. ids \in SUBSET Ids
    BY <1>1, <1>12 DEF TypeOK, SubmissionAnswers
  <2>5. /\ \A i \in Ids : fillCost[i] > 0 => fillCost'[i] > 0
        /\ \A i \in filled : fillCost'[i] > 0
    BY <1>2, <2>3, <2>4, BankrollAssumption
  <2>6. AllTruthful(mailbox, fillCost', dead') /\ AllTruthful(toSend, fillCost', dead')
    BY <1>2, <1>4, <2>3, <2>5, AllTruthfulStays
  <2>7. \A k \in DOMAIN feedback' :
           /\ \A i \in feedback'[k].answered : fillCost'[i] > 0 \/ i \in dead'
           /\ feedback'[k].released \subseteq dead'
    <3> SUFFICES ASSUME NEW k \in DOMAIN feedback'
                 PROVE  /\ \A i \in feedback'[k].answered : fillCost'[i] > 0 \/ i \in dead'
                        /\ feedback'[k].released \subseteq dead'
      OBVIOUS
    <3>1. CASE k \in DOMAIN feedback
      <4> DEFINE F == [answered : SUBSET Ids, released : SUBSET Ids]
                 e == [answered |-> filled \cup rejected, released |-> rejected]
      <4>1. e \in F
        BY <2>4
      <4>2. feedback \in Seq(F) /\ feedback' = Append(feedback, e)
        BY <1>2, <2>3
      <4>3. feedback'[k] = feedback[k] /\ feedback[k] \in F
        <5> HIDE DEF F, e
        <5> QED BY <3>1, <4>1, <4>2, AppendAt, Zenon
      <4>4. feedback'[k] = feedback[k] /\ feedback[k].answered \subseteq Ids
        BY <4>3
      <4> QED BY <1>5, <2>3, <2>5, <3>1, <4>4
    <3>2. CASE k \notin DOMAIN feedback
      <4>1. feedback'[k] = [answered |-> filled \cup rejected, released |-> rejected]
        BY <1>2, <2>3, <3>2
      <4> QED BY <2>3, <2>5, <4>1
    <3> QED BY <3>1, <3>2
  <2> QED BY <2>1, <2>3, <2>5, <2>6, <2>7
<1> QED BY <1>6, <1>8, <1>9, <1>10, <1>11, <1>12

LEMMA ExposureNext == ExposureInv /\ TypeOK' /\ [Next]_vars => ExposureInv'
<1> SUFFICES ASSUME ExposureInv, TypeOK', [Next]_vars PROVE ExposureInv'
  OBVIOUS
<1>1. CASE \E i \in Ids : EngineStep(i)
  BY <1>1, ExposureEngine
<1>2. CASE ReceiveMessage \/ MailboxEmpty \/ TakeRequest \/ FinishJob \/ ForwardDecision
  BY <1>2, ExposureWorker
<1>3. CASE \E f \in Strategies : SubmitSingle(f) \/ SubmitSpread(f)
  BY <1>3, ExposureSubmit
<1>4. CASE \/ \E m \in Markets : \/ ActivateWindow(m) \/ CloseWindow(m) \/ TryEvaluate(m)
                                 \/ \E outcome \in Sides : ResolutionResult(m, outcome)
           \/ HandleOutput \/ HandleFeedback \/ TrySend \/ SubmissionAnswers
  BY <1>4, ExposureMain
<1>5. CASE UNCHANGED vars
  BY <1>5 DEF ExposureInv, ForgottenAreDead, AllTruthful, Truthful, NoDoubleExposure, Exposed,
              vars, engine, worker, channels, world
<1> QED BY <1>1, <1>2, <1>3, <1>4, <1>5, Zenon DEF Next

\* However late, lost or out of order the answers are, no strategy is exposed
\* twice to a market, except to both sides of a spread (can_queue_single,
\* can_queue_spread).
THEOREM SingleExposure == Spec => []NoDoubleExposure
<1>1. ExposureInv => NoDoubleExposure
  BY DEF ExposureInv
<1> QED BY <1>1, ExposureInit, ExposureNext, DecisionTypes, PTL DEF Spec

-----------------------------------------------------------------------------
(* What a set of orders costs.                                               *)

Units(o, S)  == UNION {{i} \X (1..o[i].cost) : i \in S}
Weight(o, S) == Cardinality(Units(o, S))

\* Finitely many orders have finitely many units.
LEMMA UnitsFinite ==
    ASSUME NEW o \in [Ids -> Orders], NEW S \in SUBSET Ids
    PROVE  IsFiniteSet(Units(o, S)) /\ Weight(o, S) \in Nat
<1> DEFINE g == [i \in S |-> {i} \X (1..o[i].cost)]
           T == {{i} \X (1..o[i].cost) : i \in S}
<1>1. IsFiniteSet(Ids)
  BY FS_Interval, DecisionAssumption DEF Ids
<1>2. IsFiniteSet(S)
  BY <1>1, FS_Subset
<1>3. g \in Surjection(S, T)
  BY DEF Surjection
<1>4. IsFiniteSet(T)
  <2> HIDE DEF g, T
  <2> QED BY <1>2, <1>3, FS_Surjection
<1>5. ASSUME NEW U \in T PROVE IsFiniteSet(U)
  <2>1. PICK i \in S : U = {i} \X (1..o[i].cost)
    OBVIOUS
  <2>2. o[i].cost \in Nat
    BY DEF Orders
  <2>3. IsFiniteSet({i})
    BY FS_Singleton
  <2>4. IsFiniteSet(1..o[i].cost)
    BY <2>2, FS_Interval
  <2> QED BY <2>1, <2>3, <2>4, FS_Product
<1>6. IsFiniteSet(UNION T)
  <2> HIDE DEF T
  <2> QED BY <1>4, <1>5, FS_UNION
<1>7. Units(o, S) = UNION T
  BY DEF Units
<1> QED BY <1>6, <1>7, FS_CardinalityType DEF Weight

\* Two sets without a common order cost the sum of what each costs.
LEMMA WeightSplit ==
    ASSUME NEW o \in [Ids -> Orders], NEW S \in SUBSET Ids, NEW T \in SUBSET Ids, S \cap T = {}
    PROVE  Weight(o, S \cup T) = Weight(o, S) + Weight(o, T)
<1> DEFINE A == Units(o, S)
           B == Units(o, T)
<1>1. IsFiniteSet(A) /\ IsFiniteSet(B) /\ Cardinality(A) \in Nat /\ Cardinality(B) \in Nat
  BY UnitsFinite DEF Weight
<1>2. A \cap B = {}
  BY DEF Units
<1>3. Units(o, S \cup T) = A \cup B
  BY DEF Units
<1>4. Cardinality(A \cap B) = 0
  BY <1>2, FS_EmptySet
<1> HIDE DEF A, B
<1>5. Cardinality(A \cup B) = Cardinality(A) + Cardinality(B) - Cardinality(A \cap B)
  BY <1>1, FS_Union
<1>6. Cardinality(A \cup B) = Cardinality(A) + Cardinality(B)
  BY <1>1, <1>4, <1>5
<1> QED BY <1>3, <1>6 DEF A, B, Weight

LEMMA WeightOne ==
    ASSUME NEW o \in [Ids -> Orders], NEW i \in Ids
    PROVE  Weight(o, {i}) = o[i].cost
<1> DEFINE c == o[i].cost
           A == {i}
           B == 1..c
<1>1. c \in Nat
  BY DEF Orders
<1>2. IsFiniteSet(A) /\ Cardinality(A) = 1
  BY FS_Singleton
<1>3. IsFiniteSet(B) /\ Cardinality(B) = c
  <2> HIDE DEF c
  <2>1. IsFiniteSet(B) /\ Cardinality(B) = IF 1 > c THEN 0 ELSE c - 1 + 1
    BY <1>1, FS_Interval
  <2> QED BY <1>1, <2>1
<1>4. Units(o, {i}) = A \X B
  BY DEF Units
<1> HIDE DEF A, B, c
<1>5. Cardinality(A \X B) = Cardinality(A) * Cardinality(B)
  BY <1>2, <1>3, FS_Product
<1>6. Cardinality(A \X B) = c
  BY <1>1, <1>2, <1>3, <1>5
<1> QED BY <1>4, <1>6 DEF Weight, c

LEMMA WeightWithout ==
    ASSUME NEW o \in [Ids -> Orders], NEW S \in SUBSET Ids, NEW i \in S
    PROVE  /\ Weight(o, S) = Weight(o, S \ {i}) + o[i].cost
           /\ Weight(o, S) \in Nat /\ Weight(o, S \ {i}) \in Nat /\ o[i].cost \in Nat
<1>1. S = (S \ {i}) \cup {i} /\ (S \ {i}) \cap {i} = {} /\ S \ {i} \in SUBSET Ids /\ {i} \in SUBSET Ids
  OBVIOUS
<1>2. Weight(o, (S \ {i}) \cup {i}) = Weight(o, S \ {i}) + Weight(o, {i})
  BY <1>1, WeightSplit, Zenon
<1>3. o[i].cost \in Nat
  BY DEF Orders
<1> QED BY <1>1, <1>2, <1>3, WeightOne, UnitsFinite

LEMMA WeightMonotone ==
    ASSUME NEW o \in [Ids -> Orders], NEW S \in SUBSET Ids, NEW T \in SUBSET S
    PROVE  Weight(o, T) <= Weight(o, S)
<1>1. S = T \cup (S \ T) /\ T \cap (S \ T) = {} /\ T \in SUBSET Ids /\ S \ T \in SUBSET Ids
  OBVIOUS
<1>2. Weight(o, T \cup (S \ T)) = Weight(o, T) + Weight(o, S \ T)
  BY <1>1, WeightSplit, Zenon
<1> QED BY <1>1, <1>2, UnitsFinite

\* Only the orders in the set count.
LEMMA WeightSame ==
    ASSUME NEW o, NEW p, NEW S, \A i \in S : o[i].cost = p[i].cost
    PROVE  Weight(o, S) = Weight(p, S)
<1>1. Units(o, S) = Units(p, S)
  BY DEF Units
<1> QED BY <1>1 DEF Weight

-----------------------------------------------------------------------------
(* The reserve of one family.                                                *)

\* release_from_family_buckets gives back the amount, as far as it is there.
LEMMA ReleaseBuckets ==
    ASSUME NEW b \in Bankrolls, NEW f \in Families, NEW g \in Families, NEW amount \in Nat
    PROVE  Reserved(Release(b, f, amount), g) =
             IF g = f THEN Positive(Reserved(b, f) - amount) ELSE Reserved(b, g)
<1> DEFINE r == Least(amount, b.active[f])
           d == ConsumeActive(b, f, amount)
           q == Least(amount - r, b.pending[f])
           c == ConsumePending(d, f, amount - r)
<1>1. /\ b.active \in [Families -> Nat] /\ b.pending \in [Families -> Nat]
      /\ b.active[f] \in Nat /\ b.pending[f] \in Nat
  BY DEF Bankrolls
<1>2. r \in Nat /\ r <= b.active[f] /\ r <= amount
  BY <1>1 DEF Least
<1>3. d.active = [b.active EXCEPT ![f] = b.active[f] - r] /\ d.pending = b.pending
  <2>1. Positive(b.active[f] - r) = b.active[f] - r
    BY <1>1, <1>2 DEF Positive
  <2>2. /\ d.active = [b.active EXCEPT ![f] = Positive(b.active[f] - r)]
        /\ d.pending = b.pending
    BY DEF ConsumeActive, Bankrolls
  <2> QED BY <2>1, <2>2
<1>4. d \in [balance : Int, fees : Nat, active : [Families -> Nat], pending : [Families -> Nat],
             activeTotal : Int, pendingTotal : Nat]
  <2>1. [b.active EXCEPT ![f] = b.active[f] - r] \in [Families -> Nat]
    BY <1>1, <1>2
  <2>2. Positive(b.activeTotal - r) \in Int
    BY <1>2 DEF Positive, Bankrolls
  <2>3. d = [b EXCEPT !.active = d.active, !.activeTotal = Positive(b.activeTotal - r)]
    BY <1>3 DEF ConsumeActive, Bankrolls
  <2> QED BY <1>3, <2>1, <2>2, <2>3 DEF Bankrolls
<1>5. q \in Nat /\ q <= b.pending[f] /\ (q = amount - r \/ q = b.pending[f])
  BY <1>1, <1>2 DEF Least
<1>6. c.pending = [b.pending EXCEPT ![f] = b.pending[f] - q] /\ c.active = d.active
  <2>1. Positive(b.pending[f] - q) = b.pending[f] - q
    BY <1>1, <1>5 DEF Positive
  <2>2. c.pending = [d.pending EXCEPT ![f] = Positive(d.pending[f] - Least(amount - r, d.pending[f]))]
        /\ c.active = d.active
    <3> HIDE DEF d, r
    <3> QED BY <1>4 DEF ConsumePending
  <2> QED BY <1>3, <2>1, <2>2
<1>7. c = Release(b, f, amount)
  BY DEF Release
<1>8. Reserved(c, g) = IF g = f THEN (b.active[f] - r) + (b.pending[f] - q) ELSE Reserved(b, g)
  <2> HIDE DEF c, d, r, q
  <2> QED BY <1>1, <1>3, <1>6 DEF Reserved
<1>9. (b.active[f] - r) + (b.pending[f] - q) = Positive(Reserved(b, f) - amount)
  BY <1>1, <1>2, <1>5 DEF Reserved, Positive, Least
<1> HIDE DEF c
<1> QED BY <1>7, <1>8, <1>9

\* add_reserved adds to one family.
LEMMA AddReservedBuckets ==
    ASSUME NEW b \in Bankrolls, NEW f \in Families, NEW g \in Families, NEW amount \in Nat
    PROVE  Reserved(AddReserved(b, f, amount), g) =
             IF g = f THEN Reserved(b, f) + amount ELSE Reserved(b, g)
<1> DEFINE c == AddReserved(b, f, amount)
<1>1. /\ b.active \in [Families -> Nat] /\ b.pending \in [Families -> Nat]
      /\ b.active[f] \in Nat /\ b.pending[f] \in Nat
  BY DEF Bankrolls
<1>2. c.active = [b.active EXCEPT ![f] = b.active[f] + amount] /\ c.pending = b.pending
  BY DEF AddReserved, Bankrolls
<1> HIDE DEF c
<1>3. Reserved(c, g) = IF g = f THEN Reserved(b, f) + amount ELSE Reserved(b, g)
  BY <1>1, <1>2 DEF Reserved
<1> QED BY <1>3 DEF c

LEMMA AddPendingBuckets ==
    ASSUME NEW b \in Bankrolls, NEW f \in Families, NEW g \in Families, NEW amount \in Nat
    PROVE  Reserved(AddPending(b, f, amount), g) =
             IF g = f THEN Reserved(b, f) + amount ELSE Reserved(b, g)
<1> DEFINE c == AddPending(b, f, amount)
<1>1. /\ b.active \in [Families -> Nat] /\ b.pending \in [Families -> Nat]
      /\ b.active[f] \in Nat /\ b.pending[f] \in Nat
  BY DEF Bankrolls
<1>2. c.pending = [b.pending EXCEPT ![f] = b.pending[f] + amount] /\ c.active = b.active
  BY DEF AddPending, Bankrolls
<1> HIDE DEF c
<1>3. Reserved(c, g) = IF g = f THEN Reserved(b, f) + amount ELSE Reserved(b, g)
  BY <1>1, <1>2 DEF Reserved
<1> QED BY <1>3 DEF c

\* transition_family_reserve_to_pending moves reserve within a family.
LEMMA ToPendingBuckets ==
    ASSUME NEW b \in Bankrolls, NEW f \in Families, NEW g \in Families, NEW amount \in Nat
    PROVE  Reserved(ToPending(b, f, amount), g) = Reserved(b, g)
<1> DEFINE r == Least(amount, b.active[f])
           d == ConsumeActive(b, f, amount)
           c == AddPending(d, f, r)
<1>1. /\ b.active \in [Families -> Nat] /\ b.pending \in [Families -> Nat]
      /\ b.active[f] \in Nat /\ b.pending[f] \in Nat
  BY DEF Bankrolls
<1>2. r \in Nat /\ r <= b.active[f]
  BY <1>1 DEF Least
<1>3. /\ d.active = [b.active EXCEPT ![f] = Positive(b.active[f] - r)]
      /\ d.pending = b.pending /\ d.pendingTotal = b.pendingTotal
  BY DEF ConsumeActive, Bankrolls
<1>4. Positive(b.active[f] - r) = b.active[f] - r
  BY <1>1, <1>2 DEF Positive
<1>5. c.active = d.active /\ c.pending = [b.pending EXCEPT ![f] = b.pending[f] + r]
  <2>1. d = [b EXCEPT !.active = [b.active EXCEPT ![f] = Positive(b.active[f] - r)],
                      !.activeTotal = Positive(b.activeTotal - r)]
    BY DEF ConsumeActive
  <2>2. c = [d EXCEPT !.pending = [d.pending EXCEPT ![f] = d.pending[f] + r],
                      !.pendingTotal = d.pendingTotal + r]
    BY DEF AddPending
  <2>3. DOMAIN d = DOMAIN b /\ {"active", "pending", "pendingTotal"} \subseteq DOMAIN b
    BY <2>1 DEF Bankrolls
  <2> HIDE DEF c, d, r
  <2> QED BY <1>3, <2>2, <2>3
<1>6. Reserved(c, g) = Reserved(b, g)
  <2> HIDE DEF c, d, r
  <2> QED BY <1>1, <1>2, <1>3, <1>4, <1>5 DEF Reserved
<1> QED BY <1>6 DEF ToPending

\* apply_trade_result_in_memory releases what the trade cost.
LEMMA TradeResultBuckets ==
    ASSUME NEW b \in Bankrolls, NEW f \in Families, NEW g \in Families, NEW cost \in Nat,
           NEW payout \in Nat, NEW fee \in Nat, Release(b, f, cost) \in Bankrolls
    PROVE  Reserved(ApplyTradeResult(b, f, cost, payout, fee), g) =
             IF g = f THEN Positive(Reserved(b, f) - cost) ELSE Reserved(b, g)
<1> DEFINE d == Release(b, f, cost)
           c == ApplyTradeResult(b, f, cost, payout, fee)
<1>1. c.active = d.active /\ c.pending = d.pending
  BY DEF ApplyTradeResult, Bankrolls
<1>2. Reserved(c, g) = Reserved(d, g)
  BY <1>1 DEF Reserved
<1> QED BY <1>2, ReleaseBuckets

-----------------------------------------------------------------------------
(* A reserve against what it is for.                                         *)

Fam(o, S, f) == {i \in S : o[i].strategy = f}

\* Reserve R of family f is what the orders S of it cost; more, if a message
\* was lost.
Balanced(R, o, S, f, l) ==
    /\ R >= Weight(o, Fam(o, S, f))
    /\ ~l => R = Weight(o, Fam(o, S, f))

SameCosts(o, p, S) == \A i \in S : p[i].strategy = o[i].strategy /\ p[i].cost = o[i].cost

LEMMA FamSame ==
    ASSUME NEW o, NEW p, NEW S, NEW f, SameCosts(o, p, S)
    PROVE  Fam(p, S, f) = Fam(o, S, f) /\ Weight(p, Fam(p, S, f)) = Weight(o, Fam(o, S, f))
<1>1. Fam(p, S, f) = Fam(o, S, f)
  BY DEF Fam, SameCosts
<1>2. \A i \in Fam(o, S, f) : p[i].cost = o[i].cost
  BY DEF Fam, SameCosts
<1>3. Weight(p, Fam(o, S, f)) = Weight(o, Fam(o, S, f))
  BY <1>2, WeightSame
<1> QED BY <1>1, <1>3

LEMMA BalancedSame ==
    ASSUME NEW R, NEW o, NEW p, NEW S, NEW f, NEW l, SameCosts(o, p, S), Balanced(R, o, S, f, l)
    PROVE  Balanced(R, p, S, f, l)
  BY FamSame DEF Balanced

\* A lost message leaves too much reserved.
LEMMA BalancedLost ==
    ASSUME NEW R \in Nat, NEW o \in [Ids -> Orders], NEW S \in SUBSET Ids, NEW T \in SUBSET S,
           NEW f, NEW l, Balanced(R, o, S, f, l)
    PROVE  Balanced(R, o, T, f, TRUE)
<1>1. Fam(o, S, f) \in SUBSET Ids /\ Fam(o, T, f) \in SUBSET Fam(o, S, f) /\ Fam(o, T, f) \in SUBSET Ids
  BY DEF Fam
<1>2. Weight(o, Fam(o, T, f)) <= Weight(o, Fam(o, S, f))
  BY <1>1, WeightMonotone
<1>3. Weight(o, Fam(o, T, f)) \in Nat /\ Weight(o, Fam(o, S, f)) \in Nat
  BY <1>1, UnitsFinite
<1> QED BY <1>2, <1>3 DEF Balanced

\* An order is given its reserve back, or settled.
LEMMA BalancedRelease ==
    ASSUME NEW R \in Nat, NEW o \in [Ids -> Orders], NEW p \in [Ids -> Orders],
           NEW S \in SUBSET Ids, NEW i \in S, NEW f, NEW l,
           SameCosts(o, p, S \ {i}), Balanced(R, o, S, f, l)
    PROVE  Balanced(IF f = o[i].strategy THEN Positive(R - o[i].cost) ELSE R, p, S \ {i}, f, l)
<1> DEFINE A == Fam(o, S, f)
           B == Fam(o, S \ {i}, f)
<1>1. Weight(p, Fam(p, S \ {i}, f)) = Weight(o, B)
  BY FamSame
<1>2. A \in SUBSET Ids /\ B \in SUBSET Ids
  BY DEF Fam
<1>3. CASE f = o[i].strategy
  <2>1. i \in A /\ B = A \ {i}
    BY <1>3 DEF Fam
  <2>2. /\ Weight(o, A) = Weight(o, B) + o[i].cost
        /\ Weight(o, A) \in Nat /\ Weight(o, B) \in Nat /\ o[i].cost \in Nat
    <3> HIDE DEF A, B
    <3>1. /\ Weight(o, A) = Weight(o, A \ {i}) + o[i].cost
          /\ Weight(o, A) \in Nat /\ Weight(o, A \ {i}) \in Nat /\ o[i].cost \in Nat
      BY <1>2, <2>1, WeightWithout, Zenon
    <3>2. A \ {i} = B
      BY <2>1
    <3> QED BY <3>1, <3>2
  <2>3. R >= Weight(o, A) /\ (~l => R = Weight(o, A))
    BY DEF Balanced
  <2> HIDE DEF A, B
  <2>4. /\ Positive(R - o[i].cost) >= Weight(o, B)
        /\ ~l => Positive(R - o[i].cost) = Weight(o, B)
    BY <2>2, <2>3 DEF Positive
  <2> QED BY <1>1, <1>3, <2>4 DEF Balanced
<1>4. CASE f # o[i].strategy
  <2>1. B = A
    BY <1>4 DEF Fam
  <2> QED BY <1>1, <1>4, <2>1 DEF Balanced
<1> QED BY <1>3, <1>4

\* A fill gives back what it did not need.
LEMMA BalancedFill ==
    ASSUME NEW R \in Nat, NEW o \in [Ids -> Orders], NEW p \in [Ids -> Orders],
           NEW S \in SUBSET Ids, NEW i \in S, NEW f, NEW l,
           SameCosts(o, p, S \ {i}), Balanced(R, o, S, f, l),
           p[i].strategy = o[i].strategy, p[i].cost <= o[i].cost
    PROVE  Balanced(IF f = o[i].strategy THEN Positive(R - (o[i].cost - p[i].cost)) ELSE R, p, S, f, l)
<1> DEFINE A == Fam(o, S, f)
           B == Fam(o, S \ {i}, f)
           C == Fam(p, S, f)
<1>1. Fam(p, S \ {i}, f) = B /\ Weight(p, B) = Weight(o, B)
  <2>1. Fam(p, S \ {i}, f) = B /\ Weight(p, Fam(p, S \ {i}, f)) = Weight(o, B)
    BY FamSame
  <2> QED BY <2>1
<1>2. A \in SUBSET Ids /\ B \in SUBSET Ids /\ C \in SUBSET Ids
  BY DEF Fam
<1>3. CASE f = o[i].strategy
  <2>1. i \in A /\ B = A \ {i} /\ i \in C /\ C \ {i} = Fam(p, S \ {i}, f)
    BY <1>3 DEF Fam
  <2>2. /\ Weight(o, A) = Weight(o, B) + o[i].cost
        /\ Weight(o, A) \in Nat /\ Weight(o, B) \in Nat /\ o[i].cost \in Nat
    <3> HIDE DEF A, B, C
    <3>1. /\ Weight(o, A) = Weight(o, A \ {i}) + o[i].cost
          /\ Weight(o, A) \in Nat /\ Weight(o, A \ {i}) \in Nat /\ o[i].cost \in Nat
      BY <1>2, <2>1, WeightWithout, Zenon
    <3> QED BY <2>1, <3>1, Zenon
  <2>3. /\ Weight(p, C) = Weight(p, C \ {i}) + p[i].cost /\ p[i].cost \in Nat
    BY <1>2, <2>1, WeightWithout
  <2>4. Weight(p, C) = Weight(o, B) + p[i].cost
    BY <1>1, <2>1, <2>3
  <2>5. R >= Weight(o, A) /\ (~l => R = Weight(o, A))
    BY DEF Balanced
  <2> HIDE DEF A, B, C
  <2>6. /\ Positive(R - (o[i].cost - p[i].cost)) >= Weight(p, C)
        /\ ~l => Positive(R - (o[i].cost - p[i].cost)) = Weight(p, C)
    BY <2>2, <2>3, <2>4, <2>5 DEF Positive
  <2> QED BY <1>3, <2>6 DEF Balanced, C
<1>4. CASE f # o[i].strategy
  <2>1. B = A /\ C = Fam(p, S \ {i}, f)
    BY <1>4 DEF Fam
  <2> QED BY <1>1, <1>4, <2>1 DEF Balanced
<1> QED BY <1>3, <1>4

\* A new order is reserved for.
LEMMA BalancedAdd ==
    ASSUME NEW R \in Nat, NEW o \in [Ids -> Orders], NEW p \in [Ids -> Orders],
           NEW S \in SUBSET Ids, NEW i \in Ids \ S, NEW f, NEW l,
           SameCosts(o, p, S), Balanced(R, o, S, f, l)
    PROVE  Balanced(IF f = p[i].strategy THEN R + p[i].cost ELSE R, p, S \cup {i}, f, l)
<1> DEFINE A == Fam(o, S, f)
           C == Fam(p, S \cup {i}, f)
<1>1. Fam(p, S, f) = A /\ Weight(p, A) = Weight(o, A)
  <2>1. Fam(p, S, f) = A /\ Weight(p, Fam(p, S, f)) = Weight(o, A)
    BY FamSame
  <2> QED BY <2>1
<1>2. A \in SUBSET Ids /\ C \in SUBSET Ids
  BY DEF Fam
<1>3. CASE f = p[i].strategy
  <2>1. i \in C /\ C \ {i} = Fam(p, S, f)
    BY <1>3 DEF Fam
  <2>2. /\ Weight(p, C) = Weight(p, C \ {i}) + p[i].cost /\ p[i].cost \in Nat
        /\ Weight(p, C \ {i}) \in Nat
    BY <1>2, <2>1, WeightWithout
  <2>3. Weight(p, C) = Weight(o, A) + p[i].cost /\ Weight(o, A) \in Nat
    BY <1>1, <2>1, <2>2
  <2>4. R >= Weight(o, A) /\ (~l => R = Weight(o, A))
    BY DEF Balanced
  <2> HIDE DEF A, C
  <2>5. R + p[i].cost >= Weight(p, C) /\ (~l => R + p[i].cost = Weight(p, C))
    BY <2>2, <2>3, <2>4
  <2> QED BY <1>3, <2>5 DEF Balanced, C
<1>4. CASE f # p[i].strategy
  <2>1. C = Fam(p, S, f)
    BY <1>4 DEF Fam
  <2> QED BY <1>1, <1>4, <2>1 DEF Balanced
<1> QED BY <1>3, <1>4

-----------------------------------------------------------------------------
(* Orders on their way.                                                      *)

LEMMA TailOnce ==
    ASSUME NEW q \in Seq(SUBSET Ids), q # << >>, Once(q)
    PROVE  /\ Once(Tail(q)) /\ Tail(q) \in Seq(SUBSET Ids) /\ Head(q) \in SUBSET Ids
           /\ All(q) = Head(q) \cup All(Tail(q))
           /\ Head(q) \cap All(Tail(q)) = {}
<1>1. /\ Tail(q) \in Seq(SUBSET Ids) /\ Head(q) = q[1] /\ 1 \in DOMAIN q /\ q[1] \in SUBSET Ids
      /\ \A k \in DOMAIN Tail(q) : k + 1 \in DOMAIN q /\ Tail(q)[k] = q[k + 1] /\ k + 1 # 1
      /\ \A j, k \in DOMAIN Tail(q) : j # k => j + 1 # k + 1
      /\ \A k \in DOMAIN q : k # 1 => k - 1 \in DOMAIN Tail(q) /\ Tail(q)[k - 1] = q[k]
  OBVIOUS
<1>2. Once(Tail(q))
  BY <1>1 DEF Once
<1>3. Head(q) \cap All(Tail(q)) = {}
  BY <1>1 DEF Once, All
<1>4. All(q) = Head(q) \cup All(Tail(q))
  <2>1. ASSUME NEW x \in All(q) PROVE x \in Head(q) \cup All(Tail(q))
    <3>1. PICK k \in DOMAIN q : x \in q[k]
      BY DEF All
    <3>2. k = 1 \/ (k - 1 \in DOMAIN Tail(q) /\ x \in Tail(q)[k - 1])
      BY <1>1, <3>1
    <3>3. \A j \in DOMAIN Tail(q) : Tail(q)[j] \subseteq All(Tail(q))
      BY DEF All
    <3> QED BY <1>1, <3>1, <3>2, <3>3
  <2>2. Head(q) \cup All(Tail(q)) \subseteq All(q)
    BY <1>1 DEF All
  <2> QED BY <2>1, <2>2
<1> QED BY <1>1, <1>2, <1>3, <1>4

LEMMA AppendOnce ==
    ASSUME NEW q \in Seq(SUBSET Ids), NEW e \in SUBSET Ids, Once(q), e \cap All(q) = {}
    PROVE  /\ Once(Append(q, e)) /\ Append(q, e) \in Seq(SUBSET Ids)
           /\ All(Append(q, e)) = All(q) \cup e
<1> DEFINE a == Append(q, e)
           n == Len(q) + 1
<1>1. /\ a \in Seq(SUBSET Ids) /\ n \in DOMAIN a /\ a[n] = e
      /\ \A k \in DOMAIN q : k \in DOMAIN a /\ k # n /\ a[k] = q[k]
      /\ \A k \in DOMAIN a : k = n \/ k \in DOMAIN q
  OBVIOUS
<1> HIDE DEF a, n
<1>2. \A k \in DOMAIN q : q[k] \cap e = {}
  BY DEF All
<1>3. Once(a)
  BY <1>1, <1>2 DEF Once
<1>4. All(a) = All(q) \cup e
  <2>1. All(a) \subseteq All(q) \cup e
    BY <1>1 DEF All
  <2>2. All(q) \cup e \subseteq All(a)
    BY <1>1 DEF All
  <2> QED BY <2>1, <2>2
<1> QED BY <1>1, <1>3, <1>4 DEF a

LEMMA NothingOnce == Once(<< >>) /\ All(<< >>) = {}
  BY DEF Once, All

\* What a list of messages gives back, as the list grows and shrinks.
LEMMA ReturnedSeq ==
    ASSUME NEW s \in Seq(Messages)
    PROVE  /\ Returned(s) \in Seq(SUBSET Ids) /\ (Returned(s) = << >> <=> s = << >>)
           /\ s # << >> => /\ Returned(Tail(s)) = Tail(Returned(s))
                           /\ Head(Returned(s)) = Returns(Head(s))
           /\ \A m \in Messages : Returned(Append(s, m)) = Append(Returned(s), Returns(m))
<1>1. \A m \in Messages : Returns(m) \in SUBSET Ids
  BY DEF Returns, Messages
<1>2. Returned(s) \in Seq(SUBSET Ids) /\ Len(Returned(s)) = Len(s)
  BY <1>1 DEF Returned
<1>3. s # << >> => /\ Returned(Tail(s)) = Tail(Returned(s))
                   /\ Head(Returned(s)) = Returns(Head(s))
  <2> SUFFICES ASSUME s # << >>
               PROVE  /\ Returned(Tail(s)) = Tail(Returned(s))
                      /\ Head(Returned(s)) = Returns(Head(s))
    OBVIOUS
  <2>1. Tail(s) \in Seq(Messages) /\ Len(Tail(s)) = Len(s) - 1 /\ Len(s) > 0 /\ Len(s) \in Nat
    OBVIOUS
  <2>2. DOMAIN Returned(Tail(s)) = DOMAIN Tail(Returned(s))
    BY <1>2, <2>1 DEF Returned
  <2>3. \A k \in 1..(Len(s) - 1) : Returned(Tail(s))[k] = Tail(Returned(s))[k]
    BY <1>2, <2>1 DEF Returned
  <2>4. Returned(Tail(s)) \in Seq(SUBSET Ids) /\ Tail(Returned(s)) \in Seq(SUBSET Ids)
        /\ Len(Returned(Tail(s))) = Len(s) - 1 /\ Len(Tail(Returned(s))) = Len(s) - 1
    BY <1>1, <1>2, <2>1 DEF Returned
  <2>5. Returned(Tail(s)) = Tail(Returned(s))
    BY <2>1, <2>3, <2>4
  <2> QED BY <1>2, <2>1, <2>5 DEF Returned
<1>4. ASSUME NEW m \in Messages
      PROVE  Returned(Append(s, m)) = Append(Returned(s), Returns(m))
  <2>1. Append(s, m) \in Seq(Messages) /\ Len(Append(s, m)) = Len(s) + 1 /\ Len(s) \in Nat
    OBVIOUS
  <2>2. /\ Returned(Append(s, m)) \in Seq(SUBSET Ids)
        /\ Len(Returned(Append(s, m))) = Len(s) + 1
        /\ Append(Returned(s), Returns(m)) \in Seq(SUBSET Ids)
        /\ Len(Append(Returned(s), Returns(m))) = Len(s) + 1
    BY <1>1, <1>2, <2>1 DEF Returned
  <2>3. \A k \in 1..(Len(s) + 1) : Returned(Append(s, m))[k] = Append(Returned(s), Returns(m))[k]
    BY <1>2, <2>1 DEF Returned
  <2> QED BY <2>1, <2>2, <2>3
<1> QED BY <1>2, <1>3, <1>4

Feedbacks == [answered : SUBSET Ids, released : SUBSET Ids]

LEMMA ReleasedSeq ==
    ASSUME NEW s \in Seq(Feedbacks)
    PROVE  /\ Released(s) \in Seq(SUBSET Ids) /\ (Released(s) = << >> <=> s = << >>)
           /\ s # << >> => /\ Released(Tail(s)) = Tail(Released(s))
                           /\ Head(Released(s)) = Head(s).released
           /\ \A m \in Feedbacks : Released(Append(s, m)) = Append(Released(s), m.released)
<1>1. \A m \in Feedbacks : m.released \in SUBSET Ids
  BY DEF Feedbacks
<1>2. Released(s) \in Seq(SUBSET Ids) /\ Len(Released(s)) = Len(s)
  BY <1>1 DEF Released
<1>3. s # << >> => /\ Released(Tail(s)) = Tail(Released(s))
                   /\ Head(Released(s)) = Head(s).released
  <2> SUFFICES ASSUME s # << >>
               PROVE  /\ Released(Tail(s)) = Tail(Released(s))
                      /\ Head(Released(s)) = Head(s).released
    OBVIOUS
  <2>1. Tail(s) \in Seq(Feedbacks) /\ Len(Tail(s)) = Len(s) - 1 /\ Len(s) > 0 /\ Len(s) \in Nat
    OBVIOUS
  <2>3. \A k \in 1..(Len(s) - 1) : Released(Tail(s))[k] = Tail(Released(s))[k]
    BY <1>2, <2>1 DEF Released
  <2>4. Released(Tail(s)) \in Seq(SUBSET Ids) /\ Tail(Released(s)) \in Seq(SUBSET Ids)
        /\ Len(Released(Tail(s))) = Len(s) - 1 /\ Len(Tail(Released(s))) = Len(s) - 1
    BY <1>1, <1>2, <2>1 DEF Released
  <2>5. Released(Tail(s)) = Tail(Released(s))
    BY <2>1, <2>3, <2>4
  <2> QED BY <1>2, <2>1, <2>5 DEF Released
<1>4. ASSUME NEW m \in Feedbacks
      PROVE  Released(Append(s, m)) = Append(Released(s), m.released)
  <2>1. Append(s, m) \in Seq(Feedbacks) /\ Len(Append(s, m)) = Len(s) + 1 /\ Len(s) \in Nat
    OBVIOUS
  <2>2. /\ Released(Append(s, m)) \in Seq(SUBSET Ids)
        /\ Len(Released(Append(s, m))) = Len(s) + 1
        /\ Append(Released(s), m.released) \in Seq(SUBSET Ids)
        /\ Len(Append(Released(s), m.released)) = Len(s) + 1
    BY <1>1, <1>2, <2>1 DEF Released
  <2>3. \A k \in 1..(Len(s) + 1) : Released(Append(s, m))[k] = Append(Released(s), m.released)[k]
    BY <1>2, <2>1 DEF Released
  <2> QED BY <2>1, <2>2, <2>3
<1> QED BY <1>2, <1>3, <1>4

\* try_send of one message and of those behind it: nothing comes to be in two
\* places, and only what does not fit is lost.
LEMMA PostReturns ==
    ASSUME TypeOK, NEW messages \in Seq(Messages), Post(messages),
           messages = << >> => toSend = << >>,
           Once(Returned(messages)), Once(Returned(mailbox)),
           All(Returned(messages)) \cap All(Returned(mailbox)) = {}
    PROVE  /\ Once(Returned(mailbox')) /\ Once(Returned(toSend'))
           /\ All(Returned(mailbox')) \cap All(Returned(toSend')) = {}
           /\ All(Returned(mailbox')) \cup All(Returned(toSend'))
                \subseteq All(Returned(mailbox)) \cup All(Returned(messages))
           /\ lost => lost'
           /\ lost' \/ All(Returned(mailbox')) \cup All(Returned(toSend'))
                         = All(Returned(mailbox)) \cup All(Returned(messages))
<1>1. mailbox \in Seq(Messages) /\ toSend \in Seq(Messages) /\ lost \in BOOLEAN
  BY DEF TypeOK
<1>2. CASE messages = << >>
  <2>1. mailbox' = mailbox /\ toSend' = messages /\ lost' = lost
    BY <1>2 DEF Post
  <2> QED BY <2>1, Zenon
<1>3. CASE messages # << >>
  <2> DEFINE q == Returned(messages)
             b == Returned(mailbox)
             h == Head(messages)
  <2>1. h \in Messages /\ Tail(messages) \in Seq(Messages)
    BY <1>3, HeadTail
  <2>2. /\ q \in Seq(SUBSET Ids) /\ q # << >>
        /\ Returned(Tail(messages)) = Tail(q) /\ Head(q) = Returns(h)
    BY <1>3, ReturnedSeq
  <2>3. b \in Seq(SUBSET Ids) /\ Returned(Append(mailbox, h)) = Append(b, Returns(h))
    BY <1>1, <2>1, ReturnedSeq
  <2>4. /\ Once(Tail(q)) /\ Returns(h) \in SUBSET Ids
        /\ All(q) = Returns(h) \cup All(Tail(q)) /\ Returns(h) \cap All(Tail(q)) = {}
    <3> HIDE DEF q, h
    <3>1. Once(q)
      BY DEF q
    <3> QED BY <2>2, <3>1, TailOnce
  <2>5. /\ Once(Append(b, Returns(h))) /\ All(Append(b, Returns(h))) = All(b) \cup Returns(h)
    <3>1. Returns(h) \cap All(b) = {} /\ Once(b)
      BY <2>4
    <3> HIDE DEF b, h
    <3> QED BY <2>3, <2>4, <3>1, AppendOnce
  <2>6. CASE Len(mailbox) < QueueCapacity
    <3>1. mailbox' = Append(mailbox, h) /\ toSend' = Tail(messages) /\ lost' = lost
      BY <1>3, <2>6 DEF Post
    <3>2. Returned(mailbox') = Append(b, Returns(h)) /\ Returned(toSend') = Tail(q)
      BY <2>2, <2>3, <3>1
    <3> HIDE DEF q, b, h
    <3>3. All(q) \cap All(b) = {} /\ q = Returned(messages) /\ b = Returned(mailbox)
      BY DEF q, b
    <3>4. All(b) \cup Returns(h) \cup All(Tail(q)) = All(b) \cup All(q)
          /\ (All(b) \cup Returns(h)) \cap All(Tail(q)) = {}
      BY <2>4, <3>3
    <3> QED BY <2>4, <2>5, <3>1, <3>2, <3>3, <3>4
  <2>7. CASE ~(Len(mailbox) < QueueCapacity)
    <3>1. mailbox' = mailbox /\ lost' = TRUE
      BY <1>3, <2>7 DEF Post
    <3>2. toSend' = << >> \/ toSend' = Tail(messages)
      BY <1>3, <2>7 DEF Post
    <3>3. CASE toSend' = << >>
      <4>1. Returned(toSend') = << >>
        BY <3>3 DEF Returned
      <4> QED BY <3>1, <4>1, NothingOnce
    <3>4. CASE toSend' = Tail(messages)
      <4>1. Returned(toSend') = Tail(q)
        BY <2>2, <3>4
      <4> QED BY <2>4, <3>1, <4>1
    <3> QED BY <3>2, <3>3, <3>4
  <2> QED BY <2>6, <2>7
<1> QED BY <1>2, <1>3

LEMMA PostSendable ==
    ASSUME TypeOK, NEW messages \in Seq(Messages), Post(messages), Sendable(messages),
           Sendable(mailbox), Sendable(toSend)
    PROVE  Sendable(mailbox') /\ Sendable(toSend')
<1>1. mailbox \in Seq(Messages) /\ toSend \in Seq(Messages)
  BY DEF TypeOK
<1>2. CASE messages = << >>
  BY <1>2 DEF Post
<1>3. CASE messages # << >>
  <2>1. Sendable(Tail(messages)) /\ Sendable(<< >>)
    BY <1>3 DEF Sendable
  <2>2. Sendable(Append(mailbox, Head(messages)))
    <3>1. Head(messages).kind \in {"closed", "resolved", "feedback", "release"}
      BY <1>3 DEF Sendable
    <3> QED BY <1>1, <3>1 DEF Sendable
  <2> QED BY <1>3, <2>1, <2>2, Zenon DEF Post
<1> QED BY <1>2, <1>3

-----------------------------------------------------------------------------
(* The reserve is what is owed.                                              *)

LEMMA OwedForm ==
    /\ ReserveIsOwed <=> \A f \in Families : Balanced(Reserved(bankroll, f), orders, Owed, f, lost)
    /\ ReserveIsOwed' <=> \A f \in Families : Balanced(Reserved(bankroll', f), orders', Owed', f, lost')
<1>1. \A f \in Families : Cost(Of(f, Owed)) = Weight(orders, Fam(orders, Owed, f))
  BY DEF Cost, Of, Weight, Units, Fam
<1>2. \A f \in Families : (Cost(Of(f, Owed)))' = Weight(orders', Fam(orders', Owed', f))
  BY DEF Cost, Of, Weight, Units, Fam
<1> QED BY <1>1, <1>2 DEF ReserveIsOwed, Balanced

LEMMA OwedTypes ==
    TypeOK => /\ Owed \in SUBSET Ids /\ orders \in [Ids -> Orders] /\ bankroll \in Bankrolls
              /\ \A f \in Families : Reserved(bankroll, f) \in Nat
<1> SUFFICES ASSUME TypeOK
             PROVE  /\ Owed \in SUBSET Ids
                    /\ \A f \in Families : Reserved(bankroll, f) \in Nat
  BY DEF TypeOK
<1>1. \A f \in Families : Reserved(bankroll, f) \in Nat
  BY DEF TypeOK, Bankrolls, Reserved
<1>2. Returning \subseteq Ids
  <2>1. /\ job \in Messages /\ mailbox \in Seq(Messages) /\ toSend \in Seq(Messages)
        /\ feedback \in Seq(Feedbacks)
    BY DEF TypeOK, Feedbacks
  <2>2. Returned(mailbox) \in Seq(SUBSET Ids) /\ Returned(toSend) \in Seq(SUBSET Ids)
    BY <2>1, ReturnedSeq
  <2>3. Released(feedback) \in Seq(SUBSET Ids)
    BY <2>1, ReleasedSeq
  <2>4. ASSUME NEW q \in Seq(SUBSET Ids) PROVE All(q) \subseteq Ids
    BY DEF All
  <2>5. Returns(job) \subseteq Ids
    BY <2>1 DEF Returns, Messages
  <2> QED BY <2>2, <2>3, <2>4, <2>5 DEF Returning
<1> QED BY <1>1, <1>2 DEF Owed, Exposed

\* A step that reserves and owes what it found.
LEMMA OwedKept ==
    ASSUME ReserveIsOwed, \A g \in Families : Reserved(bankroll', g) = Reserved(bankroll, g),
           SameCosts(orders, orders', Owed), Owed' = Owed, lost' = lost
    PROVE  ReserveIsOwed'
<1>1. ASSUME NEW f \in Families PROVE Balanced(Reserved(bankroll', f), orders', Owed', f, lost')
  <2>1. Balanced(Reserved(bankroll, f), orders, Owed, f, lost)
    BY OwedForm
  <2>2. Balanced(Reserved(bankroll, f), orders', Owed, f, lost)
    BY <2>1, BalancedSame
  <2> QED BY <2>2
<1> QED BY <1>1, OwedForm

\* A step of the main loop, which may lose a message.
LEMMA OwedPosted ==
    ASSUME TypeOK, ReserveIsOwed, bankroll' = bankroll, orders' = orders, Owed' \subseteq Owed,
           lost => lost', lost' \/ Owed' = Owed, lost' \in BOOLEAN
    PROVE  ReserveIsOwed'
<1>1. CASE lost'
  <2>1. ASSUME NEW f \in Families PROVE Balanced(Reserved(bankroll', f), orders', Owed', f, lost')
    <3>1. Balanced(Reserved(bankroll, f), orders, Owed, f, lost)
      BY OwedForm
    <3>2. Balanced(Reserved(bankroll, f), orders, Owed', f, TRUE)
      BY <3>1, OwedTypes, BalancedLost
    <3> QED BY <1>1, <3>2 DEF Balanced
  <2> QED BY <2>1, OwedForm
<1>2. CASE ~lost'
  <2>1. lost' = lost /\ Owed' = Owed /\ SameCosts(orders, orders', Owed)
    BY <1>2 DEF SameCosts, TypeOK
  <2> QED BY <2>1, OwedKept
<1> QED BY <1>1, <1>2

\* A step that gives one order its reserve back.
LEMMA OwedFreed ==
    ASSUME TypeOK, TypeOK', ReserveIsOwed, NEW i \in Owed, Owed' = Owed \ {i}, lost' = lost,
           \A j \in Ids : j # i => orders'[j] = orders[j],
           \A g \in Families : Reserved(bankroll', g) =
               IF g = orders[i].strategy THEN Positive(Reserved(bankroll, g) - orders[i].cost)
               ELSE Reserved(bankroll, g)
    PROVE  ReserveIsOwed'
<1>1. /\ Owed \in SUBSET Ids /\ orders \in [Ids -> Orders]
      /\ \A f \in Families : Reserved(bankroll, f) \in Nat
  BY OwedTypes
<1>2. orders' \in [Ids -> Orders]
  BY DEF TypeOK
<1>3. SameCosts(orders, orders', Owed \ {i})
  BY <1>1 DEF SameCosts
<1>4. ASSUME NEW f \in Families PROVE Balanced(Reserved(bankroll', f), orders', Owed', f, lost')
  <2>1. Balanced(Reserved(bankroll, f), orders, Owed, f, lost)
    BY OwedForm
  <2>2. Balanced(IF f = orders[i].strategy THEN Positive(Reserved(bankroll, f) - orders[i].cost)
                 ELSE Reserved(bankroll, f), orders', Owed \ {i}, f, lost)
    BY <1>1, <1>2, <1>3, <2>1, BalancedRelease
  <2> QED BY <2>2
<1> QED BY <1>4, OwedForm

\* A fill.
LEMMA OwedFilled ==
    ASSUME TypeOK, TypeOK', ReserveIsOwed, NEW i \in Owed, Owed' = Owed, lost' = lost,
           \A j \in Ids : j # i => orders'[j] = orders[j],
           orders'[i].strategy = orders[i].strategy, orders'[i].cost <= orders[i].cost,
           \A g \in Families : Reserved(bankroll', g) =
               IF g = orders[i].strategy
               THEN Positive(Reserved(bankroll, g) - (orders[i].cost - orders'[i].cost))
               ELSE Reserved(bankroll, g)
    PROVE  ReserveIsOwed'
<1>1. /\ Owed \in SUBSET Ids /\ orders \in [Ids -> Orders]
      /\ \A f \in Families : Reserved(bankroll, f) \in Nat
  BY OwedTypes
<1>2. orders' \in [Ids -> Orders]
  BY DEF TypeOK
<1>3. SameCosts(orders, orders', Owed \ {i})
  BY <1>1 DEF SameCosts
<1>4. ASSUME NEW f \in Families PROVE Balanced(Reserved(bankroll', f), orders', Owed', f, lost')
  <2>1. Balanced(Reserved(bankroll, f), orders, Owed, f, lost)
    BY OwedForm
  <2>2. Balanced(IF f = orders[i].strategy
                 THEN Positive(Reserved(bankroll, f) - (orders[i].cost - orders'[i].cost))
                 ELSE Reserved(bankroll, f), orders', Owed, f, lost)
    BY <1>1, <1>2, <1>3, <2>1, BalancedFill
  <2> QED BY <2>2
<1> QED BY <1>4, OwedForm

-----------------------------------------------------------------------------
(* An iteration of the worker's loop.                                        *)

\* The order in hand is an old one, and not on its way to the venue.
LEMMA InHandIsOld ==
    ASSUME TypeOK, ForgottenAreDead, LedgerInv, NEW i \in Ids, EngineStep(i)
    PROVE  /\ i \in job.ids /\ wpc = "work" /\ i < nextId /\ i \notin Outbound
           /\ job.kind \in {"closed", "resolved"} => Open(i)
           /\ job.kind = "due" => ~config.live /\ Queued(i) /\ i \notin dead
           /\ job.kind \in {"release", "undo"} => i \in dead
<1>1. /\ i \in job.ids /\ wpc = "work"
      /\ job.kind \in {"closed", "resolved", "release", "feedback", "due", "undo"}
  BY DEF EngineStep, WindowClosed, AuthoritativeResolution, ReleaseReservations, ApplyFeedback,
         ProcessDueOrder, RollbackOutput, Handles
<1>2. /\ job.kind \in {"closed", "resolved"} => Open(i)
      /\ job.kind = "due" => ~config.live /\ Queued(i) /\ i \notin dead
      /\ job.kind \in {"release", "undo"} => i \in dead
      /\ job.kind = "feedback" => fillCost[i] > 0 \/ i \in dead
  BY <1>1 DEF LedgerInv, JobInHand, OrdersInOrder, ForgottenAreDead, Truthful
<1>3. i < nextId
  <2>1. nextId \in Int /\ i \in Int /\ fillCost[i] \in Nat
    BY DecisionAssumption DEF TypeOK, Ids
  <2>2. i >= nextId => orders[i].at = "none" /\ i \notin dead /\ fillCost[i] = 0
    BY DEF LedgerInv, OrdersInOrder
  <2>3. ~(i >= nextId)
    BY <1>1, <1>2, <2>1, <2>2 DEF Open, Queued
  <2> QED BY <2>1, <2>3
<1>4. i \notin Outbound
  <2>1. i \in Outbound => Queued(i) /\ i \notin dead /\ fillCost[i] = 0
    BY DEF LedgerInv, OutboundOnce
  <2>2. ~config.live => Outbound = {}
    <3>1. ~config.live => All(outputs) = {} /\ All(submitted) = {}
      BY NothingOnce DEF LedgerInv, OrdersInOrder
    <3>2. draft = {}
      BY <1>1 DEF LedgerInv, OutboundOnce
    <3> QED BY <3>1, <3>2 DEF Outbound
  <2>3. fillCost[i] \in Nat
    BY DEF TypeOK
  <2> QED BY <1>1, <1>2, <2>1, <2>2, <2>3 DEF Open, Queued
<1> QED BY <1>1, <1>2, <1>3, <1>4

\* What an iteration leaves of its order.
Settles(i) ==
    /\ \A j \in Ids : j # i => orders'[j] = orders[j]
    /\ dead \subseteq dead' /\ dead' \subseteq dead \cup {i}
    /\ \/ orders'[i] = orders[i] /\ dead' = dead
       \/ orders'[i].at = "removed"
       \/ orders'[i].at \in {"open", "settling"} /\ i \notin dead'

LEMMA LedgerEngine ==
    ASSUME TypeOK, ForgottenAreDead, LedgerInv, NEW i \in Ids, EngineStep(i), Settles(i),
           ReserveIsOwed'
    PROVE  LedgerInv'
<1>1. /\ i \in job.ids /\ wpc = "work" /\ i < nextId /\ i \notin Outbound
  BY InHandIsOld
<1>2. Done(i)
  BY DEF EngineStep, WindowClosed, AuthoritativeResolution, ReleaseReservations, ApplyFeedback,
         ProcessDueOrder, RollbackOutput
<1>3. /\ UNCHANGED << nextId, wpc, draft, mailbox, toSend, outputs, submitted, feedback,
                      config, fillCost >>
      /\ job' = [job EXCEPT !.ids = job.ids \ {i}]
  BY <1>2 DEF Done, channels
<1>4. /\ job'.kind = job.kind /\ job'.ids = job.ids \ {i}
  BY <1>3 DEF TypeOK, Messages
<1>5. Returns(job') \subseteq Returns(job)
  BY <1>4 DEF Returns
<1>6. Outbound' = Outbound /\ Outbound \subseteq Ids
  <2>1. Outbound' = Outbound
    BY <1>3 DEF Outbound
  <2>2. draft \subseteq Ids /\ outputs \in Seq(SUBSET Ids) /\ submitted \in Seq(SUBSET Ids)
    BY DEF TypeOK
  <2> QED BY <2>1, <2>2 DEF Outbound, All
<1>7. OutboundOnce'
  <2>1. \A j \in Outbound : (Queued(j))' /\ j \notin dead' /\ fillCost'[j] = 0
    BY <1>1, <1>3, <1>6 DEF LedgerInv, OutboundOnce, Settles, Queued
  <2> QED BY <1>3, <1>6, <2>1 DEF LedgerInv, OutboundOnce
<1>8. ReturningOnce'
  <2>1. Returned(mailbox)' = Returned(mailbox) /\ Returned(toSend)' = Returned(toSend)
        /\ Released(feedback)' = Released(feedback)
    BY <1>3
  <2>2. Returning' \subseteq Returning /\ Returning \subseteq dead /\ dead \subseteq dead'
    BY <1>5, <2>1 DEF Returning, LedgerInv, ReturningOnce, Settles
  <2> QED BY <1>5, <2>1, <2>2 DEF LedgerInv, ReturningOnce
<1>9. JobInHand'
  <2>1. \A j \in job'.ids : j \in job.ids /\ j # i /\ j \in Ids
    BY <1>4 DEF TypeOK, Messages
  <2> QED BY <1>1, <1>3, <1>4, <2>1 DEF LedgerInv, JobInHand, Settles, Open, Queued
<1>10. OrdersInOrder'
  <2>1. nextId \in Int /\ i \in Int
    BY DecisionAssumption DEF TypeOK, Ids
  <2>2. ~(i >= nextId)
    BY <1>1, <2>1
  <2>3. OrdersInOrder
    BY DEF LedgerInv
  <2>4. ASSUME NEW j \in Ids
        PROVE  /\ j >= nextId' => orders'[j].at = "none" /\ j \notin dead' /\ fillCost'[j] = 0
               /\ (Open(j))' => j \notin dead'
               /\ (Queued(j) /\ fillCost[j] > 0)' => j \notin dead' /\ fillCost'[j] <= orders'[j].cost
               /\ ~config'.live => ((Queued(j))' => j \notin dead')
    <3>1. CASE j # i
      BY <1>3, <2>3, <3>1 DEF OrdersInOrder, Settles, Open, Queued
    <3>2. CASE j = i
      BY <1>3, <2>2, <2>3, <3>2 DEF OrdersInOrder, Settles, Open, Queued
    <3> QED BY <3>1, <3>2
  <2>5. ~config'.live => outputs' = << >> /\ submitted' = << >>
    BY <1>3, <2>3 DEF OrdersInOrder
  <2> QED BY <2>4, <2>5 DEF OrdersInOrder, Open, Queued
<1> QED BY <1>7, <1>8, <1>9, <1>10 DEF LedgerInv

\* An order that is closed, missed, rolled back or released is owed no more;
\* one that fills is owed what it cost.
LEMMA EngineSettles ==
    ASSUME TypeOK, TypeOK', ForgottenAreDead, Sound(bankroll), LedgerInv, NEW i \in Ids, EngineStep(i)
    PROVE  Settles(i) /\ ReserveIsOwed'
<1>1. /\ i \in job.ids /\ wpc = "work" /\ i < nextId /\ i \notin Outbound
      /\ job.kind \in {"closed", "resolved"} => Open(i)
      /\ job.kind = "due" => ~config.live /\ Queued(i) /\ i \notin dead
      /\ job.kind \in {"release", "undo"} => i \in dead
  BY InHandIsOld
<1>2. Done(i)
  BY DEF EngineStep, WindowClosed, AuthoritativeResolution, ReleaseReservations, ApplyFeedback,
         ProcessDueOrder, RollbackOutput
<1>3. /\ UNCHANGED << mailbox, toSend, feedback, fillCost, lost >>
      /\ job' = [job EXCEPT !.ids = job.ids \ {i}]
  BY <1>2 DEF Done, channels
<1>4. /\ job'.kind = job.kind /\ job'.ids = job.ids \ {i}
      /\ job \in Messages /\ orders \in [Ids -> Orders] /\ orders[i] \in Orders /\ fillCost[i] \in Nat
  BY <1>3 DEF TypeOK, Messages
<1>5. /\ Returned(mailbox)' = Returned(mailbox) /\ Returned(toSend)' = Returned(toSend)
      /\ Released(feedback)' = Released(feedback) /\ lost' = lost
  BY <1>3
<1>6. /\ orders[i].strategy \in Families /\ orders[i].cost \in Nat
      /\ bankroll \in Bankrolls /\ Consistent(bankroll)
  BY <1>4 DEF Orders, TypeOK, Sound
<1>7. /\ ReserveIsOwed /\ ReturningOnce /\ OrdersInOrder /\ Returning \subseteq dead
  BY DEF LedgerInv, ReturningOnce
<1>8. job.kind \notin {"release", "undo"} => Returning' = Returning
  BY <1>4, <1>5 DEF Returning, Returns
<1>9. job.kind \in {"release", "undo"} => Returning' = Returning \ {i} /\ i \in Returning
  BY <1>1, <1>4, <1>5, <1>7 DEF Returning, Returns, ReturningOnce
<1>10. ASSUME NEW amount \in Nat, bankroll' = Release(bankroll, orders[i].strategy, amount)
       PROVE  \A g \in Families : Reserved(bankroll', g) =
                IF g = orders[i].strategy THEN Positive(Reserved(bankroll, g) - amount)
                ELSE Reserved(bankroll, g)
  BY <1>6, <1>10, ReleaseBuckets
<1>11. Forget(i) => /\ \A j \in Ids : j # i => orders'[j] = orders[j]
                    /\ orders'[i].at = "removed"
  BY <1>4 DEF Forget, NoOrder
<1>12. ASSUME NEW at, Leave(i, at)
       PROVE  /\ \A j \in Ids : j # i => orders'[j] = orders[j]
              /\ orders'[i].at = at /\ orders'[i].strategy = orders[i].strategy
              /\ orders'[i].cost = orders[i].cost
  BY <1>4, <1>12 DEF Leave, Orders
<1>13. ASSUME bankroll' = bankroll, orders' = orders, dead' = dead,
              job.kind \notin {"release", "undo"}
       PROVE  Settles(i) /\ ReserveIsOwed'
  <2>1. Owed' = Owed /\ SameCosts(orders, orders', Owed)
    BY <1>8, <1>13 DEF Owed, Exposed, SameCosts
  <2>2. ReserveIsOwed'
    BY <1>5, <1>7, <1>13, <2>1, OwedKept
  <2> QED BY <1>13, <2>2 DEF Settles
<1>14. ASSUME NEW cost \in Nat, Fill(i, cost), cost <= orders[i].cost, Queued(i), i \notin dead,
              dead' = dead, job.kind \notin {"release", "undo"}
       PROVE  Settles(i) /\ ReserveIsOwed'
  <2>1. /\ \A j \in Ids : j # i => orders'[j] = orders[j]
        /\ orders'[i].strategy = orders[i].strategy /\ orders'[i].at = "open"
        /\ orders'[i].cost = cost
    BY <1>4, <1>14 DEF Fill, Orders
  <2>2. i \in Owed /\ Owed' = Owed
    BY <1>8, <1>14, <2>1 DEF Owed, Exposed, Queued
  <2>3. Positive(orders[i].cost - cost) = orders[i].cost - cost /\ orders[i].cost - cost \in Nat
    BY <1>6, <1>14 DEF Positive
  <2>4. bankroll' = Release(bankroll, orders[i].strategy, orders[i].cost - cost)
    BY <1>14, <2>3 DEF Fill
  <2>5. \A g \in Families : Reserved(bankroll', g) =
           IF g = orders[i].strategy
           THEN Positive(Reserved(bankroll, g) - (orders[i].cost - orders'[i].cost))
           ELSE Reserved(bankroll, g)
    BY <1>10, <2>1, <2>3, <2>4
  <2>6. ReserveIsOwed'
    BY <1>5, <1>7, <1>14, <2>1, <2>2, <2>5, OwedFilled
  <2> QED BY <1>14, <2>1, <2>6 DEF Settles
<1>15. ASSUME Forget(i) \/ (orders' = orders /\ dead' = dead), i \in Owed, Owed' = Owed \ {i},
              dead \subseteq dead', dead' \subseteq dead \cup {i},
              \A g \in Families : Reserved(bankroll', g) =
                IF g = orders[i].strategy THEN Positive(Reserved(bankroll, g) - orders[i].cost)
                ELSE Reserved(bankroll, g)
       PROVE  Settles(i) /\ ReserveIsOwed'
  <2>1. \A j \in Ids : j # i => orders'[j] = orders[j]
    BY <1>11, <1>15
  <2>2. ReserveIsOwed'
    BY <1>5, <1>7, <1>15, <2>1, OwedFreed
  <2> QED BY <1>11, <1>15, <2>1, <2>2 DEF Settles
<1>16. CASE WindowClosed(i)
  <2>1. job.kind = "closed" /\ Open(i) /\ i \notin dead /\ dead' = dead
    BY <1>1, <1>7, <1>16 DEF WindowClosed, Handles, OrdersInOrder
  <2>2. CASE orders[i].at = "open"
    <3>1. Leave(i, "settling") /\ bankroll' = ToPending(bankroll, orders[i].strategy, orders[i].cost)
      BY <1>16, <2>2 DEF WindowClosed
    <3>2. \A g \in Families : Reserved(bankroll', g) = Reserved(bankroll, g)
      BY <1>6, <3>1, ToPendingBuckets
    <3>3. /\ \A j \in Ids : j # i => orders'[j] = orders[j]
          /\ orders'[i].at = "settling" /\ orders'[i].strategy = orders[i].strategy
          /\ orders'[i].cost = orders[i].cost
      BY <1>12, <3>1
    <3>4. Owed' = Owed /\ Owed \in SUBSET Ids
      BY <1>8, <2>1, <2>2, <3>3, OwedTypes DEF Owed, Exposed
    <3>5. SameCosts(orders, orders', Owed)
      BY <3>3, <3>4 DEF SameCosts
    <3>6. ReserveIsOwed'
      BY <1>5, <1>7, <3>2, <3>4, <3>5, OwedKept
    <3> QED BY <2>1, <3>3, <3>6 DEF Settles
  <2>3. CASE orders[i].at # "open"
    <3>1. bankroll' = bankroll /\ orders' = orders
      BY <1>16, <2>3 DEF WindowClosed
    <3> QED BY <1>13, <2>1, <3>1
  <2> QED BY <2>2, <2>3
<1>17. CASE AuthoritativeResolution(i)
  <2> DEFINE payout == IF orders[i].side = job.outcome THEN 2 * orders[i].cost ELSE 0
  <2>1. job.kind = "resolved" /\ Open(i) /\ i \notin dead /\ dead' = dead \cup {i} /\ Forget(i)
    BY <1>1, <1>7, <1>17 DEF AuthoritativeResolution, Handles, OrdersInOrder
  <2>2. bankroll' = ApplyTradeResult(bankroll, orders[i].strategy, orders[i].cost, payout, Fee)
    BY <1>17 DEF AuthoritativeResolution
  <2>3. payout \in Nat /\ Fee \in Nat
    BY <1>6, DecisionAssumption
  <2>4. Release(bankroll, orders[i].strategy, orders[i].cost) \in Bankrolls
    BY <1>6, ReleaseFact DEF Consistent
  <2>5. \A g \in Families : Reserved(bankroll', g) =
           IF g = orders[i].strategy THEN Positive(Reserved(bankroll, g) - orders[i].cost)
           ELSE Reserved(bankroll, g)
    <3> HIDE DEF payout
    <3> QED BY <1>6, <2>2, <2>3, <2>4, TradeResultBuckets
  <2>6. i \in Owed /\ Owed' = Owed \ {i}
    BY <1>7, <1>8, <1>11, <2>1 DEF Owed, Exposed, Open
  <2> QED BY <1>15, <2>1, <2>5, <2>6
<1>18. CASE ReleaseReservations(i)
  <2>1. job.kind = "release" /\ i \in dead /\ dead' = dead /\ (Forget(i) \/ orders' = orders)
    BY <1>1, <1>18 DEF ReleaseReservations, Handles
  <2>2. i \in Owed /\ Owed' = Owed \ {i}
    <3>1. Exposed' = Exposed /\ i \notin Exposed
      BY <1>11, <2>1 DEF Exposed
    <3> QED BY <1>9, <2>1, <3>1 DEF Owed
  <2>3. bankroll' = Release(bankroll, orders[i].strategy, orders[i].cost)
    BY <1>18 DEF ReleaseReservations
  <2> QED BY <1>6, <1>10, <1>15, <2>1, <2>2, <2>3
<1>19. CASE ApplyFeedback(i)
  <2>1. job.kind = "feedback" /\ dead' = dead
    BY <1>19 DEF ApplyFeedback, Handles
  <2>2. CASE ~Queued(i)
    <3>1. bankroll' = bankroll /\ orders' = orders
      BY <1>19, <2>2 DEF ApplyFeedback
    <3> QED BY <1>13, <2>1, <3>1
  <2>3. CASE Queued(i) /\ fillCost[i] > 0
    <3>1. Fill(i, fillCost[i])
      BY <1>19, <2>3 DEF ApplyFeedback
    <3>2. i \notin dead /\ fillCost[i] <= orders[i].cost
      BY <1>7, <2>3 DEF OrdersInOrder
    <3> QED BY <1>4, <1>14, <2>1, <2>3, <3>1, <3>2
  <2>4. CASE Queued(i) /\ ~(fillCost[i] > 0)
    <3>1. Leave(i, "removed") /\ bankroll' = bankroll
      BY <1>19, <2>4 DEF ApplyFeedback
    <3>2. /\ \A j \in Ids : j # i => orders'[j] = orders[j]
          /\ orders'[i].at = "removed" /\ orders'[i].strategy = orders[i].strategy
          /\ orders'[i].cost = orders[i].cost
      BY <1>12, <3>1
    <3>3. Owed' = Owed /\ Owed \in SUBSET Ids
      BY <1>8, <2>1, <2>4, <3>2, OwedTypes DEF Owed, Exposed, Queued
    <3>4. SameCosts(orders, orders', Owed)
      BY <3>2, <3>3 DEF SameCosts
    <3>5. ReserveIsOwed'
      BY <1>5, <1>7, <3>1, <3>3, <3>4, OwedKept
    <3> QED BY <2>1, <3>2, <3>5 DEF Settles
  <2> QED BY <2>2, <2>3, <2>4
<1>20. CASE ProcessDueOrder(i)
  <2>1. job.kind = "due" /\ Queued(i) /\ i \notin dead
    BY <1>1, <1>20 DEF ProcessDueOrder, Handles
  <2>2. CASE UNCHANGED << bankroll, orders, dead >>
    BY <1>13, <2>1, <2>2
  <2>3. CASE /\ bankroll' = Release(bankroll, orders[i].strategy, orders[i].cost)
             /\ Forget(i) /\ dead' = dead \cup {i}
    <3>1. i \in Owed /\ Owed' = Owed \ {i}
      BY <1>7, <1>8, <1>11, <2>1, <2>3 DEF Owed, Exposed, Queued
    <3> QED BY <1>6, <1>10, <1>15, <2>3, <3>1
  <2>4. CASE (\E cost \in 1..orders[i].cost : Fill(i, cost)) /\ dead' = dead
    <3>1. PICK cost \in 1..orders[i].cost : Fill(i, cost)
      BY <2>4
    <3>2. cost \in Nat /\ cost <= orders[i].cost
      BY <1>6
    <3> QED BY <1>14, <2>1, <2>4, <3>1, <3>2
  <2> QED BY <1>20, <2>2, <2>3, <2>4, Zenon DEF ProcessDueOrder
<1>21. CASE RollbackOutput(i)
  <2>1. job.kind = "undo" /\ i \in dead /\ dead' = dead /\ Forget(i)
    BY <1>1, <1>21 DEF RollbackOutput, Handles
  <2>2. i \in Owed /\ Owed' = Owed \ {i}
    <3>1. Exposed' = Exposed /\ i \notin Exposed
      BY <1>11, <2>1 DEF Exposed
    <3> QED BY <1>9, <2>1, <3>1 DEF Owed
  <2>3. bankroll' = Release(bankroll, orders[i].strategy, orders[i].cost)
    BY <1>21 DEF RollbackOutput
  <2> QED BY <1>6, <1>10, <1>15, <2>1, <2>2, <2>3
<1> QED BY <1>16, <1>17, <1>18, <1>19, <1>20, <1>21 DEF EngineStep

-----------------------------------------------------------------------------
(* The worker's own steps.                                                   *)

LEMMA JobGivesNothing ==
    ASSUME LedgerInv, wpc # "work"
    PROVE  Returns(job) = {}
  BY DEF LedgerInv, JobInHand, Returns

LEMMA LedgerReceive ==
    ASSUME TypeOK, LedgerInv, ReceiveMessage
    PROVE  LedgerInv'
<1> DEFINE msg == Head(mailbox)
           q == Returned(mailbox)
<1>1. /\ mailbox \in Seq(Messages) /\ mailbox # << >> /\ wpc = "drain" /\ wpc' = "work"
      /\ mailbox' = Tail(mailbox)
      /\ job' = IF msg.kind \in {"feedback", "release"} THEN msg
                ELSE [msg EXCEPT !.ids = {i \in Ids : Open(i) /\ orders[i].market = msg.market}]
      /\ UNCHANGED << bankroll, orders, nextId, draft, outputs, toSend, submitted, feedback,
                      config, fillCost, dead, lost >>
  BY DEF ReceiveMessage, TypeOK, engine, world
<1>2. msg \in Messages /\ Tail(mailbox) \in Seq(Messages)
  BY <1>1, HeadTail
<1>3. /\ q \in Seq(SUBSET Ids) /\ q # << >>
      /\ Returned(mailbox') = Tail(q) /\ Head(q) = Returns(msg)
  BY <1>1, ReturnedSeq
<1>4. Once(q)
  BY DEF LedgerInv, ReturningOnce
<1>5. /\ Once(Tail(q)) /\ All(q) = Returns(msg) \cup All(Tail(q))
      /\ Returns(msg) \cap All(Tail(q)) = {}
  <2> HIDE DEF q, msg
  <2> QED BY <1>3, <1>4, TailOnce
<1>6. msg.kind \in {"closed", "resolved", "feedback", "release"} /\ Sendable(Tail(mailbox))
  BY <1>1 DEF LedgerInv, JobInHand, Sendable
<1>7. job'.kind = msg.kind /\ Returns(job') = Returns(msg)
  BY <1>1, <1>2, <1>6 DEF Returns, Messages
<1>8. msg.kind \in {"closed", "resolved"} => \A i \in job'.ids : Open(i)
  BY <1>1, <1>2 DEF Messages
<1>9. Returns(job) = {}
  BY <1>1, JobGivesNothing
<1>10. /\ Returned(toSend') = Returned(toSend) /\ Released(feedback') = Released(feedback)
       /\ All(Returned(mailbox')) = All(Tail(q)) /\ All(Returned(mailbox)) = All(q)
  BY <1>1, <1>3
<1>11. Returning' = Returning
  <2> HIDE DEF q, msg
  <2> QED BY <1>5, <1>7, <1>9, <1>10 DEF Returning
<1>12. ReturningOnce'
  <2>1. Once(Returned(mailbox'))
    BY <1>3, <1>5
  <2> HIDE DEF q, msg
  <2> QED BY <1>1, <1>5, <1>7, <1>9, <1>10, <1>11, <2>1 DEF LedgerInv, ReturningOnce
<1>13. OutboundOnce'
  BY <1>1 DEF LedgerInv, OutboundOnce, Outbound, Queued
<1>14. OrdersInOrder'
  BY <1>1 DEF LedgerInv, OrdersInOrder, Open, Queued
<1>15. JobInHand'
  <2>1. Sendable(mailbox') /\ Sendable(toSend')
    BY <1>1, <1>6 DEF LedgerInv, JobInHand
  <2> HIDE DEF msg
  <2> QED BY <1>1, <1>6, <1>7, <1>8, <2>1 DEF JobInHand, Open
<1>16. ReserveIsOwed'
  <2>1. Owed' = Owed
    BY <1>1, <1>11 DEF Owed, Exposed
  <2> QED BY <1>1, <2>1, OwedPosted DEF LedgerInv, TypeOK
<1> QED BY <1>12, <1>13, <1>14, <1>15, <1>16 DEF LedgerInv

LEMMA LedgerIdle ==
    ASSUME TypeOK, LedgerInv, MailboxEmpty \/ TakeRequest \/ FinishJob
    PROVE  LedgerInv'
<1>1. /\ UNCHANGED << bankroll, orders, nextId, draft, mailbox, outputs, toSend, submitted, feedback,
                      config, fillCost, dead, lost >>
  BY DEF MailboxEmpty, TakeRequest, FinishJob, engine, channels, world
<1>2. wpc # "decide" /\ Returns(job) = {}
  <2>1. wpc # "decide" /\ (wpc = "work" => job.ids = {})
    BY DEF MailboxEmpty, TakeRequest, FinishJob
  <2> QED BY <2>1, JobGivesNothing DEF Returns
<1>3. /\ Returns(job') = {} /\ (wpc' # "work" => job'.ids = {})
      /\ job'.kind \in {"closed", "resolved"} => \A i \in job'.ids : Open(i)
      /\ job'.kind = "due" => ~config.live /\ \A i \in job'.ids : Queued(i)
  <2>1. CASE job' = job /\ wpc # "work" /\ wpc' # "work"
    BY <1>2, <2>1 DEF LedgerInv, JobInHand
  <2>2. CASE job' = NoJob
    BY <2>2 DEF NoJob, Returns
  <2>3. CASE job' = Message("due", {i \in Ids : Queued(i)}, FALSE) /\ ~config.live /\ wpc' = "work"
    BY <2>3 DEF Message, NoJob, Returns
  <2> QED BY <2>1, <2>2, <2>3, Zenon DEF MailboxEmpty, TakeRequest, FinishJob
<1>4. Returning' = Returning
  BY <1>1, <1>2, <1>3 DEF Returning
<1>5. draft = {} /\ draft' = {}
  BY <1>1, <1>2 DEF LedgerInv, OutboundOnce
<1>6. ReturningOnce' /\ OutboundOnce' /\ OrdersInOrder'
  <2>1. ReturningOnce'
    BY <1>1, <1>2, <1>3, <1>4 DEF LedgerInv, ReturningOnce
  <2>2. OutboundOnce'
    BY <1>1, <1>5 DEF LedgerInv, OutboundOnce, Outbound, Queued
  <2>3. OrdersInOrder'
    BY <1>1 DEF LedgerInv, OrdersInOrder, Open, Queued
  <2> QED BY <2>1, <2>2, <2>3
<1>7. JobInHand'
  BY <1>1, <1>3 DEF LedgerInv, JobInHand, Open, Queued
<1>8. ReserveIsOwed'
  <2>1. Owed' = Owed
    BY <1>1, <1>4 DEF Owed, Exposed
  <2> QED BY <1>1, <2>1, OwedPosted DEF LedgerInv, TypeOK
<1> QED BY <1>6, <1>7, <1>8 DEF LedgerInv

\* The end of an evaluation: its orders go out, or are taken back.
LEMMA LedgerForward ==
    ASSUME TypeOK, LedgerInv, ForwardDecision
    PROVE  LedgerInv'
<1> DEFINE live == IF config.live THEN draft ELSE {}
<1>1. /\ wpc = "decide" /\ draft' = {}
      /\ UNCHANGED << bankroll, orders, nextId, mailbox, toSend, submitted, feedback,
                      config, fillCost, lost >>
      /\ draft \in SUBSET Ids /\ outputs \in Seq(SUBSET Ids)
  BY DEF ForwardDecision, engine, TypeOK
<1>2. Returns(job) = {} /\ job.ids = {}
  BY <1>1, JobGivesNothing DEF LedgerInv, JobInHand
<1>3. /\ Returned(mailbox)' = Returned(mailbox) /\ Returned(toSend)' = Returned(toSend)
      /\ Released(feedback)' = Released(feedback)
  BY <1>1
<1>4. live \in SUBSET draft
  OBVIOUS
<1>5. CASE /\ outputs' = IF live = {} THEN outputs ELSE Append(outputs, live)
           /\ wpc' = "drain" /\ UNCHANGED << job, outputDropped, dead >>
  <2>1. /\ Once(outputs') /\ All(outputs') = All(outputs) \cup live
    <3>1. Once(outputs) /\ live \cap All(outputs) = {}
      BY DEF LedgerInv, OutboundOnce
    <3>2. CASE live = {}
      BY <1>5, <3>1, <3>2
    <3>3. CASE live # {}
      <4>1. outputs' = Append(outputs, live) /\ live \in SUBSET Ids
        BY <1>1, <1>5, <3>3
      <4> HIDE DEF live
      <4> QED BY <1>1, <3>1, <4>1, AppendOnce
    <3> QED BY <3>2, <3>3
  <2>2. OutboundOnce'
    <3> HIDE DEF live
    <3>1. Outbound' \subseteq Outbound
      BY <1>1, <1>4, <2>1 DEF Outbound
    <3>2. \A i \in Outbound' : (Queued(i))' /\ i \notin dead' /\ fillCost'[i] = 0
      BY <1>1, <1>5, <3>1 DEF LedgerInv, OutboundOnce, Queued
    <3> QED BY <1>1, <1>4, <2>1, <3>2 DEF LedgerInv, OutboundOnce
  <2>3. ReturningOnce' /\ Returning' = Returning
    <3>1. Returns(job') = Returns(job)
      BY <1>5
    <3> QED BY <1>3, <1>5, <3>1 DEF LedgerInv, ReturningOnce, Returning
  <2>4. JobInHand'
    BY <1>1, <1>2, <1>5 DEF LedgerInv, JobInHand, Open, Queued
  <2>5. OrdersInOrder'
    <3>1. ~config.live => outputs' = outputs
      BY <1>5
    <3> QED BY <1>1, <1>5, <3>1 DEF LedgerInv, OrdersInOrder, Open, Queued
  <2>6. ReserveIsOwed'
    <3>1. Owed' = Owed
      BY <1>1, <1>5, <2>3 DEF Owed, Exposed
    <3> QED BY <1>1, <3>1, OwedPosted DEF LedgerInv, TypeOK
  <2> QED BY <2>2, <2>3, <2>4, <2>5, <2>6 DEF LedgerInv
<1>6. CASE /\ job' = Message("undo", live, FALSE) /\ wpc' = "work" /\ dead' = dead \cup live
           /\ outputs' = outputs
  <2>1. \A i \in live : i \in Ids /\ Queued(i) /\ i \notin dead /\ fillCost[i] = 0
                        /\ i \notin All(outputs) /\ i \notin All(submitted)
    BY <1>1, <1>4 DEF LedgerInv, OutboundOnce, Outbound
  <2>2. Returns(job') = live /\ job'.kind = "undo"
    BY <1>6 DEF Message, NoJob, Returns
  <2>3. ~config.live => live = {}
    OBVIOUS
  <2> HIDE DEF live
  <2>4. OutboundOnce'
    <3>1. Outbound' \subseteq Outbound /\ Outbound' \cap live = {}
      BY <1>1, <1>6, <2>1 DEF Outbound
    <3>2. \A i \in Outbound' : (Queued(i))' /\ i \notin dead' /\ fillCost'[i] = 0
      BY <1>1, <1>6, <3>1 DEF LedgerInv, OutboundOnce, Queued
    <3> QED BY <1>1, <1>6, <3>2 DEF LedgerInv, OutboundOnce
  <2>5. Returning' = Returning \cup live
    BY <1>2, <1>3, <2>2 DEF Returning
  <2>6. ReturningOnce'
    <3>1. live \cap Returning = {} /\ Returning \subseteq dead
      BY <2>1 DEF LedgerInv, ReturningOnce
    <3> QED BY <1>3, <1>6, <2>2, <2>5, <3>1 DEF LedgerInv, ReturningOnce, Returning
  <2>7. JobInHand'
    BY <1>1, <1>6, <2>2 DEF LedgerInv, JobInHand
  <2>8. OrdersInOrder'
    <3>1. \A i \in Ids : i >= nextId \/ Open(i) \/ (Queued(i) /\ fillCost[i] > 0) => i \notin live
      BY <2>1 DEF LedgerInv, OrdersInOrder, Open, Queued
    <3> QED BY <1>1, <1>6, <2>3, <3>1 DEF LedgerInv, OrdersInOrder, Open, Queued
  <2>9. ReserveIsOwed'
    <3>1. live \subseteq Exposed
      BY <2>1 DEF Exposed, Queued
    <3>2. Exposed' = Exposed \ live
      BY <1>1, <1>6 DEF Exposed
    <3>3. Owed' = Owed
      BY <2>5, <3>1, <3>2 DEF Owed
    <3> QED BY <1>1, <3>3, OwedPosted DEF LedgerInv, TypeOK
  <2> QED BY <2>4, <2>6, <2>7, <2>8, <2>9 DEF LedgerInv
<1> QED BY <1>5, <1>6, Zenon DEF ForwardDecision

-----------------------------------------------------------------------------
(* New orders.                                                               *)

\* The orders from nextId on are nowhere.
LEMMA FreshIsNowhere ==
    ASSUME TypeOK, LedgerInv, NEW i \in Ids, i >= nextId
    PROVE  /\ i \notin Outbound /\ i \notin Owed /\ i \notin dead
           /\ orders[i].at = "none" /\ fillCost[i] = 0
<1>1. orders[i].at = "none" /\ i \notin dead /\ fillCost[i] = 0
  BY DEF LedgerInv, OrdersInOrder
<1>2. i \notin Outbound
  BY <1>1 DEF LedgerInv, OutboundOnce, Queued
<1>3. i \notin Owed
  BY <1>1 DEF LedgerInv, ReturningOnce, Owed, Exposed
<1> QED BY <1>1, <1>2, <1>3

\* What a decision leaves alone, if its orders N are new and queued.
LEMMA LedgerDecided ==
    ASSUME TypeOK, TypeOK', LedgerInv, NEW N \in SUBSET Ids, wpc = "decide",
           \A i \in N : i >= nextId /\ i < nextId' /\ orders'[i].at = "queued",
           \A i \in Ids \ N : orders'[i] = orders[i],
           draft' = draft \cup N, nextId' >= nextId,
           UNCHANGED << wpc, job, mailbox, outputs, toSend, submitted, feedback,
                        config, fillCost, dead, lost >>,
           ReserveIsOwed'
    PROVE  LedgerInv'
<1>1. \A i \in N : i \notin Outbound /\ i \notin dead /\ fillCost[i] = 0 /\ orders[i].at = "none"
  BY FreshIsNowhere
<1>2. /\ nextId \in Int /\ nextId' \in Int /\ \A i \in Ids : i \in Int
  BY DecisionAssumption DEF TypeOK, Ids
<1>3. OutboundOnce'
  <2>1. Outbound' = Outbound \cup N
    BY DEF Outbound
  <2>2. Outbound \subseteq Ids
    BY DEF Outbound, TypeOK, All
  <2>3. \A i \in Outbound' : (Queued(i))' /\ i \notin dead' /\ fillCost'[i] = 0
    BY <1>1, <2>1, <2>2 DEF LedgerInv, OutboundOnce, Queued
  <2>4. N \cap All(outputs) = {} /\ N \cap All(submitted) = {}
    BY <1>1 DEF Outbound
  <2> QED BY <2>3, <2>4 DEF LedgerInv, OutboundOnce
<1>4. ReturningOnce' /\ Returning' = Returning
  BY DEF LedgerInv, ReturningOnce, Returning, Returned, Released, Returns
<1>5. job.ids = {}
  BY DEF LedgerInv, JobInHand
<1>6. JobInHand'
  BY <1>5 DEF LedgerInv, JobInHand
<1>7. OrdersInOrder'
  <2> SUFFICES /\ \A i \in Ids : /\ i >= nextId' => orders'[i].at = "none" /\ i \notin dead /\ fillCost[i] = 0
                                 /\ (Open(i))' => i \notin dead
                                 /\ (Queued(i))' /\ fillCost[i] > 0 => i \notin dead /\ fillCost[i] <= orders'[i].cost
                                 /\ ~config.live => ((Queued(i))' => i \notin dead)
               /\ ~config.live => outputs = << >> /\ submitted = << >>
    BY DEF OrdersInOrder, Open, Queued
  <2>1. ~config.live => outputs = << >> /\ submitted = << >>
    BY DEF LedgerInv, OrdersInOrder
  <2>2. ASSUME NEW i \in N
        PROVE  /\ ~(i >= nextId') /\ i \notin dead /\ ~(fillCost[i] > 0)
    BY <1>1, <1>2
  <2>3. ASSUME NEW i \in Ids \ N
        PROVE  /\ i >= nextId' => orders'[i].at = "none" /\ i \notin dead /\ fillCost[i] = 0
               /\ (Open(i))' => i \notin dead
               /\ (Queued(i))' /\ fillCost[i] > 0 => i \notin dead /\ fillCost[i] <= orders'[i].cost
               /\ ~config.live => ((Queued(i))' => i \notin dead)
    BY <1>2 DEF LedgerInv, OrdersInOrder, Open, Queued
  <2> QED BY <2>1, <2>2, <2>3
<1> QED BY <1>3, <1>4, <1>6, <1>7 DEF LedgerInv

LEMMA LedgerSubmit ==
    ASSUME TypeOK, TypeOK', LedgerInv, NEW f \in Strategies, SubmitSingle(f) \/ SubmitSpread(f)
    PROVE  LedgerInv'
<1>1. /\ UNCHANGED << wpc, job, mailbox, outputs, toSend, submitted, feedback,
                      config, fillCost, dead, lost >>
      /\ wpc = "decide"
  BY DEF SubmitSingle, SubmitSpread, Decided, channels, world
<1>2. /\ orders \in [Ids -> Orders] /\ orders' \in [Ids -> Orders] /\ bankroll \in Bankrolls
      /\ Owed \in SUBSET Ids /\ f \in Families
      /\ \A g \in Families : Reserved(bankroll, g) \in Nat
  BY OwedTypes, DecisionAssumption DEF TypeOK
<1>3. nextId \in Nat /\ MaxOrders \in Nat /\ MaxPosition \in Nat
  BY DecisionAssumption, BankrollAssumption DEF TypeOK
<1>4. Returning' = Returning
  BY <1>1 DEF Returning
<1>5. \A g \in Families : Balanced(Reserved(bankroll, g), orders, Owed, g, lost)
  BY OwedForm DEF LedgerInv
<1>6. CASE SubmitSingle(f)
  <2>1. PICK m \in request, side \in Directions, cost \in SingleCosts :
             /\ bankroll' = AddReserved(bankroll, f, cost)
             /\ orders' = [orders EXCEPT ![nextId] = Order(f, m, side, cost)]
    BY <1>6, Zenon DEF SubmitSingle
  <2>2. nextId \in Ids /\ nextId' = nextId + 1 /\ draft' = draft \cup nextId..(nextId + 1 - 1)
    BY <1>3, <1>6 DEF SubmitSingle, Decided, Ids, TypeOK
  <2>3. draft' = draft \cup {nextId}
    BY <1>3, <2>2
  <2>4. /\ orders'[nextId] = Order(f, m, side, cost)
        /\ \A i \in Ids \ {nextId} : orders'[i] = orders[i]
    BY <1>2, <2>1, <2>2
  <2>5. /\ orders'[nextId].at = "queued" /\ orders'[nextId].strategy = f
        /\ orders'[nextId].cost = cost /\ cost \in Nat
    BY <2>4, DecisionAssumption DEF Order
  <2>6. nextId \notin Owed /\ nextId \notin dead
    BY <1>3, <2>2, FreshIsNowhere
  <2>7. Owed' = Owed \cup {nextId}
    <3>1. Exposed' = Exposed \cup {nextId}
      BY <1>1, <2>2, <2>4, <2>5, <2>6 DEF Exposed
    <3> QED BY <1>4, <3>1 DEF Owed
  <2>8. ASSUME NEW g \in Families
        PROVE  Balanced(Reserved(bankroll', g), orders', Owed', g, lost')
    <3>1. SameCosts(orders, orders', Owed)
      BY <1>2, <2>4, <2>6 DEF SameCosts
    <3>2. Balanced(IF g = orders'[nextId].strategy THEN Reserved(bankroll, g) + orders'[nextId].cost
                   ELSE Reserved(bankroll, g), orders', Owed \cup {nextId}, g, lost)
      BY <1>2, <1>5, <2>2, <2>6, <3>1, BalancedAdd
    <3>3. Reserved(bankroll', g) = IF g = f THEN Reserved(bankroll, f) + cost ELSE Reserved(bankroll, g)
      BY <1>2, <2>1, <2>5, AddReservedBuckets
    <3>4. Reserved(bankroll', g) = IF g = orders'[nextId].strategy
                                   THEN Reserved(bankroll, g) + orders'[nextId].cost
                                   ELSE Reserved(bankroll, g)
      BY <2>5, <3>3
    <3> QED BY <1>1, <2>7, <3>2, <3>4
  <2>9. ReserveIsOwed'
    BY <2>8, OwedForm
  <2> DEFINE N == {nextId}
  <2>10. /\ N \in SUBSET Ids
         /\ \A i \in N : i >= nextId /\ i < nextId' /\ orders'[i].at = "queued"
         /\ \A i \in Ids \ N : orders'[i] = orders[i]
         /\ draft' = draft \cup N /\ nextId' >= nextId
    BY <1>3, <2>2, <2>3, <2>4, <2>5
  <2> HIDE DEF N
  <2> QED BY <1>1, <2>9, <2>10, LedgerDecided
<1>7. CASE SubmitSpread(f)
  <2> DEFINE one == nextId
             two == nextId + 1
  <2>1. PICK m \in request : \E up, down \in 1..MaxPosition :
             /\ bankroll' = AddReserved(bankroll, f, up + down)
             /\ orders' = [orders EXCEPT ![one] = Order(f, m, "up", up),
                                         ![two] = Order(f, m, "down", down)]
    BY <1>7, Zenon DEF SubmitSpread
  <2>2. PICK up \in 1..MaxPosition, down \in 1..MaxPosition :
             /\ bankroll' = AddReserved(bankroll, f, up + down)
             /\ orders' = [orders EXCEPT ![one] = Order(f, m, "up", up),
                                         ![two] = Order(f, m, "down", down)]
    BY <2>1
  <2>3. one \in Ids /\ two \in Ids /\ one # two /\ nextId' = nextId + 2
        /\ draft' = draft \cup nextId..(nextId + 2 - 1)
    BY <1>3, <1>7 DEF SubmitSpread, Decided, Ids, TypeOK
  <2>4. draft' = draft \cup {one, two}
    BY <1>3, <2>3
  <2>5. two >= nextId /\ one >= nextId /\ one < nextId' /\ two < nextId' /\ nextId' >= nextId
    BY <1>3, <2>3
  <2> HIDE DEF one, two
  <2>6. /\ orders'[one] = Order(f, m, "up", up) /\ orders'[two] = Order(f, m, "down", down)
        /\ \A i \in Ids : i # one /\ i # two => orders'[i] = orders[i]
    BY <1>2, <2>2, <2>3
  <2>7. /\ orders'[one].at = "queued" /\ orders'[two].at = "queued"
        /\ orders'[one].strategy = f /\ orders'[two].strategy = f
        /\ orders'[one].cost = up /\ orders'[two].cost = down
    BY <2>6 DEF Order
  <2>8. up \in Nat /\ down \in Nat /\ up + down \in Nat
    BY <1>3
  <2>9. one \notin Owed /\ one \notin dead /\ two \notin Owed /\ two \notin dead
    BY <2>3, <2>5, FreshIsNowhere
  <2>10. Owed' = (Owed \cup {one}) \cup {two}
    <3>1. Exposed' = (Exposed \cup {one}) \cup {two}
      BY <1>1, <2>3, <2>6, <2>7, <2>9 DEF Exposed
    <3> QED BY <1>4, <3>1 DEF Owed
  <2>11. ASSUME NEW g \in Families
         PROVE  Balanced(Reserved(bankroll', g), orders', Owed', g, lost')
    <3> DEFINE R == IF g = f THEN Reserved(bankroll, g) + up ELSE Reserved(bankroll, g)
    <3>1. SameCosts(orders, orders', Owed) /\ SameCosts(orders', orders', Owed \cup {one})
      BY <1>2, <2>6, <2>9 DEF SameCosts
    <3>2. Balanced(IF g = orders'[one].strategy THEN Reserved(bankroll, g) + orders'[one].cost
                   ELSE Reserved(bankroll, g), orders', Owed \cup {one}, g, lost)
      BY <1>2, <1>5, <2>3, <2>9, <3>1, BalancedAdd
    <3>3. Balanced(R, orders', Owed \cup {one}, g, lost) /\ R \in Nat
      BY <1>2, <2>7, <2>8, <3>2
    <3>4. two \in Ids \ (Owed \cup {one}) /\ Owed \cup {one} \in SUBSET Ids
      BY <1>2, <2>3, <2>9
    <3> HIDE DEF R
    <3>5. Balanced(IF g = orders'[two].strategy THEN R + orders'[two].cost ELSE R,
                   orders', (Owed \cup {one}) \cup {two}, g, lost)
      BY <1>2, <3>1, <3>3, <3>4, BalancedAdd
    <3>6. Reserved(bankroll', g) = IF g = f THEN Reserved(bankroll, f) + (up + down)
                                   ELSE Reserved(bankroll, g)
      BY <1>2, <2>2, <2>8, AddReservedBuckets
    <3>7. Reserved(bankroll', g) = IF g = orders'[two].strategy THEN R + orders'[two].cost ELSE R
      BY <1>2, <2>7, <2>8, <3>6 DEF R
    <3> QED BY <1>1, <2>10, <3>5, <3>7
  <2>12. ReserveIsOwed'
    BY <2>11, OwedForm
  <2> DEFINE N == {one, two}
  <2>13. /\ N \in SUBSET Ids
         /\ \A i \in N : i >= nextId /\ i < nextId' /\ orders'[i].at = "queued"
         /\ \A i \in Ids \ N : orders'[i] = orders[i]
         /\ draft' = draft \cup N
    BY <2>3, <2>4, <2>5, <2>6, <2>7
  <2> HIDE DEF N
  <2> QED BY <1>1, <2>5, <2>12, <2>13, LedgerDecided
<1> QED BY <1>6, <1>7

-----------------------------------------------------------------------------
(* The main loop and the submission worker.                                  *)

\* A handler that posts its messages: what they give back was owed before.
LEMMA LedgerPost ==
    ASSUME TypeOK, TypeOK', LedgerInv, NEW messages \in Seq(Messages), Post(messages),
           messages = << >> => toSend = << >>, Sendable(messages),
           Once(Returned(messages)), Once(Released(feedback')),
           UNCHANGED << bankroll, orders, wpc, job, config >>,
           OutboundOnce', OrdersInOrder', NEW M, NEW B, NEW F,
           M = All(Returned(messages)), B = All(Returned(mailbox)), F = All(Released(feedback')),
           M \cap B = {}, M \cap F = {}, M \cap Returns(job) = {}, F \cap (Returns(job) \cup B) = {},
           M \cup F \cup B \cup Returns(job) \subseteq dead',
           Exposed' \cup M \cup F \cup B \cup Returns(job) = Owed
    PROVE  LedgerInv'
<1> DEFINE b2 == All(Returned(mailbox'))
           s2 == All(Returned(toSend'))
<1>1. /\ Once(Returned(mailbox')) /\ Once(Returned(toSend')) /\ b2 \cap s2 = {}
      /\ b2 \cup s2 \subseteq B \cup M
      /\ lost => lost'
      /\ lost' \/ b2 \cup s2 = B \cup M
  BY PostReturns DEF LedgerInv, ReturningOnce
<1>2. Sendable(mailbox') /\ Sendable(toSend')
  BY PostSendable DEF LedgerInv, JobInHand
<1>3. JobInHand'
  BY <1>2 DEF LedgerInv, JobInHand, Open, Queued
<1>4. Returning' = Returns(job) \cup b2 \cup s2 \cup F
  BY DEF Returning
<1>5. Returns(job) \cap B = {}
  BY DEF LedgerInv, ReturningOnce
<1> HIDE DEF b2, s2
<1>6. /\ b2 \cap s2 = {} /\ Returns(job) \cap (b2 \cup s2) = {}
      /\ F \cap (Returns(job) \cup b2 \cup s2) = {} /\ Returning' \subseteq dead'
  BY <1>1, <1>4, <1>5
<1>7. ReturningOnce'
  BY <1>1, <1>6 DEF ReturningOnce, b2, s2
<1>8. ReserveIsOwed'
  <2>1. Owed' = Exposed' \cup Returning'
    BY DEF Owed
  <2>2. Owed' \subseteq Owed /\ (lost' \/ Owed' = Owed)
    BY <1>1, <1>4, <2>1
  <2> QED BY <1>1, <2>2, OwedPosted DEF LedgerInv, TypeOK
<1> QED BY <1>3, <1>7, <1>8 DEF LedgerInv

LEMMA NothingReturned == Returned(<< >>) = << >> /\ Sendable(<< >>)
  BY DEF Returned, Sendable

LEMMA OneReturned ==
    ASSUME NEW a \in Messages
    PROVE  /\ Once(Returned(<< a >>)) /\ All(Returned(<< a >>)) = Returns(a)
           /\ a.kind \in {"closed", "resolved", "feedback", "release"} => Sendable(<< a >>)
<1>1. DOMAIN << a >> = {1} /\ << a >>[1] = a
  OBVIOUS
<1>2. DOMAIN Returned(<< a >>) = {1} /\ Returned(<< a >>)[1] = Returns(a)
  BY <1>1 DEF Returned
<1> QED BY <1>1, <1>2 DEF Once, All, Sendable

LEMMA TwoReturned ==
    ASSUME NEW a \in Messages, NEW b \in Messages, Returns(a) = {}
    PROVE  /\ Once(Returned(<< a, b >>)) /\ All(Returned(<< a, b >>)) = Returns(b)
           /\ {a.kind, b.kind} \subseteq {"closed", "resolved", "feedback", "release"}
                => Sendable(<< a, b >>)
<1>1. DOMAIN << a, b >> = {1, 2} /\ << a, b >>[1] = a /\ << a, b >>[2] = b
  OBVIOUS
<1>2. DOMAIN Returned(<< a, b >>) = {1, 2} /\ Returned(<< a, b >>)[1] = Returns(a)
      /\ Returned(<< a, b >>)[2] = Returns(b)
  BY <1>1 DEF Returned
<1> QED BY <1>1, <1>2 DEF Once, All, Sendable

LEMMA ShortConcat ==
    ASSUME NEW S, NEW a \in S, NEW b \in S
    PROVE  << a >> \o << b >> = << a, b >>
<1> DEFINE s == << a >>
           t == << b >>
           u == << a, b >>
<1>1. s \in Seq(S) /\ t \in Seq(S) /\ u \in Seq(S)
  BY ShortSeq
<1>2. /\ Len(s) = 1 /\ Len(t) = 1 /\ Len(u) = 2
      /\ s[1] = a /\ t[1] = b /\ u[1] = a /\ u[2] = b
  OBVIOUS
<1> HIDE DEF s, t, u
<1>3. s \o t \in Seq(S)
  BY <1>1, ConcatSeq
<1>5. Len(s \o t) = 2 /\ (s \o t)[1] = a /\ (s \o t)[2] = b
  BY <1>1, <1>2, ConcatProperties
<1>4. s \o t = u
  BY <1>1, <1>2, <1>3, <1>5
<1> QED BY <1>4 DEF s, t, u

\* Between two calls, what is owed is exposed or in the channels.
LEMMA OwedInChannels ==
    ASSUME LedgerInv
    PROVE  /\ Owed = Exposed \cup Returns(job) \cup All(Returned(mailbox))
                       \cup All(Returned(toSend)) \cup All(Released(feedback))
           /\ Once(Returned(mailbox)) /\ Once(Returned(toSend)) /\ Once(Released(feedback))
           /\ All(Returned(mailbox)) \cap All(Returned(toSend)) = {}
           /\ Returns(job) \cap (All(Returned(mailbox)) \cup All(Returned(toSend))) = {}
           /\ All(Released(feedback)) \cap
                (Returns(job) \cup All(Returned(mailbox)) \cup All(Returned(toSend))) = {}
           /\ Returning \subseteq dead
           /\ toSend = << >> => All(Returned(toSend)) = {}
<1>1. toSend = << >> => All(Returned(toSend)) = {}
  BY NothingReturned, NothingOnce
<1> QED BY <1>1 DEF LedgerInv, ReturningOnce, Owed, Returning

LEMMA LedgerWindows ==
    ASSUME TypeOK, TypeOK', LedgerInv,
           \E m \in Markets : \/ ActivateWindow(m) \/ CloseWindow(m) \/ TryEvaluate(m)
                              \/ \E outcome \in Sides : ResolutionResult(m, outcome)
    PROVE  LedgerInv'
<1>1. /\ UNCHANGED << bankroll, orders, nextId, wpc, job, draft, outputs, submitted, feedback,
                      config, fillCost, dead >>
  BY DEF ActivateWindow, CloseWindow, TryEvaluate, ResolutionResult, engine, worker, channels, world
<1>2. OutboundOnce' /\ OrdersInOrder'
  <2>1. OutboundOnce'
    BY <1>1 DEF LedgerInv, OutboundOnce, Outbound, Queued
  <2>2. OrdersInOrder'
    BY <1>1 DEF LedgerInv, OrdersInOrder, Open, Queued
  <2> QED BY <2>1, <2>2
<1>3. CASE UNCHANGED << mailbox, toSend, lost >>
  <2>1. ReturningOnce' /\ Returning' = Returning
    BY <1>1, <1>3 DEF LedgerInv, ReturningOnce, Returning, Returned, Released, Returns
  <2>2. JobInHand'
    BY <1>1, <1>3 DEF LedgerInv, JobInHand, Open, Queued
  <2>3. Owed' = Owed
    BY <1>1, <2>1 DEF Owed, Exposed
  <2>4. ReserveIsOwed'
    BY <1>1, <1>3, <2>3, OwedPosted DEF LedgerInv, TypeOK
  <2> QED BY <1>2, <2>1, <2>2, <2>4 DEF LedgerInv
<1>4. CASE \E kind \in {"closed", "resolved"}, m \in Markets, o \in Sides :
             Post(<< MarketMessage(kind, m, o) >>) /\ toSend = << >>
  <2>1. PICK kind \in {"closed", "resolved"}, m \in Markets, o \in Sides :
             Post(<< MarketMessage(kind, m, o) >>) /\ toSend = << >>
    BY <1>4
  <2> DEFINE a == MarketMessage(kind, m, o)
  <2>2. a \in Messages
    BY MarketMessageType
  <2>3. a.kind = kind /\ Returns(a) = {}
    BY DEF MarketMessage, NoJob, Returns
  <2> HIDE DEF a
  <2>4. /\ << a >> \in Seq(Messages) /\ Once(Returned(<< a >>)) /\ All(Returned(<< a >>)) = {}
        /\ Sendable(<< a >>) /\ << a >> # << >>
    BY <2>2, <2>3, OneReturned, ShortSeq
  <2>5. Post(<< a >>)
    BY <2>1 DEF a
  <2>6. /\ Released(feedback') = Released(feedback) /\ Exposed' = Exposed
    BY <1>1 DEF Exposed
  <2> DEFINE M == All(Returned(<< a >>))
             B == All(Returned(mailbox))
             F == All(Released(feedback'))
  <2>7. /\ Once(Released(feedback')) /\ F \cap (Returns(job) \cup B) = {}
        /\ M \cup F \cup B \cup Returns(job) \subseteq dead'
        /\ Exposed' \cup M \cup F \cup B \cup Returns(job) = Owed
        /\ M \cap B = {} /\ M \cap F = {} /\ M \cap Returns(job) = {}
    BY <1>1, <2>1, <2>4, <2>6, OwedInChannels DEF Returning
  <2>8. M = All(Returned(<< a >>)) /\ B = All(Returned(mailbox)) /\ F = All(Released(feedback'))
    OBVIOUS
  <2> HIDE DEF M, B, F
  <2> QED BY <1>1, <1>2, <2>4, <2>5, <2>7, <2>8, LedgerPost
<1>5. "up" \in Sides
  BY DEF Sides
<1> QED BY <1>3, <1>4, <1>5
        DEF ActivateWindow, CloseWindow, TryEvaluate, ResolutionResult, Idle, channels, world

LEMMA LedgerTrySend ==
    ASSUME TypeOK, TypeOK', LedgerInv, TrySend
    PROVE  LedgerInv'
<1>1. /\ UNCHANGED << bankroll, orders, nextId, wpc, job, draft, outputs, submitted, feedback,
                      config, fillCost, dead >>
      /\ Post(toSend) /\ toSend # << >> /\ toSend \in Seq(Messages)
  BY DEF TrySend, engine, worker, TypeOK
<1>2. OutboundOnce'
  BY <1>1 DEF LedgerInv, OutboundOnce, Outbound, Queued
<1>3. OrdersInOrder'
  BY <1>1 DEF LedgerInv, OrdersInOrder, Open, Queued
<1>4. Sendable(toSend)
  BY DEF LedgerInv, JobInHand
<1>5. /\ Released(feedback') = Released(feedback) /\ Exposed' = Exposed
  BY <1>1 DEF Exposed
<1> DEFINE M == All(Returned(toSend))
           B == All(Returned(mailbox))
           F == All(Released(feedback'))
<1>6. /\ Once(Returned(toSend)) /\ Once(Released(feedback')) /\ M \cap B = {} /\ M \cap F = {}
      /\ M \cap Returns(job) = {} /\ F \cap (Returns(job) \cup B) = {}
      /\ M \cup F \cup B \cup Returns(job) \subseteq dead'
      /\ Exposed' \cup M \cup F \cup B \cup Returns(job) = Owed
  BY <1>1, <1>5, OwedInChannels DEF Returning
<1>7. M = All(Returned(toSend)) /\ B = All(Returned(mailbox)) /\ F = All(Released(feedback'))
  OBVIOUS
<1> HIDE DEF M, B, F
<1> QED BY <1>1, <1>2, <1>3, <1>4, <1>6, <1>7, LedgerPost

\* apply_live_submission_feedback of the main loop: what was released is sent back.
LEMMA LedgerFeedback ==
    ASSUME TypeOK, TypeOK', LedgerInv, HandleFeedback
    PROVE  LedgerInv'
<1> DEFINE f == Head(feedback)
           a == Message("feedback", f.answered, TRUE)
           r == Message("release", f.released, TRUE)
           first == IF f.answered = {} THEN << >> ELSE << a >>
           second == IF f.released = {} THEN << >> ELSE << r >>
           messages == first \o second
<1>1. /\ UNCHANGED << bankroll, orders, nextId, wpc, job, draft, outputs, submitted,
                      config, fillCost, dead >>
      /\ feedback' = Tail(feedback) /\ feedback # << >> /\ toSend = << >>
  BY DEF HandleFeedback, engine, worker, Idle
<1>2. Post(messages)
  BY Zenon DEF HandleFeedback
<1>3. feedback \in Seq(Feedbacks)
  BY DEF TypeOK, Feedbacks
<1>4. f \in Feedbacks
  BY <1>1, <1>3, HeadTail, Zenon
<1>5. f.answered \in SUBSET Ids /\ f.released \in SUBSET Ids
  BY <1>4 DEF Feedbacks
<1>6. /\ a \in Messages /\ r \in Messages
  BY <1>5, MessageType
<1>7. /\ a.kind = "feedback" /\ Returns(a) = {} /\ r.kind = "release" /\ Returns(r) = f.released
  BY DEF Message, NoJob, Returns
<1> HIDE DEF a, r
<1>8. /\ messages \in Seq(Messages) /\ Once(Returned(messages))
      /\ All(Returned(messages)) = f.released /\ Sendable(messages)
  <2>1. CASE f.answered = {} /\ f.released = {}
    <3>1. messages = << >>
      BY <2>1
    <3>2. All(<< >>) = {} /\ Once(<< >>) /\ << >> \in Seq(Messages)
      BY NothingOnce DEF Once
    <3> HIDE DEF messages
    <3> QED BY <2>1, <3>1, <3>2, NothingReturned
  <2>2. CASE f.answered = {} /\ f.released # {}
    <3>1. messages = << r >>
      BY <1>6, <2>2
    <3> QED BY <1>6, <1>7, <3>1, OneReturned, ShortSeq
  <2>3. CASE f.answered # {} /\ f.released = {}
    <3>1. messages = << a >>
      BY <1>6, <2>3
    <3> QED BY <1>6, <1>7, <2>3, <3>1, OneReturned, ShortSeq
  <2>4. CASE f.answered # {} /\ f.released # {}
    <3>1. messages = << a >> \o << r >>
      BY <2>4
    <3>2. << a >> \o << r >> = << a, r >>
      BY <1>6, ShortConcat
    <3> HIDE DEF messages
    <3> QED BY <1>6, <1>7, <3>1, <3>2, TwoReturned, ShortSeq
  <2> QED BY <2>1, <2>2, <2>3, <2>4
<1> DEFINE q == Released(feedback)
<1>9. q \in Seq(SUBSET Ids) /\ q # << >> /\ Released(feedback') = Tail(q) /\ Head(q) = f.released
  BY <1>1, <1>3, ReleasedSeq
<1>10. /\ Once(Tail(q)) /\ All(q) = f.released \cup All(Tail(q)) /\ f.released \cap All(Tail(q)) = {}
  <2>1. Once(q)
    BY DEF LedgerInv, ReturningOnce
  <2> HIDE DEF q
  <2> QED BY <1>9, <2>1, TailOnce
<1>11. OutboundOnce'
  BY <1>1 DEF LedgerInv, OutboundOnce, Outbound, Queued
<1>12. OrdersInOrder'
  BY <1>1 DEF LedgerInv, OrdersInOrder, Open, Queued
<1> DEFINE M == f.released
           B == All(Returned(mailbox))
           F == All(Released(feedback'))
<1>13. /\ F = All(Tail(q)) /\ Exposed' = Exposed /\ Once(Released(feedback'))
  BY <1>1, <1>9, <1>10 DEF Exposed
<1>14. /\ M \cap B = {} /\ M \cap F = {}
       /\ M \cap Returns(job) = {} /\ F \cap (Returns(job) \cup B) = {}
       /\ M \cup F \cup B \cup Returns(job) \subseteq dead'
       /\ Exposed' \cup M \cup F \cup B \cup Returns(job) = Owed
  BY <1>1, <1>10, <1>13, OwedInChannels DEF Returning
<1>15. M = All(Returned(messages)) /\ B = All(Returned(mailbox)) /\ F = All(Released(feedback'))
  BY <1>8
<1> HIDE DEF M, B, F, messages
<1> QED BY <1>1, <1>2, <1>8, <1>11, <1>12, <1>13, <1>14, <1>15, LedgerPost

-----------------------------------------------------------------------------

\* handle_strategy_decision_output of the main loop: the batch goes on to the
\* submission worker, or all of it comes back.
LEMMA LedgerOutput ==
    ASSUME TypeOK, TypeOK', LedgerInv, HandleOutput
    PROVE  LedgerInv'
<1> DEFINE ids == Head(outputs)
<1>1. /\ UNCHANGED << bankroll, orders, nextId, wpc, job, draft, feedback, config, fillCost >>
      /\ outputs' = Tail(outputs) /\ outputs # << >> /\ toSend = << >>
      /\ outputs \in Seq(SUBSET Ids) /\ submitted \in Seq(SUBSET Ids)
  BY DEF HandleOutput, engine, worker, Idle, TypeOK
<1>2. /\ Once(outputs') /\ ids \in SUBSET Ids /\ All(outputs) = ids \cup All(outputs')
      /\ ids \cap All(outputs') = {}
  BY <1>1, TailOnce DEF LedgerInv, OutboundOnce
<1>3. /\ draft \cap All(outputs) = {} /\ draft \cap All(submitted) = {} /\ Once(submitted)
      /\ All(outputs) \cap All(submitted) = {}
      /\ \A i \in draft \cup All(outputs) \cup All(submitted) :
            orders[i].at = "queued" /\ i \notin dead /\ fillCost[i] = 0
      /\ wpc # "decide" => draft = {}
  BY DEF LedgerInv, OutboundOnce, Outbound, Queued
<1>4. config.live
  BY <1>1 DEF LedgerInv, OrdersInOrder
<1>5. CASE submitted' = Append(submitted, ids) /\ UNCHANGED << mailbox, toSend, lost, dead >>
  <2>1. Once(submitted') /\ All(submitted') = All(submitted) \cup ids
    <3>1. ids \cap All(submitted) = {}
      BY <1>2, <1>3
    <3> HIDE DEF ids
    <3> QED BY <1>1, <1>2, <1>3, <1>5, <3>1, AppendOnce
  <2>2. OutboundOnce'
    <3>1. Outbound' = draft \cup All(outputs') \cup All(submitted) \cup ids
      BY <1>1, <2>1 DEF Outbound
    <3> QED BY <1>1, <1>2, <1>3, <1>5, <2>1, <3>1 DEF OutboundOnce, Queued
  <2>3. OrdersInOrder'
    BY <1>1, <1>4, <1>5 DEF LedgerInv, OrdersInOrder, Open, Queued
  <2>4. ReturningOnce' /\ Returning' = Returning
    BY <1>1, <1>5 DEF LedgerInv, ReturningOnce, Returning, Returned, Released, Returns
  <2>5. JobInHand'
    BY <1>1, <1>5 DEF LedgerInv, JobInHand, Open, Queued
  <2>6. Owed' = Owed
    BY <1>1, <1>5, <2>4 DEF Owed, Exposed
  <2>7. ReserveIsOwed'
    BY <1>1, <1>5, <2>6, OwedPosted DEF LedgerInv, TypeOK
  <2> QED BY <2>2, <2>3, <2>4, <2>5, <2>7 DEF LedgerInv
<1>6. CASE /\ Post(<< Message("feedback", ids, FALSE), Message("release", ids, FALSE) >>)
           /\ dead' = dead \cup ids
           /\ UNCHANGED submitted
  <2> DEFINE a == Message("feedback", ids, FALSE)
             r == Message("release", ids, FALSE)
  <2>1. /\ a \in Messages /\ r \in Messages
    BY <1>2, MessageType
  <2>2. /\ a.kind = "feedback" /\ Returns(a) = {} /\ r.kind = "release" /\ Returns(r) = ids
    BY DEF Message, NoJob, Returns
  <2>3. Post(<< a, r >>)
    BY <1>6
  <2> HIDE DEF a, r
  <2>4. /\ << a, r >> \in Seq(Messages) /\ Once(Returned(<< a, r >>))
        /\ All(Returned(<< a, r >>)) = ids /\ Sendable(<< a, r >>) /\ << a, r >> # << >>
    BY <2>1, <2>2, TwoReturned, ShortSeq
  <2>5. \A i \in ids : /\ i \notin dead /\ i \in Exposed /\ i \notin draft
                       /\ i \notin All(outputs') /\ i \notin All(submitted) /\ fillCost[i] = 0
                       /\ orders[i].at = "queued"
    BY <1>2, <1>3 DEF Exposed
  <2>6. OutboundOnce'
    <3>1. Outbound' = draft \cup All(outputs') \cup All(submitted)
      BY <1>1, <1>6 DEF Outbound
    <3> QED BY <1>1, <1>2, <1>3, <1>6, <2>5, <3>1 DEF OutboundOnce, Queued
  <2>7. OrdersInOrder'
    BY <1>1, <1>2, <1>4, <1>6, <2>5 DEF LedgerInv, OrdersInOrder, Open, Queued
  <2>8. Exposed = Exposed' \cup ids /\ Exposed' = Exposed \ ids
    BY <1>1, <1>6, <2>5 DEF Exposed
  <2> DEFINE M == All(Returned(<< a, r >>))
             B == All(Returned(mailbox))
             F == All(Released(feedback'))
  <2>9. F = All(Released(feedback)) /\ Released(feedback') = Released(feedback) /\ M = ids
    BY <1>1, <2>4
  <2>10. M \cap Returning = {} /\ M \subseteq dead'
    BY <1>6, <2>5, <2>9, OwedInChannels
  <2>11. /\ Once(Released(feedback')) /\ F \cap (Returns(job) \cup B) = {}
         /\ M \cup F \cup B \cup Returns(job) \subseteq dead'
         /\ Exposed' \cup M \cup F \cup B \cup Returns(job) = Owed
         /\ M \cap B = {} /\ M \cap F = {} /\ M \cap Returns(job) = {}
    BY <1>1, <1>6, <2>8, <2>9, <2>10, OwedInChannels DEF Returning
  <2>12. M = All(Returned(<< a, r >>)) /\ B = All(Returned(mailbox)) /\ F = All(Released(feedback'))
    OBVIOUS
  <2> HIDE DEF M, B, F, ids
  <2> QED BY <1>1, <2>3, <2>4, <2>6, <2>7, <2>11, <2>12, LedgerPost
<1> QED BY <1>5, <1>6 DEF HandleOutput

\* submit_live_orders_from_worker: every order of the batch is answered, and
\* those that were not filled are given back, but for one in doubt.
LEMMA LedgerAnswers ==
    ASSUME TypeOK, TypeOK', LedgerInv, SubmissionAnswers
    PROVE  LedgerInv'
<1> DEFINE ids == Head(submitted)
<1>1. /\ UNCHANGED << bankroll, orders, nextId, wpc, job, draft, mailbox, outputs, toSend, config, lost >>
      /\ submitted' = Tail(submitted) /\ submitted # << >>
      /\ submitted \in Seq(SUBSET Ids) /\ feedback \in Seq(Feedbacks)
      /\ fillCost \in [Ids -> Nat] /\ orders \in [Ids -> Orders]
  BY DEF SubmissionAnswers, engine, worker, TypeOK, Feedbacks
<1>2. PICK filled \in SUBSET ids : \E doubt \in SUBSET (ids \ filled) :
            /\ \E cost \in [filled -> 1..(2 * MaxPosition)] :
                 /\ \A i \in filled : cost[i] <= orders[i].cost
                 /\ fillCost' = [i \in Ids |-> IF i \in filled THEN cost[i] ELSE fillCost[i]]
            /\ LET rejected == ids \ (filled \cup doubt)
               IN /\ feedback' = Append(feedback, [answered |-> filled \cup rejected,
                                                   released |-> rejected])
                  /\ dead' = dead \cup rejected
  BY DEF SubmissionAnswers
<1>3. PICK doubt \in SUBSET (ids \ filled) :
            /\ \E cost \in [filled -> 1..(2 * MaxPosition)] :
                 /\ \A i \in filled : cost[i] <= orders[i].cost
                 /\ fillCost' = [i \in Ids |-> IF i \in filled THEN cost[i] ELSE fillCost[i]]
            /\ LET rejected == ids \ (filled \cup doubt)
               IN /\ feedback' = Append(feedback, [answered |-> filled \cup rejected,
                                                   released |-> rejected])
                  /\ dead' = dead \cup rejected
  BY <1>2
<1> DEFINE rejected == ids \ (filled \cup doubt)
           answer   == [answered |-> filled \cup rejected, released |-> rejected]
<1>4. feedback' = Append(feedback, answer) /\ dead' = dead \cup rejected
  BY <1>3
<1>5. \A i \in Ids : /\ i \notin ids => fillCost'[i] = fillCost[i]
                     /\ i \notin filled => fillCost'[i] = fillCost[i]
                     /\ i \in filled => fillCost'[i] <= orders[i].cost
  BY <1>3
<1>6. /\ Once(submitted') /\ ids \in SUBSET Ids /\ All(submitted) = ids \cup All(submitted')
      /\ ids \cap All(submitted') = {}
  BY <1>1, TailOnce DEF LedgerInv, OutboundOnce
<1>7. /\ draft \cap All(outputs) = {} /\ draft \cap All(submitted) = {} /\ Once(outputs)
      /\ All(outputs) \cap All(submitted) = {}
      /\ \A i \in draft \cup All(outputs) \cup All(submitted) :
            orders[i].at = "queued" /\ i \notin dead /\ fillCost[i] = 0
      /\ wpc # "decide" => draft = {}
  BY DEF LedgerInv, OutboundOnce, Outbound, Queued
<1>8. /\ rejected \in SUBSET Ids /\ answer \in Feedbacks /\ answer.released = rejected
      /\ rejected \subseteq ids /\ rejected \cap filled = {} /\ filled \subseteq ids
  BY <1>6 DEF Feedbacks
<1> HIDE DEF answer, rejected, ids
<1>9. \A i \in ids : /\ i \notin dead /\ i \in Exposed /\ i \notin draft
                     /\ i \notin All(outputs) /\ i \notin All(submitted')
                     /\ fillCost[i] = 0 /\ orders[i].at = "queued"
  BY <1>6, <1>7 DEF Exposed
<1>10. OutboundOnce'
  <2>1. Outbound' = draft \cup All(outputs) \cup All(submitted')
    BY <1>1 DEF Outbound
  <2>2. Outbound' \subseteq Ids \ ids
    <3>1. Outbound \subseteq Ids
      BY DEF TypeOK, Outbound, All
    <3>2. Outbound' \subseteq Outbound
      BY <1>6, <2>1 DEF Outbound
    <3> QED BY <1>9, <2>1, <3>1, <3>2
  <2>3. \A i \in Outbound' : orders[i].at = "queued" /\ i \notin dead' /\ fillCost'[i] = 0
    BY <1>4, <1>5, <1>6, <1>7, <1>8, <2>1, <2>2
  <2> QED BY <1>1, <1>6, <1>7, <2>3 DEF OutboundOnce, Queued
<1>11. OrdersInOrder'
  <2>1. config.live
    BY <1>1 DEF LedgerInv, OrdersInOrder
  <2>2. \A i \in Ids : fillCost'[i] \in Nat /\ fillCost[i] \in Nat
    BY DEF TypeOK
  <2>3. \A i \in Ids : i >= nextId => orders[i].at = "none" /\ i \notin dead' /\ fillCost'[i] = 0
    BY <1>4, <1>5, <1>8, <1>9 DEF LedgerInv, OrdersInOrder
  <2>4. \A i \in Ids : Open(i) => i \notin dead'
    BY <1>4, <1>8, <1>9 DEF LedgerInv, OrdersInOrder, Open
  <2>5. \A i \in Ids : Queued(i) /\ fillCost'[i] > 0 => i \notin dead' /\ fillCost'[i] <= orders[i].cost
    <3>1. ASSUME NEW i \in Ids, Queued(i), fillCost'[i] > 0
          PROVE  i \notin dead' /\ fillCost'[i] <= orders[i].cost
      <4>1. CASE i \in filled
        BY <1>4, <1>5, <1>8, <1>9, <4>1
      <4>2. CASE i \notin filled
        <5>1. fillCost[i] > 0
          BY <1>5, <3>1, <4>2
        <5>2. i \notin ids
          BY <1>9, <2>2, <5>1
        <5> QED BY <1>4, <1>5, <1>8, <3>1, <5>1, <5>2 DEF LedgerInv, OrdersInOrder
      <4> QED BY <4>1, <4>2
    <3> QED BY <3>1
  <2> QED BY <1>1, <2>1, <2>3, <2>4, <2>5 DEF OrdersInOrder, Open, Queued
<1> DEFINE q == Released(feedback)
<1>12. /\ q \in Seq(SUBSET Ids) /\ Released(feedback') = Append(q, rejected) /\ Once(q)
  BY <1>1, <1>4, <1>8, ReleasedSeq DEF LedgerInv, ReturningOnce
<1>13. rejected \cap Returning = {}
  BY <1>8, <1>9, OwedInChannels
<1>14. q = Released(feedback)
  OBVIOUS
<1>15. rejected \cap All(q) = {}
  BY <1>13 DEF Returning
<1> HIDE DEF q
<1>16. Once(Released(feedback')) /\ All(Released(feedback')) = All(q) \cup rejected
  BY <1>8, <1>12, <1>15, AppendOnce
<1>17. Returning' = Returning \cup rejected
  BY <1>1, <1>14, <1>16 DEF Returning
<1>18. ReturningOnce'
  BY <1>1, <1>4, <1>13, <1>14, <1>16, <1>17 DEF LedgerInv, ReturningOnce, Returning
<1>19. JobInHand'
  BY <1>1 DEF LedgerInv, JobInHand, Open, Queued
<1>20. Owed' = Owed
  <2>1. Exposed' = Exposed \ rejected
    BY <1>1, <1>4 DEF Exposed
  <2> QED BY <1>8, <1>9, <1>17, <2>1 DEF Owed
<1>21. ReserveIsOwed'
  BY <1>1, <1>20, OwedPosted DEF LedgerInv, TypeOK
<1> QED BY <1>10, <1>11, <1>18, <1>19, <1>21 DEF LedgerInv

-----------------------------------------------------------------------------
(* The theorems.                                                             *)

\* RuntimeDecisionEngine::new: nothing is on its way, and the reserve is the
\* cost of the trade found in the run database, if there is one.
LEMMA LedgerInit == Init => LedgerInv
<1> SUFFICES ASSUME Init PROVE LedgerInv
  OBVIOUS
<1>1. TypeOK
  BY ReserveInit DEF ReserveInv
<1> DEFINE n == NewBankroll(config.balance)
           Seeded(seed, ended) ==
             /\ bankroll = IF ended THEN AddPending(n, "latency_arb", seed)
                           ELSE AddReserved(n, "latency_arb", seed)
             /\ orders = [i \in Ids |->
                            IF i = 1 /\ seed > 0
                            THEN [NoOrder EXCEPT !.cost = seed, !.at = IF ended THEN "settling" ELSE "open"]
                            ELSE NoOrder]
             /\ nextId = IF seed > 0 THEN 2 ELSE 1
<1>2. PICK seed \in IF config.live THEN {0} ELSE SeedCosts :
        \E ended \in IF seed = 0 THEN {FALSE} ELSE BOOLEAN : Seeded(seed, ended)
  BY Zenon DEF Init
<1>3. PICK ended \in IF seed = 0 THEN {FALSE} ELSE BOOLEAN : Seeded(seed, ended)
  BY <1>2, Zenon
<1>4. seed \in Nat /\ config.balance \in Int
  BY BankrollAssumption, DecisionAssumption DEF Init
<1>5. /\ n \in Bankrolls /\ \A g \in Families : Reserved(n, g) = 0
  BY <1>4 DEF NewBankroll, Bankrolls, Reserved, Families
<1>6. /\ "latency_arb" \in Families /\ 1 \in Ids /\ \A i \in Ids : i \in Nat
  BY DecisionAssumption DEF Families, Ids
<1>7. \A g \in Families : Reserved(bankroll, g) = IF g = "latency_arb" THEN seed ELSE 0
  <2> SUFFICES ASSUME NEW g \in Families
               PROVE  Reserved(bankroll, g) = IF g = "latency_arb" THEN seed ELSE 0
    OBVIOUS
  <2>1. /\ Reserved(AddPending(n, "latency_arb", seed), g) = IF g = "latency_arb" THEN 0 + seed ELSE 0
        /\ Reserved(AddReserved(n, "latency_arb", seed), g) = IF g = "latency_arb" THEN 0 + seed ELSE 0
    <3> HIDE DEF n
    <3> QED BY <1>4, <1>5, <1>6, AddPendingBuckets, AddReservedBuckets
  <2>2. 0 + seed = seed
    BY <1>4
  <2> HIDE DEF n
  <2> QED BY <1>3, <2>1, <2>2
<1> DEFINE S == IF seed > 0 THEN {1} ELSE {}
<1>8. \A i \in Ids : /\ orders[i].strategy = "latency_arb"
                     /\ i \in S => orders[i].at \in {"open", "settling"} /\ orders[i].cost = seed
                     /\ i \notin S => orders[i].at = "none"
                     /\ i >= nextId => i \notin S
  BY <1>3, <1>4, <1>6 DEF NoOrder
<1> HIDE DEF Seeded, n
<1>9. /\ draft = {} /\ outputs = << >> /\ submitted = << >> /\ mailbox = << >> /\ toSend = << >>
      /\ feedback = << >> /\ dead = {} /\ fillCost = [i \in Ids |-> 0] /\ job = NoJob /\ wpc = "drain"
  BY Zenon DEF Init
<1>10. Once(<< >>) /\ All(<< >>) = {} /\ Returned(<< >>) = << >> /\ Released(<< >>) = << >>
       /\ Sendable(<< >>) /\ Returns(NoJob) = {} /\ NoJob.ids = {} /\ NoJob.kind = "none"
  BY NothingOnce, NothingReturned DEF Released, Returns, NoJob
<1>11. OutboundOnce
  BY <1>9, <1>10 DEF OutboundOnce, Outbound
<1>12. Returning = {} /\ ReturningOnce
  BY <1>9, <1>10 DEF ReturningOnce, Returning
<1>13. JobInHand
  BY <1>9, <1>10 DEF JobInHand
<1>14. OrdersInOrder
  BY <1>8, <1>9, <1>10 DEF OrdersInOrder, Open, Queued
<1>15. ReserveIsOwed
  <2>1. S \in SUBSET Ids /\ orders \in [Ids -> Orders]
    BY <1>1, <1>6 DEF TypeOK
  <2>2. Owed = S
    BY <1>8, <1>9, <1>12, <2>1 DEF Owed, Exposed
  <2>3. ASSUME NEW f \in Families
        PROVE  Balanced(Reserved(bankroll, f), orders, Owed, f, lost)
    <3>1. CASE f = "latency_arb" /\ seed > 0
      <4>1. Fam(orders, Owed, f) = {1}
        BY <1>6, <1>8, <2>2, <3>1 DEF Fam
      <4>2. Weight(orders, {1}) = seed
        BY <1>6, <1>8, <2>1, <3>1, WeightOne
      <4> QED BY <1>4, <1>7, <3>1, <4>1, <4>2 DEF Balanced
    <3>2. CASE f # "latency_arb" \/ ~(seed > 0)
      <4>1. Fam(orders, Owed, f) = {}
        BY <1>6, <1>8, <2>2, <3>2 DEF Fam
      <4>2. Units(orders, {}) = {}
        BY DEF Units
      <4>3. Weight(orders, {}) = 0
        BY <4>2, FS_EmptySet DEF Weight
      <4>4. Reserved(bankroll, f) = 0
        BY <1>4, <1>7, <3>2
      <4> QED BY <4>1, <4>3, <4>4 DEF Balanced
    <3> QED BY <3>1, <3>2
  <2> QED BY <2>3, OwedForm
<1> QED BY <1>11, <1>12, <1>13, <1>14, <1>15 DEF LedgerInv

\* LedgerInv is inductive, given the invariants proved before.
LEMMA LedgerNext ==
    ReserveInv /\ ReserveInv' /\ ExposureInv /\ LedgerInv /\ [Next]_vars => LedgerInv'
<1> SUFFICES ASSUME ReserveInv, ReserveInv', ExposureInv, LedgerInv, [Next]_vars
             PROVE  LedgerInv'
  OBVIOUS
<1>1. TypeOK /\ TypeOK' /\ ForgottenAreDead /\ Sound(bankroll)
  BY SoundFact DEF ReserveInv, ExposureInv
<1>2. CASE \E i \in Ids : EngineStep(i)
  BY <1>1, <1>2, EngineSettles, LedgerEngine
<1>3. CASE ReceiveMessage
  BY <1>1, <1>3, LedgerReceive
<1>4. CASE MailboxEmpty \/ TakeRequest \/ FinishJob
  BY <1>1, <1>4, LedgerIdle
<1>5. CASE ForwardDecision
  BY <1>1, <1>5, LedgerForward
<1>6. CASE \E f \in Strategies : SubmitSingle(f) \/ SubmitSpread(f)
  BY <1>1, <1>6, LedgerSubmit
<1>7. CASE \E m \in Markets : \/ ActivateWindow(m) \/ CloseWindow(m) \/ TryEvaluate(m)
                              \/ \E outcome \in Sides : ResolutionResult(m, outcome)
  BY <1>1, <1>7, LedgerWindows
<1>8. CASE HandleOutput
  BY <1>1, <1>8, LedgerOutput
<1>9. CASE HandleFeedback
  BY <1>1, <1>9, LedgerFeedback
<1>10. CASE TrySend
  BY <1>1, <1>10, LedgerTrySend
<1>11. CASE SubmissionAnswers
  BY <1>1, <1>11, LedgerAnswers
<1>12. CASE UNCHANGED vars
  <2>1. UNCHANGED << bankroll, orders, nextId, wpc, job, draft, outputs, submitted, feedback,
                     mailbox, toSend, config, fillCost, dead, lost >>
    BY <1>12 DEF vars, engine, worker, channels, world
  <2>2. OutboundOnce'
    BY <2>1 DEF LedgerInv, OutboundOnce, Outbound, Queued
  <2>3. OrdersInOrder'
    BY <2>1 DEF LedgerInv, OrdersInOrder, Open, Queued
  <2>4. ReturningOnce' /\ Returning' = Returning
    BY <2>1 DEF LedgerInv, ReturningOnce, Returning, Returned, Released, Returns
  <2>5. JobInHand'
    BY <2>1 DEF LedgerInv, JobInHand, Open, Queued
  <2>6. Owed' = Owed
    BY <2>1, <2>4 DEF Owed, Exposed
  <2>7. ReserveIsOwed'
    BY <1>1, <2>1, <2>6, OwedPosted DEF LedgerInv, TypeOK
  <2> QED BY <2>2, <2>3, <2>4, <2>5, <2>7 DEF LedgerInv
<1> QED BY <1>2, <1>3, <1>4, <1>5, <1>6, <1>7, <1>8, <1>9, <1>10, <1>11, <1>12, Zenon DEF Next

LEMMA LedgerInvariant == Spec => [](TypeOK /\ LedgerInv)
<1>1. ReserveInv => TypeOK
  BY DEF ReserveInv
<1>2. ExposureInv => TypeOK
  BY DEF ExposureInv
<1> QED BY <1>1, <1>2, ReserveInvariant, ExposureInit, ExposureNext, LedgerInit, LedgerNext, PTL DEF Spec

\* release_from_family_buckets takes from whichever trade's reserve comes
\* first, and any message may be lost at the full mailbox: the reserve of a
\* family still covers every order and trade it has out.
THEOREM ReservesCover == Spec => []ReservesCoverExposure
<1>1. TypeOK /\ LedgerInv => ReservesCoverExposure
  <2> SUFFICES ASSUME TypeOK, LedgerInv, NEW f \in Families
               PROVE  Reserved(bankroll, f) >= Cost(Of(f, Exposed))
    BY DEF ReservesCoverExposure
  <2> DEFINE S == Of(f, Exposed)
             T == Of(f, Owed)
  <2>1. /\ orders \in [Ids -> Orders] /\ T \in SUBSET Ids /\ S \in SUBSET T
        /\ Reserved(bankroll, f) \in Nat
    BY OwedTypes DEF Of, Owed
  <2>2. Reserved(bankroll, f) >= Cost(T)
    BY DEF LedgerInv, ReserveIsOwed
  <2>3. Cost(S) = Weight(orders, S) /\ Cost(T) = Weight(orders, T)
    BY DEF Cost, Weight, Units
  <2> HIDE DEF S, T
  <2>4. Weight(orders, S) <= Weight(orders, T)
    BY <2>1, WeightMonotone
  <2>5. Weight(orders, S) \in Nat /\ Weight(orders, T) \in Nat
    BY <2>1, UnitsFinite
  <2>6. Reserved(bankroll, f) >= Cost(S)
    BY <2>1, <2>2, <2>3, <2>4, <2>5
  <2> QED BY <2>6 DEF S
<1> QED BY <1>1, LedgerInvariant, PTL

\* apply_live_submission_feedback and the two rollbacks: unless a message was
\* dropped at the full mailbox, what is reserved is what the orders out and the
\* orders coming back cost, to the unit: none is returned twice or forgotten.
THEOREM NothingIsLeaked == Spec => []NothingLeaks
<1>1. TypeOK /\ LedgerInv => NothingLeaks
  <2> SUFFICES ASSUME TypeOK, LedgerInv, ~lost, NEW f \in Families
               PROVE  Reserved(bankroll, f) = Cost(Of(f, Exposed)) + Cost(Of(f, Returning))
    BY DEF NothingLeaks
  <2> DEFINE S == Of(f, Exposed)
             T == Of(f, Returning)
             O == Of(f, Owed)
  <2>1. /\ orders \in [Ids -> Orders] /\ Owed \in SUBSET Ids
    BY OwedTypes
  <2>2. Exposed \cap Returning = {}
    BY DEF LedgerInv, ReturningOnce, Exposed
  <2>3. O = S \cup T /\ S \cap T = {} /\ S \in SUBSET Ids /\ T \in SUBSET Ids
    BY <2>1, <2>2 DEF Of, Owed
  <2>4. Reserved(bankroll, f) = Cost(O)
    BY DEF LedgerInv, ReserveIsOwed
  <2>5. Cost(S) = Weight(orders, S) /\ Cost(T) = Weight(orders, T) /\ Cost(O) = Weight(orders, O)
    BY DEF Cost, Weight, Units
  <2> HIDE DEF S, T, O
  <2>6. Weight(orders, S \cup T) = Weight(orders, S) + Weight(orders, T)
    BY <2>1, <2>3, WeightSplit
  <2>7. Reserved(bankroll, f) = Cost(S) + Cost(T)
    BY <2>3, <2>4, <2>5, <2>6
  <2> QED BY <2>7 DEF S, T
<1> QED BY <1>1, LedgerInvariant, PTL
=============================================================================
