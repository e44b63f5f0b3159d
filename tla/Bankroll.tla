------------------------------ MODULE Bankroll ------------------------------
(***************************************************************************)
(* BankrollManager of bots/paint (bankroll.rs): the balance, and the       *)
(* capital reserved for orders and trades, kept in an active and a         *)
(* pending-settlement bucket per strategy family and in two totals that    *)
(* are updated beside them.  The operators take and return the whole       *)
(* bankroll; RuntimeDecision holds one and calls them.                     *)
(*                                                                         *)
(* Abstractions.                                                           *)
(*  - Amounts are whole units, fractions of the configuration are n/Scale. *)
(*  - How much an order asks for (Kelly fraction, confidence, minimum bet) *)
(*    is open: any cost up to the limits that sizing obeys.                *)
(*  - reserved_capital and reserved_capital_by_family are recomputed from  *)
(*    the buckets after every change, so the branches for a "manually      *)
(*    overridden" total are never taken and are left out.                  *)
(*  - can_trade (balance floor, drawdown pause) only refuses orders, as    *)
(*    strategies may at any time; win and loss statistics feed sizing.     *)
(***************************************************************************)
EXTENDS Integers

CONSTANTS
    Scale,         \* denominator of all fractions
    MaxPosition,   \* max_position_usd
    Ceiling,       \* open_exposure_ceiling_usd()
    Fraction,      \* position_fraction_target of each family, over Scale
    Sleeves        \* families with an explicit sleeve (explicit_family_sleeve_fraction)

\* portfolio.rs, StrategyFamily
Families == {"latency_arb", "spread_capture", "calm_persistence"}

ASSUME BankrollAssumption ==
    /\ Scale \in Nat \ {0}
    /\ MaxPosition \in Nat
    /\ Ceiling \in Nat
    /\ Fraction \in [Families -> 0..Scale]
    /\ Sleeves \subseteq Families

Bankrolls == [balance : Int, fees : Nat,
              active : [Families -> Nat], pending : [Families -> Nat],
              activeTotal : Nat, pendingTotal : Nat]

\* new_in_memory
NewBankroll(balance) ==
    [balance |-> balance, fees |-> 0,
     active |-> [f \in Families |-> 0], pending |-> [f \in Families |-> 0],
     activeTotal |-> 0, pendingTotal |-> 0]

Least(a, b) == IF a <= b THEN a ELSE b

\* f64::max(0.0)
Positive(a) == IF a >= 0 THEN a ELSE 0

AddUp(bucket) ==
    bucket["latency_arb"] + bucket["spread_capture"] + bucket["calm_persistence"]

\* Reserve of one family, in both buckets.
Reserved(b, f) == b.active[f] + b.pending[f]

\* Full, undiscounted reserve.
Committed(b) == b.activeTotal + b.pendingTotal

-----------------------------------------------------------------------------
(* What a new order may cost.  policy holds the two fractions of the         *)
(* pending-settlement policy, over Scale.                                    *)

\* effective_reserved_capital, times Scale.
EffectiveReserved(b, policy) ==
    b.activeTotal * Scale + b.pendingTotal * policy.global

\* effective_reserved_for_family, times Scale.
EffectiveForFamily(b, f, policy) ==
    b.active[f] * Scale + b.pending[f] * policy.family

\* Variant: the ceiling is held against the discounted reserve.
DiscountedHeadroom(b) == Positive(Ceiling - b.activeTotal)

\* open_exposure_headroom
Headroom(b) == Positive(Ceiling - Committed(b))

\* reserve_capital_with_reserve_price and reserve_spread_capital_for_family,
\* with available_spread_budget_for_family: an order of this cost fits.
Affordable(b, f, cost, policy) ==
    /\ cost > 0
    /\ cost * Scale <= b.balance * Scale - EffectiveReserved(b, policy)
    /\ cost <= MaxPosition
    /\ cost * Scale <= b.balance * Fraction[f]
    /\ f \in Sleeves => cost * Scale <= b.balance * Fraction[f] - EffectiveForFamily(b, f, policy)
    /\ cost <= Headroom(b)

-----------------------------------------------------------------------------
(* Changes of the reserve.                                                   *)

\* add_reserved
AddReserved(b, f, amount) ==
    [b EXCEPT !.active[f] = @ + amount, !.activeTotal = @ + amount]

\* hydrate_trade_reserve of a trade whose market has ended.
AddPending(b, f, amount) ==
    [b EXCEPT !.pending[f] = @ + amount, !.pendingTotal = @ + amount]

\* consume_family_active_reserve
ConsumeActive(b, f, amount) ==
    LET released == Least(amount, b.active[f])
    IN [b EXCEPT !.active[f] = Positive(@ - released),
                 !.activeTotal = Positive(@ - released)]

\* consume_family_pending_reserve
ConsumePending(b, f, amount) ==
    LET released == Least(amount, b.pending[f])
    IN [b EXCEPT !.pending[f] = Positive(@ - released),
                 !.pendingTotal = Positive(@ - released)]

\* release_from_family_buckets: active first, then pending settlement.
Release(b, f, amount) ==
    ConsumePending(ConsumeActive(b, f, amount), f, amount - Least(amount, b.active[f]))

\* Variant: the total is not moved with the family's bucket.
ToPendingFamilyOnly(b, f, amount) ==
    LET moved == Least(amount, b.active[f])
    IN [b EXCEPT !.active[f] = @ - moved, !.pending[f] = @ + moved]

\* transition_family_reserve_to_pending
ToPending(b, f, amount) ==
    AddPending(ConsumeActive(b, f, amount), f, Least(amount, b.active[f]))

\* apply_trade_result_in_memory
ApplyTradeResult(b, f, cost, payout, fee) ==
    [Release(b, f, cost) EXCEPT !.balance = @ + payout - cost - fee, !.fees = @ + fee]
=============================================================================
