----------------------------- MODULE ExitEngine -----------------------------
(***************************************************************************)
(* What one tick of _monitor_positions() (bot_v2/bot.py) decides about a    *)
(* directional position: the tracker measures it, the trailing stop is      *)
(* activated and ratcheted, and the exit engine returns the first condition *)
(* that holds.  Every price is the distance from the entry in the direction *)
(* of the position, in hundredths of its initial risk (1R, the ATR at the   *)
(* entry), so LONG and SHORT are one position, except where a decay is a    *)
(* share of the price itself.  A tick is one step: what may happen between  *)
(* its awaits is module Positions.                                          *)
(***************************************************************************)
EXTENDS Integers, SequencesExt

CONSTANTS
    Moves,            \* the distances a price may have
    ATRs,             \* the values of the current ATR
    EntryPrice,       \* the entry price itself
    SoftSL,           \* soft_sl_atr_mult, or the distance of the xATR stop
    HardSL,           \* hard_sl_atr_mult
    CatastrophicStop, \* catastrophic_stop_mult
    TP1a,             \* tp1a_atr_mult
    TP1,              \* tp1_atr_mult
    TrailingStart,    \* trailing_start_r
    AdverseR,         \* partial_exit_on_adverse_r
    BreakevenOffset,  \* breakeven_offset_atr
    ApePullback,      \* post_tp1_ape_base_pullback_pct
    ApeInitial,       \* post_tp1_ape_initial_pullback_pct
    Amount,           \* the amount of the entry
    TP1aPct,          \* tp1a_close_percent
    PartialPct,       \* partial_exit_pct
    MinAmount         \* the amount worth BOT_MIN_NOTIONAL_USD

ASSUME ExitEngineAssumption ==
    /\ Moves \subseteq Int /\ Moves # {}
    /\ ATRs \subseteq Nat \ {0} /\ ATRs # {}
    /\ EntryPrice \in Nat \ {0}
    /\ {SoftSL, HardSL, CatastrophicStop, TP1a, TP1, TrailingStart, AdverseR} \subseteq Nat \ {0}
    /\ BreakevenOffset \in Int
    /\ {Amount, MinAmount} \subseteq Nat \ {0}
    /\ {TP1aPct, PartialPct} \subseteq 1..99
    /\ {ApePullback, ApeInitial} \subseteq Nat

VARIABLES
    pos,     \* positions[symbol], or NoPos once it is closed
    age,     \* since entry_time, as one of Ages
    since,   \* since time_of_tp1: "never", "probation" (2 minutes), "initial"
             \* (a third, post_tp1_ape_initial_minutes) or "later"
    last,    \* the price of the last tick
    verdict, \* what evaluate_all_exits() returned
    best     \* history: the tightest stop that has been in force

vars == <<pos, age, since, last, verdict, best>>

(* less than a minute; than min_hold_time_hours; than twice that; than      *)
(* stale_max_minutes; than 1.1 times that; and more                         *)
Ages == [minute |-> 1, new |-> 2, held |-> 3, long |-> 4, stale |-> 5, absolute |-> 6]
AtLeast(a) == age >= Ages[a]

NoPos == [amount |-> 0]
None == "none"
Fine == 10000   \* a stop is counted in parts of the unit of a price

IsOpen == pos # NoPos

Greater(a, b) == IF a > b THEN a ELSE b

-----------------------------------------------------------------------------
(* PositionTracker.update_all_metrics() *)

\* as a mutation: the best price is the last one
Measured_Last(p, x) ==
    [p EXCEPT !.mfe = x, !.mae = Greater(@, -x),
              !.beyond = IF p.tp1a THEN Greater(@, x - TP1a) ELSE @,
              !.against = IF p.tp1a THEN Greater(@, TP1a - x) ELSE @]

(* Both trackers: the best price since the entry is also the peak price and *)
(* the peak R, the worst one the greatest adverse R; the distances from     *)
(* TP1a count once it was hit.                                              *)
Measured(p, x) ==
    [p EXCEPT !.mfe = Greater(@, x),
              !.mae = Greater(@, -x),
              !.beyond = IF p.tp1a THEN Greater(@, x - TP1a) ELSE @,
              !.against = IF p.tp1a THEN Greater(@, TP1a - x) ELSE @]

(* A ratio is a fraction; Over(r, k) is r > k/10. *)
Frac(n, d) == [num |-> n, den |-> d]
Over(r, k) == 10 * r.num > k * r.den
Clean == Frac(50, 1)
Neutral == Frac(1, 1)

(* MFE/MAE, with a thousandth of the price as the least move that counts *)
EntryRatio(p) ==
    IF 1000 * p.mae < EntryPrice THEN Clean
    ELSE IF 1000 * p.mfe < EntryPrice THEN Neutral ELSE Frac(p.mfe, p.mae)

(* RatioCalculator.post_tp1_ratio(): a young move first, then a clean one *)
PostRatio(p) ==
    IF p.beyond < 5 THEN Neutral
    ELSE IF p.against < 1 THEN Clean ELSE Frac(p.beyond, p.against)

(* PositionState.update_r_multiples() of the engine: the other way round *)
PostRatioV1(p) ==
    IF p.against < 1 THEN Clean
    ELSE IF p.beyond < 5 THEN Neutral ELSE Frac(p.beyond, p.against)

RatioForTrailing(p) == IF p.tp1a /\ p.beyond > 5 THEN PostRatio(p) ELSE EntryRatio(p)
RatioForExit(p) == IF p.tp1a /\ p.beyond > 10 THEN PostRatioV1(p) ELSE EntryRatio(p)

-----------------------------------------------------------------------------
(* TrailingStopCalculator.  A factor is in thousandths of                  *)
(* trail_sl_atr_mult, which is 1.2.  The state updates it returns are       *)
(* not applied by the bot, so no decay is ever cached or overridden.        *)

(* the share of the peak R, and of the peak price, that was given back, is  *)
(* more than pct percent                                                    *)
RDecayOver(p, x, pct) == p.mfe > 10 /\ 100 * (p.mfe - x) > pct * p.mfe
PriceDecayOver(p, x, pct) ==
    LET peak == IF p.side = "LONG" THEN EntryPrice + p.mfe ELSE EntryPrice - p.mfe
    IN peak > 0 /\ 100 * (p.mfe - x) > pct * peak

DecayOver(by, p, x, pct) == IF by = "r" THEN RDecayOver(p, x, pct) ELSE PriceDecayOver(p, x, pct)

Decay(lo, hi, by, pct, factor) == [lo |-> lo, hi |-> hi, by |-> by, pct |-> pct, factor |-> factor]

(* by the tier of the ratio, in tenths: the decay that tightens, and to what *)
DecayTable == {
    Decay(100, 9999, "r", 15, 250), Decay(100, 9999, "r", 10, 350),
    Decay(50, 100, "r", 20, 300),   Decay(50, 100, "r", 12, 400),
    Decay(25, 50, "price", 25, 350), Decay(25, 50, "price", 18, 450),
    Decay(15, 25, "r", 50, 400),    Decay(15, 25, "r", 35, 500)}

DecayFactor(p, x, ratio) ==
    Min({1000} \cup {d.factor : d \in {e \in DecayTable : /\ Over(ratio, e.lo)
                                                          /\ ~Over(ratio, e.hi)
                                                          /\ DecayOver(e.by, p, x, e.pct)}})

Quality(p) ==
    LET ratio == IF p.mae > 0 THEN Frac(p.mfe, p.mae) ELSE Frac(10, 1)
    IN CASE Over(ratio, 100) -> 14
         [] ~Over(ratio, 100) /\ Over(ratio, 50) -> 12
         [] ~Over(ratio, 50) /\ Over(ratio, 30) -> 10
         [] ~Over(ratio, 30) /\ Over(ratio, 15) -> 8
         [] OTHER -> 6

Stage(x) == IF x > 300 THEN 15 ELSE IF x > 200 THEN 12 ELSE IF x > 100 THEN 10 ELSE 8

(* quality weighs less, and the stage more, the further the trade is *)
Weighted(p, x) ==
    LET weight == IF x < 100 THEN 85 ELSE IF x < 150 THEN 70 ELSE 60
    IN weight * Quality(p) + (100 - weight) * Stage(x)

NormalFactor(p, x, ratio) ==
    LET decayed == IF p.mfe > 30 THEN DecayFactor(p, x, ratio) ELSE 1000
    IN IF decayed # 1000 THEN decayed ELSE Weighted(p, x)

(* PostTP1StateMachine.get_state(), in its order of precedence *)
GivenBack(p, x, pct) == p.beyond > 50 /\ 100 * (70 + p.beyond - x) > pct * (70 + p.beyond)

PostTP1State(p, x) ==
    LET ratio == RatioForTrailing(p)
        metric == IF Over(ratio, 30) THEN "r" ELSE "price"
    IN IF ~p.tp1a THEN "NOT_HIT"
       ELSE IF since = "probation" THEN "PROBATION"
       ELSE IF ratio.num < 3 * ratio.den THEN "WEAK_TRADE"
       ELSE IF GivenBack(p, x, 10) THEN "MOMENTUM_DECAY"
       ELSE IF p.mfe > 15 /\ DecayOver(metric, p, x, 10) THEN "RATIO_DECAY"
       ELSE "NORMAL_TRAILING"

ProbationFactor(ratio) ==
    IF ratio.num < 3 * ratio.den THEN 500 ELSE IF ratio.num < 5 * ratio.den THEN 600 ELSE 700

Factor(p, x) ==
    LET state == PostTP1State(p, x)
        ratio == RatioForTrailing(p)
    IN CASE state = "PROBATION" -> ProbationFactor(ratio)
         [] state = "WEAK_TRADE" -> 600
         [] state = "MOMENTUM_DECAY" -> IF GivenBack(p, x, 15) THEN 250 ELSE 350
         [] state = "RATIO_DECAY" -> DecayFactor(p, x, ratio)
         [] OTHER -> NormalFactor(p, x, ratio)

(* the distance of an ATR and a factor, in the unit of a stop *)
Trail(p, atr, factor) == Fine * p.mfe - 12 * atr * factor

\* as a mutation: the stop follows the distance in both directions
Ratcheted_Both(p, x, atr) == [p EXCEPT !.trail = Trail(p, atr, Factor(p, x))]

(* calculate_trailing_stop() moves the stop in one direction only *)
Ratcheted(p, x, atr) ==
    LET new == Trail(p, atr, Factor(p, x))
    IN IF new > p.trail THEN [p EXCEPT !.trail = new] ELSE p

(* the bot activates it at the full distance, and ratchets it at once: a   *)
(* position has a trailing stop, field trail, exactly when it is active     *)
Activated(p, x, atr) ==
    IF ~p.active /\ (x >= TrailingStart \/ p.tp1a)
    THEN [p EXCEPT !.active = TRUE, !.trail = Trail(p, atr, 1000)]
    ELSE p

Trailed(p, x, atr) ==
    LET q == Activated(p, x, atr) IN IF q.active THEN Ratcheted(q, x, atr) ELSE q

-----------------------------------------------------------------------------
(* ExitConditionEngine.evaluate_all_exits() *)

CatastrophicHit(x) == x <= -CatastrophicStop
HardHit(x) == x <= -HardSL

(* in its first minute a position has no soft stop *)
SoftInForce == AtLeast("new")

SoftHit(p, x) == SoftInForce /\ x <= p.soft

ApeThreshold ==
    IF since \in {"probation", "initial"} THEN Greater(ApePullback, ApeInitial) ELSE ApePullback

(* AggressivePeakExit: a clean trade that gives back a share of its peak R; *)
(* it is measured from TP1a once it went 0.1R beyond, and then needs 0.5R   *)
(* and the two minutes of the probation to be over                          *)
PeakExit(p, x) ==
    /\ p.tp1a
    /\ Over(RatioForExit(p), 50)
    /\ IF p.beyond > 10
       THEN /\ p.beyond >= 50
            /\ since \in {"initial", "later"}
            /\ 100 * (p.beyond - Greater(x - TP1a, 0)) >= ApeThreshold * p.beyond
       ELSE p.mfe >= 30 /\ 100 * (p.mfe - x) >= ApeThreshold * p.mfe

TrailHit(p, x) == p.active /\ Fine * x <= p.trail

\* as a mutation: profit-taking does not wait
Held_Always(p) == TRUE

(* the hold time is twice as long when more was lost than won on the way *)
MeanReversion(p) == IF p.mfe > 0 THEN 10 * p.mae > 7 * p.mfe ELSE p.mae > 10
Held(p) == AtLeast(IF MeanReversion(p) THEN "long" ELSE "held")

TP1aHit(p, x) == ~p.tp1a /\ x >= TP1a
TP1bHit(p, x) == p.tp1a /\ p.amount > 0 /\ ~p.active /\ x >= TP1

(* scaled_out_on_adverse is never set: see TakePart *)
ScaleOut(p) == ~p.tp1a /\ p.mae >= AdverseR

\* as a mutation: only a position that is still whole gets stale
Stale_Whole(p, x) == ~p.tp1a /\ AtLeast("stale")

Flat(x) == x < 10 /\ -x < 10
Stale(p, x) ==
    \/ AtLeast("absolute")
    \/ AtLeast("stale") /\ ~p.tp1a /\ (p.mfe < 30 \/ Flat(x))

Condition(name, due, amount) == [name |-> name, due |-> due, amount |-> amount]
NoExit == Condition(None, FALSE, 0)

Share(p, pct) == (p.amount * pct) \div 100

(* In the order of their priority; the checks within a bar and at its close *)
(* are disabled in the code and never return a condition.                   *)
Conditions(p, x) == <<
    Condition("CatastrophicStop", CatastrophicHit(x), p.amount),
    Condition("HardSL", HardHit(x), p.amount),
    Condition("SoftSL", SoftHit(p, x), p.amount),
    Condition("AggressivePeakExit", PeakExit(p, x), p.amount),
    Condition("TrailExit", TrailHit(p, x), p.amount),
    Condition("TP1a", Held(p) /\ TP1aHit(p, x), Share(p, TP1aPct)),
    Condition("TP1b", Held(p) /\ TP1bHit(p, x), p.amount),
    Condition("AdverseScaleOut", Held(p) /\ ScaleOut(p), Share(p, PartialPct)),
    Condition("StaleTrade", Held(p) /\ Stale(p, x), p.amount)>>

EvaluateAllExits(p, x) ==
    LET conditions == Conditions(p, x)
        due == {i \in DOMAIN conditions : conditions[i].due}
    IN IF due = {} THEN NoExit ELSE conditions[Min(due)]

-----------------------------------------------------------------------------
(* A tick of _monitor_positions() *)

(* what the tightest stop is worth: the hard one, the soft one once it is   *)
(* in force, the trailing one once it is active                             *)
InForce(p) ==
    {-Fine * HardSL} \cup (IF SoftInForce THEN {Fine * p.soft} ELSE {})
                     \cup (IF p.active THEN {p.trail} ELSE {})

(* In what follows p is the position as this tick has measured and trailed  *)
(* it, and v what the engine says of it.                                    *)
Partial(p, v) == v.due /\ v.amount < p.amount
TooSmall(v) == v.amount < MinAmount
RestTooSmall(p, v) == p.amount - v.amount <= MinAmount
CloseAll(p, v) == v.due /\ (v.amount < p.amount => TooSmall(v) /\ RestTooSmall(p, v))

(* None of the conditions holds, or a scale-out is worth too little. *)
Holds(p, v) ==
    /\ \/ ~v.due
       \/ Partial(p, v) /\ ~CloseAll(p, v) /\ TooSmall(v) /\ v.name # "TP1a"
    /\ pos' = p
    /\ UNCHANGED since

(* The exchange refuses the order: the position keeps what was measured. *)
Refused(p, v) ==
    /\ CloseAll(p, v) \/ (Partial(p, v) /\ ~TooSmall(v))
    /\ pos' = p
    /\ UNCHANGED since

(* _exit_position(): of the whole, or when what a partial close would leave *)
(* is worth too little                                                      *)
Exits(p, v) ==
    /\ CloseAll(p, v)
    /\ pos' = NoPos
    /\ UNCHANGED since

AtTP1a(p) == [p EXCEPT !.tp1a = TRUE, !.soft = Greater(BreakevenOffset, 0)]

(* _partial_close_position(): TP1a moves the soft stop to break-even, also  *)
(* when its part is too small to be closed.                                 *)
TakesProfit(p, v) ==
    /\ Partial(p, v) /\ ~CloseAll(p, v)
    /\ v.name = "TP1a"
    /\ pos' = AtTP1a([p EXCEPT !.amount = IF TooSmall(v) THEN @ ELSE @ - v.amount])
    /\ since' = "probation"

(* A scale-out only reduces the amount: the branch that flags it, moves the *)
(* stop and starts the grace period compares the reason with the name of    *)
(* the condition, and the engine's reason is a sentence.                    *)
ScalesOut(p, v) ==
    /\ Partial(p, v) /\ ~TooSmall(v)
    /\ v.name = "AdverseScaleOut"
    /\ pos' = [p EXCEPT !.amount = @ - v.amount]
    /\ UNCHANGED since

Answered(p, v) == Holds(p, v) \/ Exits(p, v) \/ TakesProfit(p, v) \/ ScalesOut(p, v)

(* of the whole monitor; the closing order is served, or it is refused *)
Tick(served) ==
    /\ IsOpen
    /\ UNCHANGED age
    /\ \E x \in Moves :
          /\ last' = x
          /\ \E atr \in ATRs : \E p \in {Trailed(Measured(pos, x), x, atr)} :
                /\ best' = Max({best} \cup InForce(p))
                /\ \E v \in {EvaluateAllExits(p, x)} :
                      /\ verdict' = v
                      /\ IF served THEN Answered(p, v) ELSE Refused(p, v)

(* the clock *)
GetsOlder ==
    /\ IsOpen
    /\ ~AtLeast("absolute")
    /\ age' = age + 1
    /\ UNCHANGED <<pos, since, last, verdict, best>>

TimeSinceTP1 ==
    /\ IsOpen
    /\ \/ since = "probation" /\ since' = "initial"
       \/ since = "initial" /\ since' = "later"
    /\ UNCHANGED <<pos, age, last, verdict, best>>

-----------------------------------------------------------------------------
(* _enter_position(): the stops and the targets, in multiples of the ATR *)
Entered(side) == [
    amount |-> Amount, side |-> side, soft |-> -SoftSL, trail |-> 0, active |-> FALSE,
    tp1a |-> FALSE, mfe |-> 0, mae |-> 0, beyond |-> 0, against |-> 0]

Init ==
    /\ pos \in {Entered("LONG"), Entered("SHORT")}
    /\ age = Ages["minute"]
    /\ since = "never"
    /\ last = 0
    /\ verdict = NoExit
    /\ best = -Fine * HardSL

Next ==
    \/ Tick(TRUE)
    \/ Tick(FALSE)
    \/ GetsOlder
    \/ TimeSinceTP1

(* Time passes, and a position that has aged out is looked at again and     *)
(* again, whatever the price is, by an exchange that does not refuse every  *)
(* order for ever.                                                          *)
Fairness ==
    /\ WF_vars(GetsOlder)
    /\ WF_vars(AtLeast("absolute") /\ Tick(TRUE))

Spec == Init /\ [][Next]_vars /\ Fairness

-----------------------------------------------------------------------------
(* Properties *)

(* The fields of a record that _monitor_positions() and the partial closes  *)
(* write keep their kind: amounts are positive, extremes never negative.    *)
TypeOK ==
    /\ age \in 1..6
    /\ since \in {"never", "probation", "initial", "later"}
    /\ last \in Moves \cup {0}
    /\ best \in Int
    /\ IsOpen =>
          /\ pos.amount \in 1..Amount
          /\ pos.side \in {"LONG", "SHORT"}
          /\ pos.trail \in Int
          /\ pos.active \in BOOLEAN
          /\ {pos.mfe, pos.mae, pos.beyond, pos.against} \subseteq Nat
          /\ pos.tp1a = (since # "never")

(* Protection never loosens (calculate_trailing_stop(): "Ensures stop only  *)
(* moves in protective direction"): whatever the ATR, the quality, the decay*)
(* and the state after TP1a do to the distance, a tick at or beyond the     *)
(* tightest stop the position ever had asks for all of it to be closed,     *)
(* before any profit is taken or any part scaled out.                       *)
NeverLoosens == IsOpen /\ Fine * last <= best => verdict.due /\ verdict.amount >= pos.amount

(* After TP1a the rest is never carried below break-even (the soft stop     *)
(* moves to the entry in _partial_close_position(), and the engine checks   *)
(* it on every tick): such a tick asks for all of it to be closed.  The     *)
(* minute without a soft stop cannot hide it, because TP1a waits for the    *)
(* minimum hold time.                                                       *)
BreakEven == IsOpen /\ pos.tp1a /\ last <= 0 => verdict.due /\ verdict.amount >= pos.amount

(* The safety net of _check_stale_trade(): when time passes and the exchange *)
(* accepts orders at all, every position ends, whatever the prices do and    *)
(* however often a part of it is closed.                                     *)
EndsAtLast == <>~IsOpen
=============================================================================
