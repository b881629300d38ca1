------------------------------- MODULE Risk -------------------------------
(***************************************************************************)
(* The capital and the risk tier of every symbol, as they follow from the  *)
(* trades it closes: CapitalManager, AdaptiveRiskManager with its          *)
(* classifier and kill switch, the sizing of a grid, and the halt of the   *)
(* whole portfolio by GlobalRiskManager (bot_v2/risk, and the callers in   *)
(* bot_v2/bot.py).                                                         *)
(*                                                                         *)
(* Two paths write the tier of a symbol and count its trades, each from a  *)
(* history of its own: a signal reads the directional trades of the file,  *)
(* from the current capital, over a long window; a close reads directional *)
(* and then grid trades, from the initial capital, over a short one.  None *)
(* of the two awaits anything between reading and writing the tier, so     *)
(* each is one step; but between a grid trade's entry in the history and   *)
(* its credit the history is written by a thread, and others go on.  Money *)
(* is in whole dollars, a profit factor and a Sharpe ratio in tenths, a    *)
(* share in percent.                                                       *)
(***************************************************************************)
EXTENDS Integers, SequencesExt, FiniteSetsExt

CONSTANTS
    Symbols,          \* configured, each with a grid (grid_enabled)
    InitialCapital,   \* initial_capital of each
    PnLs,             \* results of trades and of grid sessions
    TierFile,         \* the tiers of adaptive_risk_tiers.json, in its order
    EvalOrder,        \* tier_eval_order: names, or empty
    EntryLookback,    \* lookback_trades
    ExitLookback,     \* the default of calculate_metrics()
    PFTrades,         \* pf_min_trades_for_validation
    PromoteAfter, PromoteBuffer, MinStay,        \* promotion_rules
    DemoteAfter, DemoteBuffer,                   \* demotion_rules
    KillDrawdown, KillStreak, KillTrades,        \* kill_switch_*
    HaltDrawdown,     \* max_drawdown_pct of the portfolio
    LevelsUp, LevelsDown, MinLevels, BaseLeverage, MinOrder, MaxOrder,
    MaxTrades, MaxBanks, MaxRestarts             \* bounds

TierType ==
    [name : STRING, minTrades : Int, pf : Int, sharpe : Int, winRate : Int, drawdown : Int,
     streak : Int, ratio : Int, leverage : Int, cap : Int]

ASSUME RiskAssumption ==
    /\ IsFiniteSet(Symbols)
    /\ TierFile \in Seq(TierType) /\ TierFile # <<>>
    /\ EvalOrder \in Seq(STRING)
    /\ \A i, j \in DOMAIN TierFile : TierFile[i].name = TierFile[j].name => i = j
    /\ \A i, j \in DOMAIN EvalOrder : EvalOrder[i] = EvalOrder[j] => i = j
    /\ InitialCapital \in Nat /\ PnLs \subseteq Int \ {0}
    /\ {EntryLookback, ExitLookback, LevelsUp, LevelsDown, MinLevels, BaseLeverage, MinOrder}
         \subseteq Nat \ {0}
    /\ MaxOrder \in Nat /\ MaxOrder >= MinOrder
    /\ {PFTrades, PromoteAfter, PromoteBuffer, MinStay, DemoteAfter, DemoteBuffer} \subseteq Nat
    /\ {KillStreak, KillTrades} \subseteq Nat
    /\ {KillDrawdown, HaltDrawdown} \subseteq 0..100
    /\ {MaxTrades, MaxBanks, MaxRestarts} \subseteq Nat

VARIABLES
    capital,      \* the capital file: of each symbol
    tier,         \* the capital file: the tier of each, with its counters
    directional,  \* trade_history.json: of each symbol, in order
    grid,         \* the grid trade history, likewise
    position,     \* leverage of the open directional position, 0 for none
    on,           \* is_active of each grid
    reason,       \* shutdown_reason in grid_states.json, "" for none
    killed,       \* kill_switch_active, in memory only
    peak,         \* peak_portfolio_value, in memory only
    phase,        \* "running", "halted" (the loop has ended) or "down"
    crediting,    \* of each: a grid trade in the history, not yet credited
    (* history *)
    closings,     \* trades and sessions that ended since the tier was entered
    banks, restarts

files == <<capital, tier, directional, grid, position, reason>>
riskVars == <<files, on, killed, peak, phase, crediting, closings, banks, restarts>>

-----------------------------------------------------------------------------
(* load_risk_tiers_from_config() *)

RiskTier(name, minTrades, pf, sharpe, winRate, drawdown, streak, ratio, leverage, cap) ==
    [name |-> name, minTrades |-> minTrades, pf |-> pf, sharpe |-> sharpe,
     winRate |-> winRate, drawdown |-> drawdown, streak |-> streak,
     ratio |-> ratio, leverage |-> leverage, cap |-> cap]

(* 0 stands for a limit that is not set; no tier here has a maximum of     *)
(* trades or of profit factor.                                             *)
DefaultTiers ==
    << RiskTier("CHAMPION",     50, 20,    15, 50, 12, 3, 100, 12, 30),
       RiskTier("AGGRESSIVE",   30, 15,    10, 45, 15, 5,  90, 10, 25),
       RiskTier("STANDARD",     15, 12,     5, 40, 25, 0,  80, 10, 20),
       RiskTier("CONSERVATIVE", 15,  8,    -5, 35,  0, 0,  65,  7, 15),
       RiskTier("PROBATION",     0,  0, -9990,  0,  0, 0,  50,  5, 10) >>

ValidTier(t) == t.leverage > 0 /\ t.ratio \in 0..100 /\ t.minTrades >= 0 /\ t.pf >= 0

(* Best first: in the order that is configured; those it does not list      *)
(* come last, by their share of levels, and as they stand in the file.      *)
Place(t) == Min({k \in DOMAIN EvalOrder : EvalOrder[k] = t.name} \cup {Len(EvalOrder) + 1})

Before(i, j) ==
    LET s == TierFile[i]
        t == TierFile[j]
    IN  \/ Place(s) < Place(t)
        \/ Place(s) = Place(t) /\ s.ratio > t.ratio
        \/ Place(s) = Place(t) /\ s.ratio = t.ratio /\ i < j

Rank(i) == Cardinality({j \in DOMAIN TierFile : Before(j, i)}) + 1

SortedTiers ==
    [k \in DOMAIN TierFile |-> TierFile[CHOOSE i \in DOMAIN TierFile : Rank(i) = k]]

Tiers == IF \A t \in ToSet(TierFile) : ValidTier(t) THEN SortedTiers ELSE DefaultTiers

(* PROBATION, which every tier gives way to *)
Lowest == Len(Tiers)

-----------------------------------------------------------------------------
(* PerformanceAnalyzer.calculate_metrics() *)

(* grid trades carry no R multiple *)
Trade(p, r) == [pnl |-> p, r |-> r]

Total(s) ==
    LET sum[i \in 0..Len(s)] == IF i = 0 THEN 0 ELSE sum[i - 1] + s[i]
    IN  sum[Len(s)]
PnL(h) == [i \in DOMAIN h |-> h[i].pnl]
Won(h) == [i \in DOMAIN h |-> Max({0, h[i].pnl})]
Lost(h) == [i \in DOMAIN h |-> Max({0, -h[i].pnl})]
R(h) == [i \in DOMAIN h |-> h[i].r]
Equity(h, c, i) == c + Total(PnL(SubSeq(h, 1, i)))
Dip(h, c, i) == [peak |-> Max({Equity(h, c, j) : j \in 0..i}), equity |-> Equity(h, c, i)]
DeeperThan(d, pct) == d.peak > 0 /\ (d.peak - d.equity) * 100 > pct * d.peak

Window(h, n) == SubSeq(h, Max({1, Len(h) - n + 1}), Len(h))
Losing(w, i, j) == \A k \in i..j : w[k].pnl < 0
Streak(w) == Len(w) - Max({0} \cup {i \in DOMAIN w : w[i].pnl >= 0})
LongestStreak(w) ==
    Max({0} \cup {n \in 1..Len(w) : \E i \in 1..Len(w) - n + 1 : Losing(w, i, i + n - 1)})

Metrics(h, n, c) ==
    LET w == Window(h, n)
    IN  [total |-> Len(h), count |-> Len(w), wins |-> Cardinality({i \in DOMAIN w : w[i].pnl > 0}),
         won |-> Total(Won(w)), lost |-> Total(Lost(w)),
         streak |-> Streak(w), longest |-> LongestStreak(w),
         r |-> Total(R(w)), squares |-> Total([i \in DOMAIN w |-> R(w)[i] * R(w)[i]]),
         dips |-> {Dip(h, c, i) : i \in 0..Len(h)}, dip |-> Dip(h, c, Len(h))]

(* without a loss the factor is 10, without a trade 0 *)
FactorAtLeast(m, x) ==
    IF m.lost > 0 THEN 10 * m.won >= x * m.lost
    ELSE (IF m.won > 0 THEN 100 ELSE 0) >= x

(* 252 times the mean squared over the variance; equal returns count as    *)
(* all but certain, and fewer than two as 0                                *)
SharpeAtLeast(m, x) ==
    LET v == m.count * m.squares - m.r * m.r
    IN  IF m.count < 2 \/ m.r = 0 THEN 0 >= x
        ELSE IF m.r > 0 THEN x <= 0 \/ 25200 * m.r * m.r >= x * x * v
        ELSE x < 0 /\ v > 0 /\ 25200 * m.r * m.r <= x * x * v
-----------------------------------------------------------------------------
(* RiskTierClassifier *)

(* what _check_criteria_detailed() looks at before the profit factor *)
Experienced(m, t) == m.total >= t.minTrades /\ (m.total >= PFTrades \/ t.pf < 12)

(* and after it *)
Steady(m, t) ==
    /\ SharpeAtLeast(m, t.sharpe)
    /\ m.wins * 100 >= t.winRate * m.count
    /\ t.drawdown = 0 \/ \A d \in m.dips : ~DeeperThan(d, t.drawdown)
    /\ t.streak = 0 \/ m.longest <= t.streak

Meets(m, t) == Experienced(m, t) /\ FactorAtLeast(m, t.pf) /\ Steady(m, t)

(* the best of the tiers in S that qualifies *)
BestOf(m, S) == Min({i \in S : Meets(m, Tiers[i])} \cup {Lowest})

(* a tier i better than the current one *)
MayPromote(m, h, i) ==
    /\ h.trades >= MinStay
    /\ PromoteBuffer > 0 => FactorAtLeast(m, Tiers[i].pf + PromoteBuffer)
    /\ h.trades >= PromoteAfter

(* the profit factor is the first that the current tier lacks, and by little *)
WithinBuffer(m, h) ==
    LET t == Tiers[h.at]
    IN  /\ DemoteBuffer > 0
        /\ Experienced(m, t) /\ ~FactorAtLeast(m, t.pf)
        /\ FactorAtLeast(m, t.pf - DemoteBuffer)

(* as a mutation: the next tier, whether or not it qualifies *)
Demoted_ByOne(m, h) == Min({h.at + 1, Lowest})
Demoted(m, h) == BestOf(m, h.at + 1 .. Lowest)

Classified(m, h) ==
    LET best == BestOf(m, 1..Lowest)
    IN  IF best < h.at
        THEN IF MayPromote(m, h, best) THEN best ELSE h.at
        ELSE IF best > h.at
        THEN IF WithinBuffer(m, h) THEN h.at ELSE Demoted(m, h)
        ELSE IF Meets(m, Tiers[h.at]) /\ DemoteAfter > 0 /\ h.losses >= DemoteAfter
             THEN Demoted(m, h) ELSE h.at

EntersTier(i, total) == [at |-> i, trades |-> 0, losses |-> 0, total |-> total]
NewSymbol == EntersTier(Lowest, 0)

-----------------------------------------------------------------------------
(* Two writers of the tier *)

(* calculate_position_parameters(): at a signal *)
EntryMetrics(s) == Metrics(directional[s], EntryLookback, capital[s])

(* as a mutation: a signal counts whether or not a trade has closed *)
Counted_Always(h, m) == h.trades + 1
Counted(h, m) == IF m.total > h.total THEN h.trades + 1 ELSE h.trades

AtSignal(h, m) ==
    LET i == Classified(m, h)
    IN  IF i # h.at THEN EntersTier(i, 0)
        ELSE [at |-> i, trades |-> Counted(h, m), losses |-> m.streak, total |-> m.total]

(* _reclassify_tier_after_exit(): after a trade or a session *)
ExitMetrics(d, g) == Metrics(d \o g, ExitLookback, InitialCapital)

AtClose(h, m) ==
    LET i == Classified(m, h)
    IN  IF i # h.at THEN EntersTier(i, m.total)
        ELSE [at |-> i, trades |-> h.trades + 1, losses |-> m.streak, total |-> m.total]

(* of the symbols in S, whose histories are now d and g *)
Reclassified(S, d, g) ==
    /\ tier' = [s \in Symbols |->
                  IF s \in S THEN AtClose(tier[s], ExitMetrics(d[s], g[s])) ELSE tier[s]]
    /\ closings' = [s \in Symbols |->
                      IF s \notin S THEN closings[s]
                      ELSE IF tier'[s].at # tier[s].at THEN 0 ELSE closings[s] + 1]

(* as a mutation: without the floor *)
Credited_Below(c, x) == c + x

(* update_capital(): never below zero *)
Credited(c, x) == Max({0, c + x})

KillSwitch(m) ==
    \/ DeeperThan(m.dip, KillDrawdown)
    \/ m.streak >= KillStreak
    \/ m.total >= KillTrades /\ ~FactorAtLeast(m, 6)

(* round(): to the nearest, and from the middle to the even neighbour *)
Rounded(a, b) ==
    LET q == a \div b
        rest == 2 * (a % b)
    IN  IF rest > b \/ (rest = b /\ q % 2 = 1) THEN q + 1 ELSE q

(* calculate_position_size(): five times the tier's multiplier, rounded *)
Leverage(t) == Max({1, Min({Rounded(5 * t.leverage, 10), t.cap})})

Closed == LET n(s) == Len(directional[s]) + Len(grid[s]) IN MapThenSumSet(n, Symbols)

-----------------------------------------------------------------------------
(* Directional signals *)

MaySize(s) == phase = "running" /\ position[s] = 0 /\ capital[s] > 0 /\ ~killed[s]

KillSwitchTrips(s) ==
    /\ MaySize(s)
    /\ KillSwitch(EntryMetrics(s))
    /\ killed' = [killed EXCEPT ![s] = TRUE]
    /\ UNCHANGED <<files, on, peak, phase, crediting, closings, banks, restarts>>

(* The signal is sized; the order may still be refused. *)
Signal(s) ==
    /\ MaySize(s)
    /\ ~KillSwitch(EntryMetrics(s))
    /\ tier' = [tier EXCEPT ![s] = AtSignal(@, EntryMetrics(s))]
    /\ closings' = [closings EXCEPT ![s] = IF tier'[s].at # tier[s].at THEN 0 ELSE @]
    /\ \E filled \in BOOLEAN :
         position' = [position EXCEPT ![s] = IF filled THEN Leverage(Tiers[tier'[s].at]) ELSE 0]
    /\ UNCHANGED <<capital, directional, grid, reason, on, killed, peak, phase, crediting, banks, restarts>>

DirectionalTradeCloses(s, p) ==
    /\ phase = "running" /\ position[s] > 0 /\ Closed < MaxTrades
    /\ position' = [position EXCEPT ![s] = 0]
    /\ capital' = [capital EXCEPT ![s] = Credited(@, p)]
    /\ directional' = [directional EXCEPT ![s] = Append(@, Trade(p, p))]
    /\ Reclassified({s}, directional', grid)
    /\ UNCHANGED <<grid, reason, on, killed, peak, phase, crediting, banks, restarts>>

-----------------------------------------------------------------------------
(* Grid sessions *)

(* _on_grid_trade_closed(), up to the thread that writes the history: the   *)
(* trades of a symbol are taken one after the other                        *)
GridTradeCloses(s, p) ==
    /\ phase = "running" /\ on[s] /\ crediting[s] = 0 /\ Closed < MaxTrades
    /\ grid' = [grid EXCEPT ![s] = Append(@, Trade(p, 0))]
    /\ crediting' = [crediting EXCEPT ![s] = p]
    /\ UNCHANGED <<capital, tier, directional, position, reason, on, killed, peak, phase,
                   closings, banks, restarts>>

(* The history is written: the rest of it, for the grid that may have been *)
(* stopped and banked meanwhile, and in a process that may be shutting     *)
(* down.                                                                   *)
GridTradeCredited(s) ==
    /\ crediting[s] # 0
    /\ capital' = [capital EXCEPT ![s] = Credited(@, crediting[s])]
    /\ crediting' = [crediting EXCEPT ![s] = 0]
    /\ Reclassified({s}, directional, grid)
    /\ UNCHANGED <<directional, grid, position, reason, on, killed, peak, phase, banks, restarts>>

(* The process is gone: what was not credited never is, and the file may   *)
(* or may not have the trade.                                              *)
ClosesAreLost ==
    /\ crediting' = [s \in Symbols |-> 0]
    /\ \E written \in SUBSET {s \in Symbols : crediting[s] # 0} :
         grid' = [s \in Symbols |-> IF crediting[s] = 0 \/ s \in written THEN grid[s]
                                    ELSE SubSeq(grid[s], 1, Len(grid[s]) - 1)]

(* _on_session_pnl_bank() for the grids in S: b is the cash flow of each,  *)
(* 0 when there is none or lots are open                                   *)
Banked(S, b) ==
    LET banking == {s \in S : b[s] # 0}
    IN  /\ banks + Cardinality(banking) <= MaxBanks
        /\ banks' = banks + Cardinality(banking)
        /\ capital' = [s \in Symbols |-> IF s \in banking THEN Credited(capital[s], b[s]) ELSE capital[s]]
        /\ Reclassified(banking, directional, grid)

(* stop() of the grids in S *)
Stopped(S, why) ==
    /\ \E b \in [S -> PnLs \cup {0}] : Banked(S, b)
    /\ reason' = [s \in Symbols |-> IF s \in S THEN why ELSE reason[s]]
    /\ on' = [s \in Symbols |-> s \notin S /\ on[s]]

(* by a command, a trend, a target or a drawdown *)
GridStops(s) ==
    /\ phase = "running" /\ on[s]
    /\ Stopped({s}, "Grid Stop")
    /\ UNCHANGED <<directional, grid, position, killed, peak, phase, crediting, restarts>>

(* _bank_and_reinvest(): the session is banked and the next one begins *)
SessionReinvests(s, p) ==
    /\ phase = "running" /\ on[s] /\ crediting[s] = 0
    /\ Banked({s}, [x \in {s} |-> p])
    /\ UNCHANGED <<directional, grid, position, reason, on, killed, peak, phase, crediting, restarts>>

(* the operator's grid_start; a re-centred grid is started likewise *)
StartGrid(s) ==
    /\ phase # "down" /\ ~on[s]
    /\ on' = [on EXCEPT ![s] = TRUE]
    /\ UNCHANGED <<files, killed, peak, phase, crediting, closings, banks, restarts>>

-----------------------------------------------------------------------------
(* The portfolio *)

(* the loop looks at the portfolio between two of its rounds *)
BetweenRounds == phase = "running" /\ \A s \in Symbols : crediting[s] = 0

TotalEquity == LET order == SetToSeq(Symbols) IN Total([i \in DOMAIN order |-> capital[order[i]]])

PeakRises ==
    /\ BetweenRounds /\ TotalEquity > peak
    /\ peak' = TotalEquity
    /\ UNCHANGED <<files, on, killed, phase, crediting, closings, banks, restarts>>

(* evaluate_portfolio_risk() ends the loop, which stops every grid first *)
PortfolioHalts ==
    /\ BetweenRounds
    /\ \/ TotalEquity <= 0
       \/ TotalEquity <= peak /\ (peak - TotalEquity) * 100 >= HaltDrawdown * peak
    /\ Stopped({s \in Symbols : on[s]}, "Portfolio Halt")
    /\ phase' = "halted"
    /\ UNCHANGED <<directional, grid, position, killed, peak, crediting, restarts>>

(* _persist_state() of the loop rewrites every grid state without a reason *)
PersistState ==
    /\ phase = "running" /\ \E s \in Symbols : reason[s] # ""
    /\ reason' = [s \in Symbols |-> ""]
    /\ UNCHANGED <<capital, tier, directional, grid, position, on, killed, peak, phase,
                   crediting, closings, banks, restarts>>

(* shutdown(), which is only asked of a loop that still runs *)
Shutdown ==
    /\ phase = "running"
    /\ \E b \in [{s \in Symbols : on[s]} -> PnLs \cup {0}] : Banked({s \in Symbols : on[s]}, b)
    /\ reason' = [s \in Symbols |-> ""]
    /\ on' = [s \in Symbols |-> FALSE]
    /\ phase' = "down"
    /\ UNCHANGED <<directional, grid, position, killed, peak, crediting, restarts>>

(* the process dies, or ends after a halt *)
ProcessEnds ==
    /\ phase # "down"
    /\ phase' = "down"
    /\ on' = [s \in Symbols |-> FALSE]
    /\ ClosesAreLost
    /\ UNCHANGED <<capital, tier, directional, position, reason, killed, peak, closings, banks,
                   restarts>>

(* what start() looks for in the upper-cased reason; no reason of the code *)
(* contains another word of the set than its own                           *)
SafetyReasons == {"PORTFOLIO_HALT", "EMERGENCY", "MAX_DD", "CRASH"}
Upper(why) == CASE why = "Portfolio Halt" -> "PORTFOLIO HALT"
                [] why = "Grid Stop" -> "GRID STOP"
                [] OTHER -> ""
StartsAgain(why) == Upper(why) \notin SafetyReasons

(* initialize(): every configured grid is started with its file state *)
Restart ==
    /\ phase = "down" /\ restarts < MaxRestarts
    /\ restarts' = restarts + 1
    /\ phase' = "running"
    /\ killed' = [s \in Symbols |-> FALSE]
    /\ peak' = 0
    /\ on' = [s \in Symbols |-> StartsAgain(reason[s])]
    /\ ClosesAreLost
    /\ UNCHANGED <<capital, tier, directional, position, reason, closings, banks>>

-----------------------------------------------------------------------------
RiskInit ==
    /\ capital = [s \in Symbols |-> InitialCapital]
    /\ tier = [s \in Symbols |-> NewSymbol]
    /\ directional = [s \in Symbols |-> <<>>]
    /\ grid = [s \in Symbols |-> <<>>]
    /\ position = [s \in Symbols |-> 0]
    /\ on = [s \in Symbols |-> TRUE]
    /\ reason = [s \in Symbols |-> ""]
    /\ killed = [s \in Symbols |-> FALSE]
    /\ peak = 0
    /\ phase = "running"
    /\ crediting = [s \in Symbols |-> 0]
    /\ closings = [s \in Symbols |-> 0]
    /\ banks = 0 /\ restarts = 0

RiskNext ==
    \/ \E s \in Symbols :
         \/ KillSwitchTrips(s)
         \/ Signal(s)
         \/ GridTradeCredited(s)
         \/ GridStops(s)
         \/ StartGrid(s)
         \/ \E p \in PnLs :
              \/ DirectionalTradeCloses(s, p)
              \/ GridTradeCloses(s, p)
              \/ SessionReinvests(s, p)
    \/ PeakRises
    \/ PortfolioHalts
    \/ PersistState
    \/ Shutdown
    \/ ProcessEnds
    \/ Restart

RiskSpec == RiskInit /\ [][RiskNext]_riskVars

-----------------------------------------------------------------------------
(* PositionSizer.calculate_grid_params(), in cents and tenths *)

GridLeverage(t) == Max({10, Min({BaseLeverage * t.leverage, 10 * t.cap})})
Notional(c, t) == c * 10 * GridLeverage(t)
(* as a mutation: what the tier's cap leaves of the leverage is ignored *)
EnoughCapital_Base(c, t) == c * 10 * BaseLeverage >= MinLevels * MinOrder * 10
EnoughCapital(c, t) == c * GridLeverage(t) >= MinLevels * MinOrder * 10

Configured == LevelsUp + LevelsDown
Even(n) == n - (n % 2)
ByTier(t) == Max({2, Even((Configured * t.ratio) \div 100)})
ByCapital(c, t) == Notional(c, t) \div (100 * MinOrder)
ActiveLevels(c, t) == Min({Configured, Max({MinLevels, Min({ByTier(t), ByCapital(c, t)})})})

OrderSize(c, t) ==
    Max({100 * MinOrder, Min({100 * MaxOrder, Rounded(Notional(c, t), ActiveLevels(c, t))})})

-----------------------------------------------------------------------------
(* Every symbol has a capital, a tier of the table and counters that are   *)
(* counts, whoever wrote them last; nothing has come after a position      *)
(* without a leverage (CapitalManager).                                    *)
RiskTypeOK ==
    /\ capital \in [Symbols -> Nat]
    /\ tier \in [Symbols -> [at : 1..Lowest, trades : Nat, losses : Nat, total : Nat]]
    /\ directional \in [Symbols -> Seq([pnl : PnLs, r : PnLs])]
    /\ grid \in [Symbols -> Seq([pnl : PnLs, r : {0}])]
    /\ position \in [Symbols -> Nat]
    /\ on \in [Symbols -> BOOLEAN] /\ killed \in [Symbols -> BOOLEAN]
    /\ reason \in [Symbols -> {"", "Grid Stop", "Portfolio Halt"}]
    /\ peak \in Nat /\ phase \in {"running", "halted", "down"}
    /\ crediting \in [Symbols -> PnLs \cup {0}] /\ closings \in [Symbols -> Nat]
    /\ banks \in 0..MaxBanks /\ restarts \in 0..MaxRestarts

(* A symbol moves up only after MinStay trades or sessions in its tier:    *)
(* two writers with different totals count them, and between them they     *)
(* count at most one too many: a signal after a change of tier counts a    *)
(* trade that the change had already seen.                                 *)
PromotionIsEarned ==
    [][\A s \in Symbols : tier'[s].at < tier[s].at => closings[s] + 1 >= MinStay]_riskVars

(* What the loader asks of the table: a better tier requires no less than  *)
(* a worse one, and the last one nothing.  It only warns when the profit   *)
(* factors are not in order; the tiers it ships and its own defaults are.  *)
Ordered ==
    /\ \A i, j \in 1..Lowest :
         i < j => /\ Tiers[j].minTrades <= Tiers[i].minTrades
                  /\ Tiers[j].pf <= Tiers[i].pf
    /\ Tiers[Lowest].minTrades = 0 /\ Tiers[Lowest].pf = 0

(* A trade's close is through, and not cut short by the end of the process. *)
Closes(s) ==
    \/ directional'[s] # directional[s]
    \/ crediting[s] # 0 /\ crediting'[s] = 0 /\ phase' = phase

Deserves(m, t) == m.total >= t.minTrades /\ FactorAtLeast(m, t.pf - DemoteBuffer)

(* When the close of a trade is through, the symbol is left in a tier      *)
(* whose trades it has and whose profit factor it reaches up to the        *)
(* demotion buffer, whichever branch of classify() decided and whatever    *)
(* was banked or traded while the history was written.                     *)
TierIsDeserved ==
    [][\A s \in Symbols :
         Closes(s) => Deserves(ExitMetrics(directional'[s], grid'[s]), Tiers[tier'[s].at])]_riskVars

(* A grid that is deployed at the capital and the tier of its symbol fits: *)
(* no more levels than configured, and all of its orders within the        *)
(* leveraged capital, up to the rounding of their size to cents.           *)
GridFits ==
    \A s \in Symbols :
        LET t == Tiers[tier[s].at]
            n == ActiveLevels(capital[s], t)
        IN  EnoughCapital(capital[s], t)
              => /\ n <= Configured
                 /\ 2 * (n \div 2) * OrderSize(capital[s], t) <= Notional(capital[s], t) + n
=============================================================================
