--------------------------- MODULE SessionLedger ---------------------------
(***************************************************************************)
(* The money of a grid session: the lots of GridOrchestrator, its cash     *)
(* flow, the trades it closes, and the capital of the symbol they reach    *)
(* (bot_v2/grid/orchestrator.py, bot_v2/risk/capital_manager.py and the    *)
(* callbacks of bot_v2/bot.py).                                            *)
(*                                                                         *)
(* As in GridSession an action is the code between two awaits; only the    *)
(* pairing loop, which does not await, is taken lot by lot, with no other  *)
(* task running in between (pc = "pairing").  Prices and amounts are       *)
(* integers and money is counted in units of a price over Scale, so that   *)
(* the fee of a notional n is Rate * n.                                    *)
(***************************************************************************)
EXTENDS Integers, Sequences

CONSTANTS
    Prices,       \* prices of fills
    Amounts,      \* sizes of orders
    Scale, Rate,  \* MAKER_FEE is Rate / Scale
    StartCapital, \* capital of the symbol
    Fallback,     \* the base used when the capital is 0
    TpPct, DdPct, \* grid_session_tp_pct and grid_session_max_dd_pct, in percent
    Reinvest,     \* grid_session_tp_reinvest
    MayGoStale,   \* lots can exceed GRID_MAX_LOT_AGE_SECONDS
    MaxStops,     \* bound on stops by command, for a trend or a drift
    MaxFills,     \* bound on the number of fills
    MaxCrashes    \* bound on the number of process deaths

ASSUME ConstantsAssumption ==
    /\ Prices \subseteq Nat \ {0}
    /\ Amounts \subseteq Nat \ {0}
    /\ Scale \in Nat \ {0}
    /\ Rate \in 0..Scale
    /\ StartCapital \in Nat
    /\ Fallback \in Nat \ {0}
    /\ TpPct \in Nat /\ DdPct \in Nat
    /\ Reinvest \in BOOLEAN /\ MayGoStale \in BOOLEAN
    /\ MaxStops \in Nat /\ MaxFills \in Nat /\ MaxCrashes \in Nat

VARIABLES
    active,   \* is_active
    longs,    \* _open_long_lots, oldest first
    shorts,   \* _open_short_lots
    cash,     \* session_realized_pnl_quote
    capital,  \* of the symbol, in the capital file
    fill,     \* the fill being handled; left is what is not yet paired
    trades,   \* the net profits of the closed trades still to be reported
    pc,       \* where the loop is suspended
    web,      \* where a grid_stop command is suspended
    (* history *)
    gross,    \* profit before fees of the trades closed in this session
    net,      \* profit after fees of all trades ever closed
    dropped,  \* entry value of the short lots less the long lots written off
    fills, stops, crashes

session == <<active, longs, shorts, cash, capital>>
history == <<gross, net, dropped, fills, stops, crashes>>
vars == <<session, fill, trades, pc, web, history>>

-----------------------------------------------------------------------------
Lot == [price : Prices, amount : Nat \ {0}]
NoFill == [side |-> "BUY", price |-> 0, left |-> 0]
Flat == longs = <<>> /\ shorts = <<>>

(* update_capital(): never below zero *)
Credit(c, x) == IF c + x < 0 THEN 0 ELSE c + x

(* _bank_session_pnl(): the cash flow of a flat session goes to the capital *)
Banked == IF Flat THEN Credit(capital, cash) ELSE capital

-----------------------------------------------------------------------------
(* handle_fill() *)

(* A grid order is filled and the fill is being logged. *)
HandleFill(s, p, a) ==
    /\ pc = "idle"
    /\ active
    /\ fills < MaxFills
    /\ fill' = [side |-> s, price |-> p, left |-> a]
    /\ fills' = fills + 1
    /\ pc' = "logging"
    /\ UNCHANGED <<session, trades, web, gross, net, dropped, stops, crashes>>

Notional == fill.price * fill.left
Fee == Notional * Rate

(* A sell brings the notional less the fee, a buy costs as much. *)
CashFlow_FeeIgnored == IF fill.side = "SELL" THEN Notional * Scale - Fee ELSE -Notional * Scale
CashFlow == IF fill.side = "SELL" THEN Notional * Scale - Fee ELSE -(Notional * Scale - Fee)

(* the fill is booked; whether the session is active is not asked again *)
BookFill ==
    /\ pc = "logging"
    /\ cash' = cash + CashFlow
    /\ pc' = "pairing"
    /\ UNCHANGED <<active, longs, shorts, capital, fill, trades, web, history>>

Least(a, b) == IF a <= b THEN a ELSE b

(* the lots a fill can close *)
Closing_LongsOnly == IF fill.side = "BUY" THEN <<>> ELSE longs
Closing == IF fill.side = "BUY" THEN shorts ELSE longs
Oldest_Newest(lots) == Len(lots)
Oldest(lots) == 1

Without(lots, i) == SubSeq(lots, 1, i - 1) \o SubSeq(lots, i + 1, Len(lots))

(* lots after m units of lot i are closed *)
Taken_Kept(lots, i, m) == [lots EXCEPT ![i].amount = @ - m]
Taken(lots, i, m) ==
    IF lots[i].amount = m THEN Without(lots, i) ELSE [lots EXCEPT ![i].amount = @ - m]

(* one round of the pairing loop: the oldest opposite lot is closed by m *)
PairLot ==
    /\ pc = "pairing"
    /\ fill.left > 0
    /\ Closing # <<>>
    /\ LET i == Oldest(Closing)
           lot == Closing[i]
           m == Least(fill.left, lot.amount)
           gain == IF fill.side = "BUY" THEN (lot.price - fill.price) * m
                                        ELSE (fill.price - lot.price) * m
           pnl == gain * Scale - Rate * (lot.price + fill.price) * m
       IN  /\ IF fill.side = "BUY"
              THEN shorts' = Taken(shorts, i, m) /\ UNCHANGED longs
              ELSE longs' = Taken(longs, i, m) /\ UNCHANGED shorts
           /\ fill' = [fill EXCEPT !.left = @ - m]
           /\ trades' = Append(trades, pnl)
           /\ gross' = gross + gain
           /\ net' = net + pnl
    /\ UNCHANGED <<active, cash, capital, pc, web, dropped, fills, stops, crashes>>

(* nothing left to close: the rest of the fill opens a lot *)
OpenLot ==
    /\ pc = "pairing"
    /\ fill.left = 0 \/ Closing = <<>>
    /\ LET lot == [price |-> fill.price, amount |-> fill.left]
       IN  IF fill.left = 0
           THEN UNCHANGED <<longs, shorts>>
           ELSE IF fill.side = "BUY"
                THEN longs' = Append(longs, lot) /\ UNCHANGED shorts
                ELSE shorts' = Append(shorts, lot) /\ UNCHANGED longs
    /\ fill' = NoFill
    /\ pc' = "reporting"
    /\ UNCHANGED <<active, cash, capital, trades, web, history>>

(* _on_grid_trade_closed(): the history is saved, then the capital updated *)
ReportTrade ==
    /\ pc = "reporting"
    /\ trades # <<>>
    /\ capital' = Credit(capital, Head(trades))
    /\ trades' = Tail(trades)
    /\ UNCHANGED <<active, longs, shorts, cash, fill, pc, web, history>>

(* the counter-order is placed and handle_fill() returns *)
FillDone ==
    /\ pc = "reporting"
    /\ trades = <<>>
    /\ pc' = "idle"
    /\ UNCHANGED <<session, fill, trades, web, history>>

-----------------------------------------------------------------------------
(* tick(), stop(), _bank_and_reinvest(), start() *)

(* _cleanup_stale_lots(): the oldest lots are dropped, which is any number *)
Fresh(lots) ==
    IF MayGoStale THEN {SubSeq(lots, k, Len(lots)) : k \in 1..Len(lots) + 1} ELSE {lots}

Value(lots) ==
    LET sum[i \in 0..Len(lots)] ==
            IF i = 0 THEN 0 ELSE sum[i - 1] + lots[i].price * lots[i].amount
    IN  sum[Len(lots)]

(* the tick begins by dropping stale lots *)
Cleanup ==
    /\ longs' \in Fresh(longs)
    /\ shorts' \in Fresh(shorts)
    /\ dropped' = dropped + (Value(shorts) - Value(shorts')) - (Value(longs) - Value(longs'))

FlatNext == longs' = <<>> /\ shorts' = <<>>

Ticking == pc = "idle" /\ active /\ Cleanup

Base == IF capital = 0 THEN Fallback ELSE capital
TakeProfit == cash * 100 >= TpPct * Base
MaxDrawdown == cash < 0 /\ -cash * 100 >= DdPct * Base

(* lots are open, or the cash flow of a flat session is within its bounds *)
TickGoesOn ==
    /\ Ticking
    /\ FlatNext => ~TakeProfit /\ ~MaxDrawdown
    /\ UNCHANGED <<active, cash, capital, fill, trades, pc, web, gross, net, fills, stops, crashes>>

(* flat: the cash flow is the session's profit, and it is banked at once *)
BankFlat(next) ==
    /\ Ticking
    /\ FlatNext
    /\ capital' = Credit(capital, cash)
    /\ pc' = next
    /\ UNCHANGED <<active, cash, fill, trades, web, gross, net, fills, crashes>>

TickReinvests ==
    /\ TakeProfit \/ MaxDrawdown
    /\ Reinvest
    /\ BankFlat("resetting")
    /\ UNCHANGED stops

(* stop() for the take profit, a trend or a re-centring *)
TickStops ==
    /\ stops < MaxStops
    /\ stops' = stops + 1
    /\ BankFlat("stopping")

(* _bank_and_reinvest() after the bank call: a new session, deployed or not *)
ResetSession ==
    /\ pc = "resetting"
    /\ cash' = 0
    /\ longs' = <<>>
    /\ shorts' = <<>>
    /\ gross' = 0
    /\ dropped' = 0
    /\ active' \in {active, FALSE}
    /\ pc' = "idle"
    /\ UNCHANGED <<capital, fill, trades, web, net, fills, stops, crashes>>

(* the end of stop(); a re-centring deploys and starts again *)
LoopStopped ==
    /\ pc = "stopping"
    /\ active' \in BOOLEAN
    /\ pc' = "idle"
    /\ UNCHANGED <<longs, shorts, cash, capital, fill, trades, web, history>>

(* grid_stop, beside the loop: banks if flat, then cancels *)
WebStop ==
    /\ web = "ready"
    /\ stops < MaxStops
    /\ stops' = stops + 1
    /\ pc # "pairing"
    /\ capital' = Banked
    /\ web' = "stopping"
    /\ UNCHANGED <<active, longs, shorts, cash, fill, trades, pc, gross, net, dropped, fills, crashes>>

WebStopped ==
    /\ web = "stopping"
    /\ pc # "pairing"
    /\ active' = FALSE
    /\ web' = "ready"
    /\ UNCHANGED <<longs, shorts, cash, capital, fill, trades, pc, history>>

(* grid_start: the trackers of the session are as the last stop left them *)
WebStart ==
    /\ web = "ready"
    /\ pc # "pairing"
    /\ ~active
    /\ active' = TRUE
    /\ UNCHANGED <<longs, shorts, cash, capital, fill, trades, pc, web, history>>

(* The process dies and boots: the capital is in its file, the lots and the *)
(* cash flow are nowhere.                                                   *)
Crash ==
    /\ crashes < MaxCrashes
    /\ crashes' = crashes + 1
    /\ active' = TRUE
    /\ longs' = <<>>
    /\ shorts' = <<>>
    /\ cash' = 0
    /\ fill' = NoFill
    /\ trades' = <<>>
    /\ pc' = "idle"
    /\ web' = "ready"
    /\ gross' = 0
    /\ dropped' = 0
    /\ UNCHANGED <<capital, net, fills, stops>>

-----------------------------------------------------------------------------
Init ==
    /\ active = TRUE
    /\ longs = <<>>
    /\ shorts = <<>>
    /\ cash = 0
    /\ capital = StartCapital
    /\ fill = NoFill
    /\ trades = <<>>
    /\ pc = "idle"
    /\ web = "ready"
    /\ gross = 0
    /\ net = 0
    /\ dropped = 0
    /\ fills = 0
    /\ stops = 0
    /\ crashes = 0

Next ==
    \/ \E s \in {"BUY", "SELL"}, p \in Prices, a \in Amounts : HandleFill(s, p, a)
    \/ BookFill
    \/ PairLot
    \/ OpenLot
    \/ ReportTrade
    \/ FillDone
    \/ TickGoesOn
    \/ TickReinvests
    \/ TickStops
    \/ ResetSession
    \/ LoopStopped
    \/ WebStop
    \/ WebStopped
    \/ WebStart
    \/ Crash

Spec == Init /\ [][Next]_vars

-----------------------------------------------------------------------------
(* Properties *)

(* Every variable has its type; in particular no lot of size zero is kept   *)
(* (_pair_fill_into_closed_trades()).                                       *)
TypeOK ==
    /\ active \in BOOLEAN
    /\ longs \in Seq(Lot)
    /\ shorts \in Seq(Lot)
    /\ cash \in Int
    /\ capital \in Nat
    /\ fill \in [side : {"BUY", "SELL"}, price : Prices \cup {0}, left : Nat]
    /\ trades \in Seq(Int)
    /\ pc \in {"idle", "logging", "pairing", "reporting", "resetting", "stopping"}
    /\ web \in {"ready", "stopping"}
    /\ gross \in Int /\ net \in Int
    /\ fills \in 0..MaxFills /\ stops \in 0..MaxStops /\ crashes \in 0..MaxCrashes

(* The session never holds long and short lots at once, over any fills of   *)
(* any size and any lots written off: flat, the banking condition, means    *)
(* what it says (_has_unmatched_positions()).                               *)
OneSided == longs = <<>> \/ shorts = <<>>

(* The part of the fill being paired that is booked but not yet in a lot.   *)
Unpaired == IF pc # "pairing" THEN 0 ELSE IF fill.side = "SELL" THEN Notional ELSE -Notional

(* The cash flow is at any moment what the closed trades earned before      *)
(* fees, less the cost of the open lots and of the lots written off, all of *)
(* it reduced by the fee rate: what the take profit and the drawdown check  *)
(* read on a flat session is its profit only if no lot was written off      *)
(* (handle_fill(), tick()).                                                 *)
CashFollowsTrades ==
    cash = (Scale - Rate) * (gross + Value(shorts) - Value(longs) + dropped + Unpaired)

-----------------------------------------------------------------------------
(* The inventory of units that the lots implement *)

Block(price, n) == [i \in 1..n |-> price]

(* the units of the lots, each at the price of its lot, oldest first *)
Units(lots) ==
    LET units[i \in 0..Len(lots)] ==
            IF i = 0 THEN <<>> ELSE units[i - 1] \o Block(lots[i].price, lots[i].amount)
    IN  units[Len(lots)]

Fifo == INSTANCE Inventory WITH
    side <- IF longs # <<>> THEN "long" ELSE IF shorts # <<>> THEN "short" ELSE "flat",
    units <- Units(longs) \o Units(shorts),
    profit <- gross,
    Prices <- Prices,
    Sizes <- UNION {1..a : a \in Amounts}

(* The lots, with their partial closes, behave as a first-in first-out      *)
(* inventory of single units and record its profit, whatever stops, starts, *)
(* write-offs and crashes come between (_pair_fill_into_closed_trades()).   *)
ImplementsFifo == Fifo!Spec
=============================================================================
