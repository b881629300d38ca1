---------------------------- MODULE GridSession ----------------------------
(***************************************************************************)
(* One grid trading session of one symbol: the GridOrchestrator of          *)
(* bot_v2/grid/orchestrator.py, the bot's tick that drives it               *)
(* (bot_v2/bot.py), the part of the order state manager and of the two      *)
(* exchanges it relies on, and the webhook commands that run beside it.     *)
(*                                                                          *)
(* The program is single-threaded asyncio, so an action is the code between *)
(* two awaits that can really suspend, and pc[p] names the await at which   *)
(* task p is suspended.  A few awaits that suspend only in some             *)
(* configurations are always suspension points here.                        *)
(*                                                                          *)
(* Prices lie on an integer lattice: one grid spacing is Spacing units, a   *)
(* level is a multiple of Spacing away from the centre, and every order and *)
(* every lot has the size of one unit.                                      *)
(***************************************************************************)
EXTENDS Integers, FiniteSets

CONSTANTS
    Id,          \* exchange order ids that can exist at the same time
    Spare,       \* ids that are free when a tick starts
    None,        \* "no value"
    Prices,      \* the market prices considered
    StartPrice,  \* the market price when the bot first starts
    Spacing,     \* lattice units in one grid spacing (grid_spacing_pct)
    NUp, NDown,  \* sell levels above and buy levels below the centre
    Trigger,     \* grid_recentre_trigger
    Live,        \* TRUE: LiveExchange, FALSE: SimulatedExchange
    MaxTrades,   \* trades that fill one order (live)
    Reinvest,    \* grid_session_tp_reinvest
    CancelOnStop, \* grid_stop_policy # "keep_open_orders"
    Webs,        \* webhook requests (or the shutdown task) that may run
    MaxCrashes,  \* bound on the number of process deaths
    Events       \* which external outcomes can occur, see EventKinds

Loop == "loop"
Proc == {Loop} \cup Webs

EventKinds ==
    {"place",     \* create_limit_order raises
     "lost",      \* an accepted live order whose reply is lost, then retried
     "cancel",    \* a live cancel fails: it is refused, or its reply is lost
     "price",     \* get_market_price answers nothing
     "capital",   \* InsufficientGridCapital
     "fetch",     \* a fetch of candles, of trades or of orders fails
     "trend",     \* the regime detector says TRENDING
     "session",   \* the flat session's cash flow is beyond TP or max DD
     "cooldown",  \* the re-invest cooldown or the restart delay decides
     "stale",     \* open lots exceed GRID_MAX_LOT_AGE_SECONDS
     "halt"}      \* the portfolio risk check halts the bot

ASSUME ConstantsAssumption ==
    /\ Spare \in Nat
    /\ None \notin Id
    /\ None \notin Int
    /\ IsFiniteSet(Id)
    /\ Prices \subseteq Int
    /\ StartPrice \in Prices
    /\ Spacing \in Nat \ {0}
    /\ NUp \in Nat
    /\ NDown \in Nat
    /\ Trigger \in Nat
    /\ MaxTrades \in Nat \ {0}
    /\ Live \in BOOLEAN
    /\ Reinvest \in BOOLEAN
    /\ CancelOnStop \in BOOLEAN
    /\ Loop \notin Webs
    /\ MaxCrashes \in Nat
    /\ Events \subseteq EventKinds

VARIABLES
    price,      \* market price
    isActive,   \* is_active
    centre,     \* centre_price
    gridIds,    \* grid_order_ids
    rawIds,     \* tracked ids whose metadata is raw JSON (side is a string)
    lots,       \* _open_long_lots (positive) or _open_short_lots (negative)
    cash,       \* session_realized_pnl_quote # 0
    hasFills,   \* session_fill_count > 0
    lastStop,   \* last_stop_time / last_stop_reason
    reinvested, \* last_reinvest_time is set
    ord,        \* every order: its OrderRecord and its state on the exchange
    pst,        \* the GridState of this symbol in grid_states.json
    crashes,    \* process deaths so far
    pc,         \* where each task is suspended
    fr          \* the local variables of each task

session == <<isActive, centre, gridIds, rawIds, lots, cash, hasFills,
             lastStop, reinvested>>
outside == <<price, pst, crashes>>
vars == <<price, session, ord, pst, crashes, pc, fr>>

-----------------------------------------------------------------------------
(* Orders *)

Free == [st |-> "free", ex |-> "none", side |-> "BUY", at |-> 0,
         trades |-> 0, kids |-> 0]

Order == [st : {"free", "sent", "OPEN", "FILLED", "CANCELLED", "STALE"},
          ex : {"none", "open", "filled", "cancelled"},
          side : {"BUY", "SELL"}, at : Int, trades : 0..MaxTrades,
          kids : 0..2]

Open == {o \in Id : ord[o].st = "OPEN"}
Fresh == {o \in Id : ord[o].st = "free"}

Opposite(s) == IF s = "BUY" THEN "SELL" ELSE "BUY"

(* The price has reached the order's limit. *)
Crossed(o, p) ==
    \/ ord[o].side = "BUY" /\ p <= ord[o].at
    \/ ord[o].side = "SELL" /\ p >= ord[o].at

(* An order just accepted.  The simulated exchange answers at once, so the  *)
(* store records it in the same step; the live one only after a round trip. *)
Placed(side, at) ==
    [st |-> IF Live THEN "sent" ELSE "OPEN", ex |-> IF Live THEN "open" ELSE "none",
     side |-> side, at |-> at, trades |-> 0, kids |-> 0]

(* grid levels around a centre: buys below, sells above *)
Levels(c) == {c - i * Spacing : i \in 1..NDown} \cup {c + i * Spacing : i \in 1..NUp}

-----------------------------------------------------------------------------
(* Tasks *)

Blank == [then |-> "idle", why |-> "manual", pass |-> 1, px |-> 0, quote |-> 0,
          fills |-> [o \in Id |-> 0], known |-> {}, cur |-> None,
          new |-> None, ids |-> {}, acked |-> {}, lvls |-> {}]

Reasons == {"manual", "session", "trending", "recentre", "halt"}

Frame == [then : {"idle", "guards", "starting", "requote", "recentre", "off"},
          why : Reasons, pass : {1, 2}, px : Int, quote : Int, fills : [Id -> 0..MaxTrades],
          known : SUBSET Id, cur : Id \cup {None}, new : Id \cup {None},
          ids : SUBSET Id, acked : SUBSET Id, lvls : SUBSET Int]

Goto(p, l) == pc' = [pc EXCEPT ![p] = l]
(* task p's local variables become f *)
Local(p, f) == fr' = [fr EXCEPT ![p] = f]
(* a webhook request answers and is over; the loop goes on *)
Return(p) == Goto(p, IF p = Loop THEN "idle" ELSE "done") /\ Local(p, Blank)

-----------------------------------------------------------------------------
(* start(): shared by boot, re-centring, the auto-restart and grid_start *)

(* What start() takes over: the ids of the file and every order the store   *)
(* holds open for the symbol (recover_state).                               *)
Recovered_FileOnly(kept) == gridIds \cup kept
Recovered(kept) == gridIds \cup kept \cup Open

(* The synchronous first part of start(), up to its first await.  saved is  *)
(* the persisted state on boot and None otherwise.  No reason the code      *)
(* stops with contains one of the safety words, so that gate never closes.  *)
Start(p, saved) ==
    LET kept == IF saved = None THEN {} ELSE saved.ids
        tracked == Recovered(kept)
    IN  /\ isActive' = TRUE
        /\ gridIds' = tracked
        /\ rawIds' = (rawIds \cup kept) \ Open
        /\ IF tracked = {}
           THEN Goto(p, "quote") /\ UNCHANGED fr
           ELSE IF fr[p].then = "guards"
                THEN Goto(p, "guards") /\ UNCHANGED fr
                ELSE Return(p)

(* start() on a session that another task already activated *)
StartRefused(p) ==
    /\ pc[p] = "starting"
    /\ isActive
    /\ Return(p)
    /\ UNCHANGED <<session, ord, outside>>

StartSession(p) ==
    /\ pc[p] = "starting"
    /\ ~isActive
    /\ Start(p, None)
    /\ UNCHANGED <<centre, lots, cash, hasFills, lastStop, reinvested, ord, outside>>

(* initialize(): high-level state from the file, then start(persisted) *)
Boot ==
    /\ pc[Loop] = "boot"
    /\ ~isActive
    /\ Start(Loop, pst)
    /\ IF pst = None
       THEN UNCHANGED <<centre, hasFills>>
       ELSE centre' = pst.centre /\ hasFills' = pst.hasFills
    /\ UNCHANGED <<lots, cash, lastStop, reinvested, ord, outside>>

(* end of a start() that deployed or gave up *)
StartReturns(p) ==
    IF fr[p].then = "guards"
    THEN Goto(p, "guards") /\ Local(p, [fr[p] EXCEPT !.ids = {}])
    ELSE Return(p)

(* get_market_price answers; the regime is checked before deploying *)
Quote(p) ==
    /\ pc[p] = "quote"
    /\ \/ /\ Goto(p, "regime")
          /\ Local(p, [fr[p] EXCEPT !.quote = price])
       \/ "price" \in Events /\ StartReturns(p)
    /\ UNCHANGED <<session, ord, outside>>

-----------------------------------------------------------------------------
(* deploy_grid() *)

(* Up to the concurrent order placements; with too little capital no order  *)
(* is placed and the session is left inactive.                              *)
Deploy(p, c) ==
    /\ centre' = c
    /\ Goto(p, "place")
    /\ \/ /\ Local(p, [fr[p] EXCEPT !.quote = c, !.ids = {}, !.lvls = Levels(c)])
          /\ UNCHANGED isActive
       \/ /\ "capital" \in Events
          /\ Local(p, [fr[p] EXCEPT !.quote = c, !.ids = {}, !.lvls = {}])
          /\ isActive' = FALSE

SideOf(p, l) == IF l < fr[p].quote THEN "BUY" ELSE "SELL"

(* the pre-deployment regime check answers *)
RegimeChecked(p) ==
    /\ pc[p] = "regime"
    /\ \/ /\ Deploy(p, fr[p].quote)
          /\ UNCHANGED <<gridIds, rawIds, lots, cash, hasFills, lastStop, reinvested>>
       \/ /\ "trend" \in Events
          /\ StartReturns(p)
          /\ UNCHANGED session
    /\ UNCHANGED <<ord, outside>>

(* The gathered create_limit_order tasks start in the order of the levels,  *)
(* lowest first; Fresh # {} is the bound on Id.                             *)
NextLevel(p, l) == l \in fr[p].lvls /\ \A m \in fr[p].lvls : l <= m

PlaceLevel(p, l) ==
    /\ pc[p] = "place"
    /\ NextLevel(p, l)
    /\ \/ /\ Fresh # {}
          /\ LET n == CHOOSE o \in Fresh : TRUE
             IN  /\ ord' = [ord EXCEPT ![n] = Placed(SideOf(p, l), l)]
                 /\ Local(p, [fr[p] EXCEPT !.lvls = @ \ {l}, !.ids = @ \cup {n}])
       \/ /\ "place" \in Events
          /\ Local(p, [fr[p] EXCEPT !.lvls = @ \ {l}])
          /\ UNCHANGED ord
    /\ UNCHANGED <<session, outside, pc>>

(* the live exchange's reply arrives and the store records the order *)
RecordLevel(p, o) ==
    /\ pc[p] = "place"
    /\ o \in fr[p].ids
    /\ ord[o].st = "sent"
    /\ ord' = [ord EXCEPT ![o].st = "OPEN"]
    /\ UNCHANGED <<session, outside, pc, fr>>

(* every placement has answered: the ids become the grid's *)
DeployDone(p) ==
    /\ pc[p] = "place"
    /\ fr[p].lvls = {}
    /\ \A o \in fr[p].ids : ord[o].st # "sent"
    /\ gridIds' = gridIds \cup fr[p].ids
    /\ rawIds' = rawIds \ fr[p].ids
    /\ IF fr[p].then = "recentre"
       THEN /\ Goto(p, "starting")
            /\ Local(p, Blank)
       ELSE StartReturns(p)
    /\ UNCHANGED <<isActive, centre, lots, cash, hasFills, lastStop, reinvested, ord, outside>>

-----------------------------------------------------------------------------
(* stop() *)

(* Entry: suspended in _bank_session_pnl; `then` is what follows. *)
Stop(p, why, then) ==
    /\ Goto(p, "banking")
    /\ Local(p, [fr[p] EXCEPT !.why = why, !.then = then])

OnDisk(state) == IF MaxCrashes = 0 THEN None ELSE state

(* cancel_orders_for_symbol() lists the open orders unless told to keep them *)
ToCancel_Buys == IF CancelOnStop THEN {o \in Open : ord[o].side = "BUY"} ELSE {}
ToCancel_Any == IF CancelOnStop THEN {o \in Id : ord[o].st # "free"} ELSE {}
ToCancel == IF CancelOnStop THEN Open ELSE {}

(* persist the orders, then list the open ones to cancel *)
StopPersists(p) ==
    /\ pc[p] = "banking"
    /\ fr[p].then # "requote"
    /\ pst' = OnDisk([ids |-> gridIds, centre |-> centre, hasFills |-> hasFills])
    /\ Goto(p, "cancelling")
    /\ Local(p, [fr[p] EXCEPT !.ids = ToCancel])
    /\ UNCHANGED <<session, ord, price, crashes>>

(* the record of a cancelled order, whatever was written to it meanwhile *)
Cancelled(o) == [ord EXCEPT ![o].st = "CANCELLED"]

(* a cancel that failed is logged and the record left as it is *)
CancelFailed_Unnoticed(p, o) == [fr[p] EXCEPT !.acked = @ \cup {o}]
CancelFailed(p, o) == [fr[p] EXCEPT !.ids = @ \ {o}]

(* One of the gathered cancel_order tasks.  The simulation has nothing but  *)
(* the store's record.  The live exchange refuses an order that no longer   *)
(* rests; the cancel of a resting one can fail before it is executed, or    *)
(* after, when only the reply is lost.                                      *)
CancelOne(p, o) ==
    /\ pc[p] = "cancelling"
    /\ o \in fr[p].ids \ fr[p].acked
    /\ \/ ~Live /\ ord' = Cancelled(o) /\ Local(p, [fr[p] EXCEPT !.ids = @ \ {o}])
       \/ /\ Live
          /\ ord[o].ex = "open" => "cancel" \in Events
          /\ Local(p, CancelFailed(p, o))
          /\ UNCHANGED ord
       \/ /\ Live
          /\ ord[o].ex = "open"
          /\ ord' = [ord EXCEPT ![o].ex = "cancelled"]
          /\ \/ Local(p, [fr[p] EXCEPT !.acked = @ \cup {o}])
             \/ "cancel" \in Events /\ Local(p, CancelFailed(p, o))
    /\ UNCHANGED <<session, outside, pc>>

(* the exchange's confirmation arrives: the record follows *)
RecordCancel(p, o) ==
    /\ pc[p] = "cancelling"
    /\ o \in fr[p].acked
    /\ ord' = Cancelled(o)
    /\ Local(p, [fr[p] EXCEPT !.ids = @ \ {o}, !.acked = @ \ {o}])
    /\ UNCHANGED <<session, outside, pc>>

(* all cancellations answered: forget the grid and return *)
StopDone(p) ==
    /\ pc[p] = "cancelling"
    /\ fr[p].ids = {}
    /\ fr[p].then \in {"idle", "recentre", "off"}
    /\ gridIds' = {}
    /\ rawIds' = {}
    /\ lastStop' = IF fr[p].why = "trending" THEN "trending" ELSE "other"
    /\ isActive' = FALSE
    /\ IF fr[p].then = "recentre"
       THEN /\ centre' = fr[p].px
            /\ Goto(p, "place")
            /\ \/ Local(p, [fr[p] EXCEPT !.quote = fr[p].px, !.lvls = Levels(fr[p].px)])
               \/ "capital" \in Events /\ UNCHANGED fr
       ELSE /\ UNCHANGED centre
            /\ IF fr[p].then = "off"
               THEN Goto(p, "off") /\ Local(p, Blank)
               ELSE Return(p)
    /\ UNCHANGED <<lots, cash, hasFills, reinvested, ord, outside>>

-----------------------------------------------------------------------------
(* _bank_and_reinvest() *)

(* The check for lots opened while the bank call ran never fires: lots are  *)
(* only changed by this loop's own handle_fill().                           *)
ReinvestCancels(p) ==
    /\ pc[p] = "banking"
    /\ fr[p].then = "requote"
    /\ lots = 0
    /\ Goto(p, "cancelling")
    /\ Local(p, [fr[p] EXCEPT !.ids = ToCancel])
    /\ UNCHANGED <<session, ord, outside>>

(* reset the session; the session stays as active as it was *)
ReinvestResets(p) ==
    /\ pc[p] = "cancelling"
    /\ fr[p].ids = {}
    /\ fr[p].then = "requote"
    /\ gridIds' = {}
    /\ rawIds' = {}
    /\ cash' = FALSE
    /\ hasFills' = FALSE
    /\ lots' = 0
    /\ reinvested' = TRUE
    /\ Goto(p, "requote")
    /\ UNCHANGED <<isActive, centre, lastStop, ord, outside, fr>>

ReinvestDeploys(p) ==
    /\ pc[p] = "requote"
    /\ \/ Deploy(p, price)
       \/ /\ "price" \in Events
          /\ isActive' = FALSE
          /\ Return(p)
          /\ UNCHANGED centre
    /\ UNCHANGED <<gridIds, rawIds, lots, cash, hasFills, lastStop, reinvested, ord, outside>>

-----------------------------------------------------------------------------
(* handle_fill() and the two passes over filled orders *)

(* the ids of this pass still to look at, as the code filters them *)
Pending(p) ==
    {o \in Id : /\ fr[p].fills[o] > 0
                /\ o \in IF fr[p].pass = 1 THEN fr[p].known ELSE gridIds}

(* After handle_fill() the bot's own pass records the order as filled, the  *)
(* orchestrator's pass does not.                                            *)
AfterFill_Forgotten(o) == ord
AfterFill(o) == IF fr[Loop].pass = 1 THEN [ord EXCEPT ![o].st = "FILLED"] ELSE ord

(* handle_fill() starts: the fill is being logged *)
HandleFill(o) ==
    /\ pc[Loop] = "next"
    /\ o \in Pending(Loop)
    /\ isActive
    /\ fr[Loop].pass = 1 \/ o \notin rawIds
    /\ Goto(Loop, "logging")
    /\ Local(Loop, [fr[Loop] EXCEPT !.cur = o, !.fills[o] = @ - 1])
    /\ UNCHANGED <<session, ord, outside>>

(* handle_fill() returns at once on a stopped session; the bot's own pass   *)
(* records the order as filled all the same.                                *)
IgnoreFill(o) ==
    /\ pc[Loop] = "next"
    /\ o \in Pending(Loop)
    /\ ~isActive
    /\ Local(Loop, [fr[Loop] EXCEPT !.fills[o] = @ - 1])
    /\ ord' = AfterFill(o)
    /\ UNCHANGED <<session, outside, pc>>

(* the side of a raw order is no TradeSide: the tick dies on it *)
AbortTick(o) ==
    /\ pc[Loop] = "next"
    /\ o \in Pending(Loop)
    /\ isActive
    /\ fr[Loop].pass = 2
    /\ o \in rawIds
    /\ Return(Loop)
    /\ UNCHANGED <<session, ord, outside>>

(* _pair_fill_into_closed_trades(): one lot more, or one opposite lot less *)
Paired_SellsIgnored(o) == IF ord[o].side = "BUY" THEN lots + 1 ELSE lots
Paired(o) == IF ord[o].side = "BUY" THEN lots + 1 ELSE lots - 1

(* the fill is booked and paired with the oldest opposite lot *)
BookFill ==
    /\ pc[Loop] = "logging"
    /\ LET o == fr[Loop].cur
       IN  /\ gridIds' = gridIds \ {o}
           /\ lots' = Paired(o)
    /\ hasFills' = TRUE
    /\ cash' = TRUE
    /\ Goto(Loop, "closing")
    /\ UNCHANGED <<isActive, centre, rawIds, lastStop, reinvested, ord, outside, fr>>

(* The counter-order one spacing away.  kids counts the counter-orders      *)
(* placed for an order; 2 stands for two or more.                           *)
MoreKids(k) == IF k = 2 THEN 2 ELSE k + 1

CounterPrice_Swapped(o) ==
    IF ord[o].side = "BUY" THEN ord[o].at - Spacing ELSE ord[o].at + Spacing
CounterPrice(o) ==
    IF ord[o].side = "BUY" THEN ord[o].at + Spacing ELSE ord[o].at - Spacing
CounterOf(o) == Placed(Opposite(ord[o].side), CounterPrice(o))

PlaceCounter ==
    /\ pc[Loop] = "closing"
    /\ Fresh # {}
    /\ LET n == CHOOSE f \in Fresh : TRUE
       IN  /\ ord' = [ord EXCEPT ![n] = CounterOf(fr[Loop].cur),
                                 ![fr[Loop].cur].kids = MoreKids(@)]
           /\ Local(Loop, [fr[Loop] EXCEPT !.new = n])
    /\ Goto(Loop, "adding")
    /\ UNCHANGED <<session, outside>>

RecordCounter ==
    /\ pc[Loop] = "adding"
    /\ fr[Loop].new # None
    /\ ord[fr[Loop].new].st = "sent"
    /\ ord' = [ord EXCEPT ![fr[Loop].new].st = "OPEN"]
    /\ UNCHANGED <<session, outside, pc, fr>>

(* the placement raised: handle_fill() logs it and returns *)
CounterFails ==
    /\ pc[Loop] = "closing"
    /\ "place" \in Events
    /\ Goto(Loop, "adding")
    /\ UNCHANGED <<session, ord, outside, fr>>

(* the id of the counter-order, if one was placed *)
Added_Unchecked(n) == {n}
Added_Untracked(n) == {}
Added(n) == IF n = None THEN {} ELSE {n}

(* The counter-order is tracked and handle_fill() returns.                  *)
FillDone ==
    /\ pc[Loop] = "adding"
    /\ LET o == fr[Loop].cur
           added == Added(fr[Loop].new)
       IN  /\ fr[Loop].new # None => ord[fr[Loop].new].st # "sent"
           /\ gridIds' = gridIds \cup added
           /\ rawIds' = rawIds \ added
           /\ ord' = AfterFill(o)
    /\ Goto(Loop, "next")
    /\ Local(Loop, [fr[Loop] EXCEPT !.cur = None, !.new = None])
    /\ UNCHANGED <<isActive, centre, lots, cash, hasFills, lastStop, reinvested, outside>>

-----------------------------------------------------------------------------
(* The bot's tick and GridOrchestrator.tick() *)

(* Only active orchestrators are ticked; the candles are being fetched.     *)
(* Spare bounds the model: a tick waits until that many ids are free.       *)
BotTick ==
    /\ pc[Loop] = "idle"
    /\ isActive
    /\ Cardinality(Fresh) >= Spare
    /\ Goto(Loop, "candles")
    /\ Local(Loop, [fr[Loop] EXCEPT !.then = "guards"])
    /\ UNCHANGED <<session, ord, outside>>

SimFills_BuysOnly(px) ==
    [o \in Id |-> IF o \in Open /\ ord[o].side = "BUY" /\ Crossed(o, px) THEN 1 ELSE 0]
SimFills(px) == [o \in Id |-> IF o \in Open /\ Crossed(o, px) THEN 1 ELSE 0]
Trades == [o \in Id |-> ord[o].trades]
NoFills == [o \in Id |-> 0]

(* The candles arrive: the open orders are listed; the simulated exchange   *)
(* finds the crossed ones at once, the live one is asked for its trades.    *)
CandlesArrive ==
    /\ pc[Loop] = "candles"
    /\ \/ /\ Local(Loop, [fr[Loop] EXCEPT !.px = price, !.known = Open,
                                          !.fills = IF Live THEN NoFills ELSE SimFills(price)])
          /\ Goto(Loop, IF Live THEN "trades" ELSE "next")
       \/ "fetch" \in Events /\ Return(Loop)
    /\ UNCHANGED <<session, ord, outside>>

TradesArrive ==
    /\ pc[Loop] = "trades"
    /\ \/ Local(Loop, [fr[Loop] EXCEPT !.fills = Trades])
       \/ "fetch" \in Events /\ Local(Loop, [fr[Loop] EXCEPT !.fills = NoFills])
    /\ Goto(Loop, "next")
    /\ UNCHANGED <<session, ord, outside>>

(* tick() is entered when the bot's pass is over. *)
TickEntered == pc[Loop] = "next" /\ fr[Loop].pass = 1 /\ Pending(Loop) = {}

(* tick() of a session that was stopped while the bot's pass ran: it        *)
(* returns, or _maybe_restart_grid() starts it again after its delay, or    *)
(* that answers "restarted" only because lots are open.                     *)
TickStopped ==
    /\ TickEntered
    /\ ~isActive
    /\ \/ Return(Loop) /\ UNCHANGED session
       \/ /\ "cooldown" \in Events
          /\ lastStop # "never"
          /\ hasFills \/ lastStop = "trending"
          /\ IF lots = 0
             THEN Start(Loop, None)
             ELSE /\ Goto(Loop, "guards")
                  /\ UNCHANGED <<isActive, gridIds, rawIds, fr>>
          /\ UNCHANGED <<centre, lots, cash, hasFills, lastStop, reinvested>>
    /\ UNCHANGED <<ord, outside>>

(* where the guards of tick() are evaluated *)
AtGuards == pc[Loop] = "guards" \/ (TickEntered /\ isActive)

(* The oldest lots beyond the age limit are dropped, which is any number of *)
(* them; the guards below look at what is left.                             *)
LotsLeft ==
    IF "stale" \notin Events THEN {lots}
    ELSE IF lots >= 0 THEN 0..lots ELSE lots..0

(* lots are open: no TP/DD, no regime check, no second pass, no drift check *)
TickHolding ==
    /\ AtGuards
    /\ lots' \in LotsLeft \ {0}
    /\ Return(Loop)
    /\ UNCHANGED <<isActive, centre, gridIds, rawIds, cash, hasFills,
                   lastStop, reinvested, ord, outside>>

(* the flat session's cash flow reached the take profit or the drawdown *)
TickTakesProfit ==
    /\ AtGuards
    /\ 0 \in LotsLeft
    /\ lots' = 0
    /\ cash
    /\ "session" \in Events
    /\ \/ Reinvest /\ Stop(Loop, "session", "requote")
       \/ /\ ~Reinvest \/ (reinvested /\ "cooldown" \in Events)
          /\ Stop(Loop, "session", "idle")
    /\ UNCHANGED <<isActive, centre, gridIds, rawIds, cash, hasFills,
                   lastStop, reinvested, ord, outside>>

TickTrending ==
    /\ AtGuards
    /\ 0 \in LotsLeft
    /\ lots' = 0
    /\ "trend" \in Events
    /\ Stop(Loop, "trending", "idle")
    /\ UNCHANGED <<isActive, centre, gridIds, rawIds, cash, hasFills,
                   lastStop, reinvested, ord, outside>>

(* no guard stopped the tick: look for fills a second time *)
SecondPass ==
    /\ AtGuards
    /\ 0 \in LotsLeft
    /\ lots' = 0
    /\ Local(Loop, [fr[Loop] EXCEPT !.pass = 2, !.known = {},
                                    !.fills = IF Live THEN NoFills ELSE SimFills(fr[Loop].px)])
    /\ Goto(Loop, IF Live THEN "trades" ELSE "next")
    /\ UNCHANGED <<isActive, centre, gridIds, rawIds, cash, hasFills,
                   lastStop, reinvested, ord, outside>>

Distance(a, b) == IF a >= b THEN a - b ELSE b - a

(* drift monitoring, the end of tick() *)
TickDrift ==
    /\ pc[Loop] = "next"
    /\ fr[Loop].pass = 2
    /\ Pending(Loop) = {}
    /\ IF centre # None /\ Distance(fr[Loop].px, centre) > Trigger * Spacing
       THEN Stop(Loop, "recentre", "recentre")
       ELSE Return(Loop)
    /\ UNCHANGED <<session, ord, outside>>

-----------------------------------------------------------------------------
(* The rest of the bot's loop *)

(* _persist_state() after an iteration: no shutdown reason, whatever it was *)
PersistState ==
    /\ pc[Loop] = "idle"
    /\ pst' = OnDisk([ids |-> gridIds, centre |-> centre, hasFills |-> hasFills])
    /\ UNCHANGED <<session, ord, price, crashes, pc, fr>>

(* the portfolio risk check fails: stop an active grid and end the loop *)
PortfolioHalt ==
    /\ pc[Loop] = "idle"
    /\ "halt" \in Events
    /\ IF isActive
       THEN Stop(Loop, "halt", "off")
       ELSE Goto(Loop, "off") /\ UNCHANGED fr
    /\ UNCHANGED <<session, ord, outside>>

(* reconcile_orders() of the live exchange: the open records are taken, the *)
(* exchange's open orders are asked for (an error answers none), and each   *)
(* record is compared with them.                                            *)
ReconcileStarts ==
    /\ pc[Loop] = "idle"
    /\ Open # {}
    /\ Goto(Loop, "listing")
    /\ Local(Loop, [fr[Loop] EXCEPT !.known = Open])
    /\ UNCHANGED <<session, ord, outside>>

ReconcileLists ==
    /\ pc[Loop] = "listing"
    /\ Goto(Loop, "verifying")
    /\ \/ Local(Loop, [fr[Loop] EXCEPT !.ids = {o \in Id : ord[o].ex = "open"}])
       \/ "fetch" \in Events /\ UNCHANGED fr
    /\ UNCHANGED <<session, ord, outside>>

(* A listed order is OPEN: its record is overwritten, unless it was already *)
(* OPEN, and not NEW, when it was taken.  One that is not listed is looked  *)
(* up and takes its final status, or is STALE if that lookup fails or finds *)
(* it resting.                                                              *)
Verdicts(o) ==
    IF o \in fr[Loop].ids THEN {"OPEN", ord[o].st}
    ELSE {IF ord[o].ex = "filled" THEN "FILLED"
          ELSE IF ord[o].ex = "cancelled" THEN "CANCELLED" ELSE "STALE"}
         \cup (IF "fetch" \in Events THEN {"STALE"} ELSE {})

Reconcile(o) ==
    /\ pc[Loop] = "verifying"
    /\ o \in fr[Loop].known
    /\ \E st \in Verdicts(o) : ord' = [ord EXCEPT ![o].st = st]
    /\ Local(Loop, [fr[Loop] EXCEPT !.known = @ \ {o}])
    /\ UNCHANGED <<session, outside, pc>>

ReconcileDone ==
    /\ pc[Loop] = "verifying"
    /\ fr[Loop].known = {}
    /\ Return(Loop)
    /\ UNCHANGED <<session, ord, outside>>

(* prune_archive(): final records leave the store after the retention time, *)
(* long after the last task or file that names them; the exchange's recent  *)
(* trades no longer show them either, and the id can stand for a new order. *)
Dead == {o \in Id : /\ ord[o].st \in {"FILLED", "CANCELLED", "STALE"}
                    /\ Live => ord[o].ex # "open"
                    /\ o \notin gridIds
                    /\ pst # None => o \notin pst.ids
                    /\ \A p \in Proc : o \notin fr[p].ids \cup fr[p].acked}

PruneArchive ==
    /\ pc[Loop] = "idle"
    /\ Dead # {}
    /\ ord' = [o \in Id |-> IF o \in Dead THEN Free ELSE ord[o]]
    /\ UNCHANGED <<session, outside, pc, fr>>

-----------------------------------------------------------------------------
(* Webhook commands, the market and the machine *)

(* Commands are answered once the orchestrators exist. *)
WebStart(w) ==
    /\ pc[w] = "ready"
    /\ pc[Loop] # "boot"
    /\ Goto(w, "starting")
    /\ UNCHANGED <<session, ord, outside, fr>>

(* grid_stop, and shutdown()'s stop of an active session *)
WebStop(w) ==
    /\ pc[w] = "ready"
    /\ pc[Loop] # "boot"
    /\ Stop(w, "manual", "idle")
    /\ UNCHANGED <<session, ord, outside>>

MarketMoves(q) ==
    /\ price' = q
    /\ q # price
    /\ UNCHANGED <<session, ord, pst, crashes, pc, fr>>

(* The live exchange trades a part or the rest of a resting order. *)
ExchangeTrades(o) ==
    /\ Live
    /\ ord[o].ex = "open"
    /\ Crossed(o, price)
    /\ \E last \in BOOLEAN :
           /\ ord[o].trades + 1 = MaxTrades => last
           /\ ord' = [ord EXCEPT ![o].trades = @ + 1,
                                 ![o].ex = IF last THEN "filled" ELSE "open"]
    /\ UNCHANGED <<session, outside, pc, fr>>

(* The live exchange accepts an order but the reply is lost; the call is    *)
(* repeated by resilient_call and nothing remembers the first order.        *)
LevelReplyLost(p, l) ==
    /\ "lost" \in Events
    /\ Live
    /\ pc[p] = "place"
    /\ NextLevel(p, l)
    /\ Fresh # {}
    /\ ord' = [ord EXCEPT ![CHOOSE o \in Fresh : TRUE] = Placed(SideOf(p, l), l)]
    /\ UNCHANGED <<session, outside, pc, fr>>

CounterReplyLost ==
    /\ "lost" \in Events
    /\ Live
    /\ pc[Loop] = "closing"
    /\ Fresh # {}
    /\ ord' = [ord EXCEPT ![CHOOSE f \in Fresh : TRUE] = CounterOf(fr[Loop].cur),
                          ![fr[Loop].cur].kids = MoreKids(@)]
    /\ UNCHANGED <<session, outside, pc, fr>>

(* The process dies: everything but the files and the exchange is gone, the *)
(* portfolio halt included, and it boots again.                             *)
Crash ==
    /\ crashes < MaxCrashes
    /\ crashes' = crashes + 1
    /\ isActive' = FALSE
    /\ centre' = None
    /\ gridIds' = {}
    /\ rawIds' = {}
    /\ lots' = 0
    /\ cash' = FALSE
    /\ hasFills' = FALSE
    /\ lastStop' = "never"
    /\ reinvested' = FALSE
    /\ pc' = [p \in Proc |-> IF p = Loop THEN "boot" ELSE "done"]
    /\ fr' = [p \in Proc |-> Blank]
    /\ UNCHANGED <<price, ord, pst>>

-----------------------------------------------------------------------------
Init ==
    /\ price = StartPrice
    /\ isActive = FALSE
    /\ centre = None
    /\ gridIds = {}
    /\ rawIds = {}
    /\ lots = 0
    /\ cash = FALSE
    /\ hasFills = FALSE
    /\ lastStop = "never"
    /\ reinvested = FALSE
    /\ ord = [o \in Id |-> Free]
    /\ pst = None
    /\ crashes = 0
    /\ pc = [p \in Proc |-> IF p = Loop THEN "boot" ELSE "ready"]
    /\ fr = [p \in Proc |-> Blank]

(* start(), stop(), deploy_grid() and _bank_and_reinvest() run in any task *)
Lifecycle(p) ==
    \/ StartRefused(p)
    \/ StartSession(p)
    \/ Quote(p)
    \/ RegimeChecked(p)
    \/ \E l \in fr[p].lvls : PlaceLevel(p, l)
    \/ \E o \in Id : RecordLevel(p, o)
    \/ DeployDone(p)
    \/ StopPersists(p)
    \/ \E o \in Id : CancelOne(p, o) \/ RecordCancel(p, o)
    \/ StopDone(p)
    \/ ReinvestCancels(p)
    \/ ReinvestResets(p)
    \/ ReinvestDeploys(p)

(* what the bot's loop does by itself, iteration after iteration *)
Tick ==
    \/ Boot
    \/ BotTick
    \/ CandlesArrive
    \/ TradesArrive
    \/ \E o \in Id : HandleFill(o) \/ IgnoreFill(o) \/ AbortTick(o)
    \/ BookFill
    \/ PlaceCounter
    \/ RecordCounter
    \/ CounterFails
    \/ FillDone
    \/ TickStopped
    \/ TickHolding
    \/ TickTakesProfit
    \/ TickTrending
    \/ SecondPass
    \/ TickDrift

(* the live exchange is asked every few minutes *)
Reconciliation ==
    /\ Live
    /\ \/ ReconcileStarts
       \/ ReconcileLists
       \/ \E o \in Id : Reconcile(o)
       \/ ReconcileDone

Environment ==
    \/ \E q \in Prices : MarketMoves(q)
    \/ \E o \in Id : ExchangeTrades(o)
    \/ \E p \in Proc : \E l \in fr[p].lvls : LevelReplyLost(p, l)
    \/ CounterReplyLost
    \/ Crash

Next ==
    \/ Tick
    \/ \E p \in Proc : Lifecycle(p)
    \/ PersistState
    \/ PortfolioHalt
    \/ Reconciliation
    \/ PruneArchive
    \/ \E w \in Webs : WebStart(w) \/ WebStop(w)
    \/ Environment

Spec == Init /\ [][Next]_vars

(* The loop is one asyncio task that is always rescheduled, and pruning is  *)
(* started by it every few minutes; nothing else is bound to happen.        *)
FairSpec ==
    /\ Spec
    /\ WF_vars(Tick \/ Lifecycle(Loop) \/ Reconciliation)
    /\ WF_vars(PruneArchive)
-----------------------------------------------------------------------------
(* Properties *)

Labels == {"boot", "idle", "candles", "trades", "next", "logging", "closing",
           "adding", "guards", "banking", "cancelling", "starting", "quote",
           "regime", "place", "requote", "listing", "verifying", "off", "ready", "done"}

(* Every variable has its type. *)
TypeOK ==
    /\ price \in Prices
    /\ isActive \in BOOLEAN
    /\ centre \in Int \cup {None}
    /\ gridIds \subseteq Id
    /\ rawIds \subseteq Id
    /\ lots \in Int
    /\ cash \in BOOLEAN
    /\ hasFills \in BOOLEAN
    /\ lastStop \in {"never", "trending", "other"}
    /\ reinvested \in BOOLEAN
    /\ ord \in [Id -> Order]
    /\ pst \in [ids : SUBSET Id, centre : Int \cup {None}, hasFills : BOOLEAN] \cup {None}
    /\ crashes \in 0..MaxCrashes
    /\ pc \in [Proc -> Labels]
    /\ fr \in [Proc -> Frame]

(* No task is in the middle of anything. *)
Quiet == \A p \in Proc : pc[p] \in {"idle", "off", "ready", "done"}

(* Whatever the order of fills, refills, stops and retries, a filled grid   *)
(* order gets at most one counter-order (handle_fill is reached from two    *)
(* passes that use different records of what is still open).                *)
OneCounterPerFill == \A o \in Id : ord[o].kids <= 1

(* A session that its own tick or the portfolio's halt has stopped leaves   *)
(* no order behind in the order store that the simulated exchange could     *)
(* still fill (stop()).  A command beside a fill can leave one.             *)
StoppedGridHasNoOrders == Quiet /\ ~isActive => Open = {}

(* Between ticks the orders the orchestrator tracks are exactly those the   *)
(* order store holds open: the two books, updated apart, agree.             *)
BooksAgree == Quiet /\ isActive => gridIds = Open

(* No order of the store is forgotten by an active session, after a crash   *)
(* and recovery or beside webhook commands (start(), recover_state()).  An  *)
(* order that already has its counter-order, or that the exchange has       *)
(* filled or cancelled, is only waiting for its record to be closed.        *)
OpenOrdersAreTracked ==
    Quiet /\ isActive =>
        {o \in Open : ord[o].kids = 0 /\ ord[o].ex \notin {"filled", "cancelled"}} \subseteq gridIds

(* Of the orders the store shows as final only the remainder of a partial   *)
(* fill rests on the live exchange: none it calls CANCELLED, whatever       *)
(* cancel was refused, lost or answered late, and none it calls FILLED that *)
(* has not traded.  That the remainder rests is what the code does: the     *)
(* bot's pass writes FILLED after an order's first trade, and a later stop  *)
(* no longer cancels it (check_fills(), cancel_order(), reconcile_orders()). *)
OnlyRemaindersRest ==
    \A o \in Id :
        ord[o].st \in {"FILLED", "CANCELLED"} /\ ord[o].ex = "open" =>
            ord[o].st = "FILLED" /\ ord[o].trades > 0

(* A record that reached FILLED or CANCELLED is never given another status  *)
(* (cancel_order and the fill pass both write it after an await).           *)
FinalStatusIsFinal ==
    [][\A o \in Id : ord[o].st \in {"FILLED", "CANCELLED"}
                        => ord'[o].st \in {ord[o].st, "free"}]_vars

(* An order that stays open and crossed is eventually noticed: the loop     *)
(* handles it, cancels it, or the market moves back.                        *)
CrossedOrderIsResolved ==
    \A o \in Id : (ord[o].st = "OPEN" /\ Crossed(o, price))
                      ~> (ord[o].st # "OPEN" \/ ~Crossed(o, price))

Buys == {o \in Open : ord[o].side = "BUY"}
Sells == {o \in Open : ord[o].side = "SELL"}

(* The price ladder of a running grid keeps its shape over any sequence of  *)
(* fills and counter-orders: one order at every level but a single gap, the *)
(* buys below the gap and the sells above it.                               *)
GridShape ==
    Quiet /\ isActive /\ Open # {} =>
        LET ladder == {centre} \cup Levels(centre)
        IN  \E gap \in ladder :
                /\ \A l \in ladder \ {gap} : Cardinality({o \in Open : ord[o].at = l}) = 1
                /\ \A o \in Open : /\ ord[o].at \in ladder
                                   /\ ord[o].side = (IF ord[o].at < gap THEN "BUY" ELSE "SELL")

(* The inventory the session books, lot by lot, is the one its open orders  *)
(* would close: every open long lot has its sell resting above and every    *)
(* open short lot its buy below.                                            *)
InventoryIsCovered ==
    Quiet /\ isActive /\ Open # {} =>
        /\ lots = NDown - Cardinality(Buys)
        /\ lots = Cardinality(Sells) - NUp
=============================================================================
