----------------------------- MODULE Positions -----------------------------
(***************************************************************************)
(* The directional positions of the bot (bot_v2/bot.py): webhook signals    *)
(* that enter, flip and exit, and the monitor that closes a part or the     *)
(* whole of a position.  run() gathers both in every tick, only the signals *)
(* take the lock of the symbol, and every order is a chain of awaits on an  *)
(* exchange that may refuse, fill short or lose its reply.  One symbol: the *)
(* records of different symbols share nothing but the file they are saved   *)
(* in.  Amounts are counted in the smallest part ever closed.               *)
(***************************************************************************)
EXTENDS Naturals, FiniteSets, SequencesExt

CONSTANTS
    Qty,         \* the amount of an entry
    MaxSignals,  \* bound on the signals that arrive
    DailyMax,    \* daily_max_trades of the strategy
    MaxFaults    \* bound on refused, short and lost orders, and on restarts

ASSUME PositionsAssumption ==
    /\ Qty \in Nat \ {0}
    /\ DailyMax \in Nat \ {0}
    /\ MaxSignals \in Nat
    /\ MaxFaults \in Nat

VARIABLES
    phase,    \* of run(): "starting", "idle" between two ticks, "busy" in one
    pos,      \* positions[symbol]
    file,     \* active_positions.json
    queue,    \* signal_queue
    recent,   \* the actions that _recent_signals still drops
    waiting,  \* the signal tasks that wait for the symbol's lock
    task,     \* the signal task that holds the lock, and the monitor
    count,    \* the symbol's daily counter in the order manager
    held,     \* what the account holds at the exchange, on each side
    (* history *)
    nextId,   \* numbers the entries
    unbooked, \* amounts entered that no close has been booked for
    cause,    \* the first thing that can make the record differ from the account
    signals,
    faults

account == <<held, unbooked>>
limits == <<nextId, signals, faults>>
vars == <<phase, pos, file, queue, recent, waiting, task, count, account, cause, limits>>

Sides == {"LONG", "SHORT"}
Actions == {"buy", "sell", "exit"}
Tasks == {"signal", "monitor"}
Causes == {"none", "lost", "short", "stale", "deleted", "hedged", "late", "unsaved", "unasked"}
Steps == {"done", "fetch", "query", "price", "order", "reply", "ok", "raised", "tier", "entry"}
Kinds == {"entry", "flip", "exit", "partial"}

SideOf(a) == IF a = "buy" THEN "LONG" ELSE "SHORT"

NoPos == [id |-> 0]
IsOpen(p) == p # NoPos

NewPos(id, s, q) == [id |-> id, side |-> s, amount |-> q, initial |-> q, tp1a |-> FALSE]

Idle == [pc |-> "done"]

Fault == faults < MaxFaults /\ faults' = faults + 1

Because(c) == cause' = IF cause = "none" THEN c ELSE cause

(* Bound: once the record may differ, nothing new happens to it: what is    *)
(* going on ends, and the ticks go on.                                      *)
Followed == cause = "none"

Sum(f) == f["LONG"] + f["SHORT"]

Least(a, b) == IF a < b THEN a ELSE b

-----------------------------------------------------------------------------
(* Signals and ticks *)

(* handle_webhook_signal(): what arrives during a tick waits for the next *)
NewSignal(a) ==
    /\ phase = "idle"
    /\ Followed
    /\ signals < MaxSignals
    /\ signals' = signals + 1
    /\ queue' = Append(queue, a)
    /\ UNCHANGED <<phase, pos, file, recent, waiting, task, count, account, cause, nextId, faults>>

(* the time windows of _recent_signals end, which a tick looks at once *)
WindowPasses ==
    /\ phase = "idle"
    /\ recent # {}
    /\ Followed
    /\ recent' = {}
    /\ UNCHANGED <<phase, pos, file, queue, waiting, task, count, account, cause, limits>>

(* midnight: _reset_daily_counters_if_needed() *)
DayPasses ==
    /\ count > 0
    /\ Followed
    /\ count' = 0
    /\ UNCHANGED <<phase, pos, file, queue, recent, waiting, task, account, cause, limits>>

(* _process_signals() accepts the first signal of each kind, in their order *)
Accepted == ToSet(queue) \ recent
ArrivedAt(a) == Min({i \in DOMAIN queue : queue[i] = a})
InOrder(w) == \A i, j \in DOMAIN w : i < j => ArrivedAt(w[i]) < ArrivedAt(w[j])

(* run() gathers _process_signals() and _monitor_positions(), which begins *)
(* with a copy of the records                                              *)
StartTick ==
    /\ phase = "idle"
    /\ phase' = "busy"
    /\ queue' = <<>>
    /\ recent' = recent \cup ToSet(queue)
    /\ waiting' \in {w \in SetToSeqs(Accepted) : InOrder(w)}
    /\ task' = [task EXCEPT !["monitor"] = IF IsOpen(pos) THEN [pc |-> "fetch", snap |-> pos] ELSE Idle]
    /\ UNCHANGED <<pos, file, count, account, cause, limits>>

(* When both are done the positions are saved, or not yet (debouncing). *)
EndTick ==
    /\ phase = "busy"
    /\ waiting = <<>>
    /\ \A t \in Tasks : task[t] = Idle
    /\ phase' = "idle"
    /\ file' \in {pos, file}
    /\ UNCHANGED <<pos, queue, recent, waiting, task, count, account, cause, limits>>

-----------------------------------------------------------------------------
(* Orders: create_market_order() of the order manager and of the exchange   *)

Order(t, kind, s, q, p) ==
    task' = [task EXCEPT ![t] = [pc |-> "order", kind |-> kind, side |-> s, snap |-> p, amount |-> q,
                                 filled |-> 0, tries |-> 0, sends |-> 0, tp1a |-> FALSE]]

Go(t, pc) == task' = [task EXCEPT ![t].pc = pc]

(* A price that cannot be fetched is 0: an exit and a flip go on without. *)
PriceKnown(t) == IF task[t].kind \in {"exit", "flip"} THEN BOOLEAN ELSE {TRUE}

(* _check_safety_limits(), once for an order: closing orders count as      *)
(* trades too, and nothing is checked when the price is not known           *)
OverLimit(t, priced) == priced /\ task[t].sends = 0 /\ count >= DailyMax

\* as a mutation: the closing orders are not reduceOnly
Fillable_Asked(t) == task[t].amount

(* what the account can fill of a closing order, which is reduceOnly *)
Fillable(t) ==
    IF task[t].kind = "entry" THEN task[t].amount ELSE Least(task[t].amount, held[task[t].side])

(* the exchange executes q *)
Executes(t, q) ==
    LET s == task[t].side
    IN /\ IF task[t].kind = "entry"
          THEN /\ held' = [held EXCEPT ![s] = @ + q]
               /\ unbooked' = unbooked + q
          ELSE /\ held' = [held EXCEPT ![s] = @ - q]
               /\ UNCHANGED unbooked
       /\ task' = [task EXCEPT ![t].pc = "reply", ![t].filled = q]

(* an entry while something is held, a close for a record that is no longer *)
(* the current one, or one that fills short and is not followed up          *)
SendCause(t, short) ==
    CASE task[t].kind = "entry" /\ Sum(held) > 0 -> "hedged"
      [] task[t].kind # "entry" /\ pos.id # task[t].snap.id -> "late"
      [] short /\ task[t].kind \in {"exit", "flip"} -> "short"
      [] OTHER -> "none"

SendOrder(t) ==
    /\ task[t].pc = "order"
    /\ \/ /\ \E priced \in PriceKnown(t) : ~OverLimit(t, priced)
          /\ \E q \in 1..Fillable(t) :
                /\ Executes(t, q)
                /\ Because(SendCause(t, q < Fillable(t)))
                /\ IF q < Fillable(t) THEN Fault ELSE UNCHANGED faults
       \/ (OverLimit(t, TRUE) \/ Fillable(t) = 0) /\ Go(t, "raised") /\ UNCHANGED <<account, faults, cause>>
       \/ Go(t, "raised") /\ Fault /\ UNCHANGED <<account, cause>>
    /\ UNCHANGED <<phase, pos, file, queue, recent, waiting, count, nextId, signals>>

(* the bot is not told what was executed *)
Untold(t) ==
    /\ Fault
    /\ Because("lost")
    /\ unbooked' = IF task[t].kind = "entry" THEN unbooked ELSE unbooked - task[t].filled

(* _update_daily_counters(), which only compares with DailyMax *)
Counted(t) == \E priced \in PriceKnown(t) : count' = IF priced THEN Least(count + 1, DailyMax) ELSE count

(* The reply arrives; or resilient_call() loses it and sends the order     *)
(* again, up to three times; or something after the execution raises; or   *)
(* the reply does not tell the fill yet.                                   *)
Reply(t) ==
    /\ task[t].pc = "reply"
    /\ \/ Go(t, "ok") /\ Counted(t) /\ UNCHANGED <<unbooked, faults, cause>>
       \/ Untold(t) /\ task' = [task EXCEPT ![t].pc = IF task[t].sends < 2 THEN "order" ELSE "raised", ![t].sends = @ + 1]
            /\ UNCHANGED count
       \/ Untold(t) /\ Go(t, "raised") /\ UNCHANGED count
       \/ Untold(t) /\ task' = [task EXCEPT ![t].pc = "ok", ![t].filled = 0] /\ Counted(t)
    /\ UNCHANGED <<phase, pos, file, queue, recent, waiting, held, nextId, signals>>

-----------------------------------------------------------------------------
(* Records: what a write does to the books                                  *)

(* save_positions(): atomic, and at once *)
Save(p) == file' = p

(* the monitor puts back p, a copy of the record snap it read *)
PutBack(p, snap) ==
    /\ pos' = p
    /\ Because(IF pos # snap THEN "stale" ELSE "none")

(* `if symbol in self.positions: del self.positions[symbol]' *)
DropRecord(snap) ==
    /\ pos' = NoPos
    /\ Because(IF IsOpen(pos) /\ pos.id # snap.id THEN "deleted" ELSE "none")

-----------------------------------------------------------------------------
(* Signals: _process_single_signal(), under the symbol's lock               *)

TakeSignal ==
    LET a == Head(waiting)
    IN /\ waiting # <<>>
       /\ task["signal"] = Idle
       /\ waiting' = Tail(waiting)
       /\ task' = [task EXCEPT !["signal"] =
            CASE a = "exit" /\ IsOpen(pos) -> [pc |-> "query", snap |-> pos]
              [] a # "exit" /\ ~IsOpen(pos) -> [pc |-> "entry", side |-> SideOf(a)]
              [] a # "exit" /\ IsOpen(pos) /\ pos.side # SideOf(a) -> [pc |-> "price", snap |-> pos]
              [] OTHER -> Idle]
       /\ UNCHANGED <<phase, pos, file, queue, recent, count, account, cause, limits>>

Signal == task["signal"]
Other(s) == CHOOSE o \in Sides : o # s

(* _force_close_position(): sends the close whatever the exchange holds *)
FlipCloses ==
    /\ Signal.pc = "price"
    /\ Order("signal", "flip", Signal.snap.side, Signal.snap.amount, Signal.snap)
    /\ UNCHANGED <<phase, pos, file, queue, recent, waiting, count, account, cause, limits>>

(* closed: the trade goes to the history, its result not to the capital *)
FlipClosed ==
    /\ Signal.pc = "ok"
    /\ Signal.kind = "flip"
    /\ unbooked' = unbooked - Signal.filled
    /\ Go("signal", "tier")
    /\ UNCHANGED <<phase, pos, file, queue, recent, waiting, count, held, cause, limits>>

(* two seconds later the entry follows *)
EntersNext == task' = [task EXCEPT !["signal"] = [pc |-> "entry", side |-> Other(Signal.snap.side)]]

FlipRemoves ==
    /\ Signal.pc = "tier"
    /\ Signal.kind = "flip"
    /\ DropRecord(Signal.snap)
    /\ EntersNext
    /\ UNCHANGED <<phase, file, queue, recent, waiting, count, account, limits>>

(* not closed: the error is only logged, and the entry follows all the same *)
FlipFails ==
    /\ Signal.pc = "raised"
    /\ Signal.kind = "flip"
    /\ EntersNext
    /\ UNCHANGED <<phase, pos, file, queue, recent, waiting, count, account, cause, limits>>

(* _handle_entry_signal(): no price, no volatility, a filter, no capital, a *)
(* risk limit or too small an amount rejects the entry                      *)
EntryIsRejected ==
    /\ Signal.pc = "entry"
    /\ task' = [task EXCEPT !["signal"] = Idle]
    /\ UNCHANGED <<phase, pos, file, queue, recent, waiting, count, account, cause, limits>>

EntryOrders ==
    /\ Signal.pc = "entry"
    /\ Order("signal", "entry", Signal.side, Qty, NoPos)
    /\ UNCHANGED <<phase, pos, file, queue, recent, waiting, count, account, cause, limits>>

\* as a mutation: the record gets what was asked, not what was filled
Entered_Asked ==
    /\ Signal.pc = "ok"
    /\ Signal.kind = "entry"
    /\ Signal.filled > 0
    /\ nextId' = nextId + 1
    /\ pos' = NewPos(nextId + 1, Signal.side, Signal.amount)
    /\ task' = [task EXCEPT !["signal"] = Idle]
    /\ UNCHANGED <<phase, file, queue, recent, waiting, count, account, cause, signals, faults>>

Entered ==
    /\ Signal.pc = "ok"
    /\ Signal.kind = "entry"
    /\ Signal.filled > 0
    /\ nextId' = nextId + 1
    /\ pos' = NewPos(nextId + 1, Signal.side, Signal.filled)
    /\ task' = [task EXCEPT !["signal"] = Idle]
    /\ UNCHANGED <<phase, file, queue, recent, waiting, count, account, cause, signals, faults>>

EntryFails ==
    /\ Signal.pc \in {"ok", "raised"}
    /\ Signal.kind = "entry"
    /\ Signal.pc = "ok" => Signal.filled = 0
    /\ task' = [task EXCEPT !["signal"] = Idle]
    /\ UNCHANGED <<phase, pos, file, queue, recent, waiting, count, account, cause, limits>>

-----------------------------------------------------------------------------
(* _exit_position(), of an exit signal or of the monitor                    *)

(* _get_exchange_position(): the first side that is not empty; without an  *)
(* answer, or when it is zero, the amount of the record                    *)
Answers(t) == {held[s] : s \in {x \in Sides : held[x] > 0}}

ExitQueries(t) ==
    /\ task[t].pc = "query"
    /\ \E q \in Answers(t) \cup {task[t].snap.amount} : Order(t, "exit", task[t].snap.side, q, task[t].snap)
    /\ UNCHANGED <<phase, pos, file, queue, recent, waiting, count, account, cause, limits>>

\* as a mutation: the attempts are not counted
ExitRetries_Forever(t) ==
    /\ task[t].pc \in {"ok", "raised"}
    /\ task[t].kind = "exit"
    /\ task[t].pc = "ok" => task[t].filled = 0
    /\ task' = [task EXCEPT ![t].pc = "order"]
    /\ UNCHANGED <<phase, pos, file, queue, recent, waiting, count, account, cause, limits>>

(* no order, an exception or no fill: two more attempts *)
ExitRetries(t) ==
    /\ task[t].pc \in {"ok", "raised"}
    /\ task[t].kind = "exit"
    /\ task[t].pc = "ok" => task[t].filled = 0
    /\ LET again == [task[t] EXCEPT !.pc = "order", !.tries = @ + 1, !.sends = 0]
       IN task' = [task EXCEPT ![t] = IF task[t].tries < 2 THEN again ELSE Idle]
    /\ UNCHANGED <<phase, pos, file, queue, recent, waiting, count, account, cause, limits>>

\* as a mutation: the amount that was asked is booked, not what was filled
ExitIsBooked_Asked(t) ==
    /\ task[t].pc = "ok"
    /\ task[t].kind = "exit"
    /\ task[t].filled > 0
    /\ unbooked' = unbooked - task[t].amount
    /\ Go(t, "tier")
    /\ UNCHANGED <<phase, pos, file, queue, recent, waiting, count, held, cause, limits>>

(* closed: capital, counters and history; the tier may be notified *)
ExitIsBooked(t) ==
    /\ task[t].pc = "ok"
    /\ task[t].kind = "exit"
    /\ task[t].filled > 0
    /\ unbooked' = unbooked - task[t].filled
    /\ Go(t, "tier")
    /\ UNCHANGED <<phase, pos, file, queue, recent, waiting, count, held, cause, limits>>

(* and the record goes, if there is one, from memory and from the file *)
ExitRemoves(t) ==
    /\ task[t].pc = "tier"
    /\ task[t].kind = "exit"
    /\ DropRecord(task[t].snap)
    /\ Save(IF IsOpen(pos) THEN NoPos ELSE file)
    /\ task' = [task EXCEPT ![t] = Idle]
    /\ UNCHANGED <<phase, queue, recent, waiting, count, account, limits>>

-----------------------------------------------------------------------------
(* The monitor: _monitor_positions()                                        *)

Monitor == task["monitor"]

(* the prices have arrived, or not *)
MonitorSkips ==
    /\ Monitor.pc = "fetch"
    /\ task' = [task EXCEPT !["monitor"] = Idle]
    /\ UNCHANGED <<phase, pos, file, queue, recent, waiting, count, account, cause, limits>>

(* The metrics and the trailing stop go into the record that was read, and *)
(* the exit engine decides: nothing, a full exit, or, before TP1a, a part. *)
MonitorDecides ==
    /\ Monitor.pc = "fetch"
    /\ PutBack(Monitor.snap, Monitor.snap)
    /\ \/ task' = [task EXCEPT !["monitor"] = Idle]
       \/ task' = [task EXCEPT !["monitor"] = [pc |-> "query", snap |-> Monitor.snap]]
       \/ /\ Monitor.snap.amount > 1
          /\ ~Monitor.snap.tp1a
          /\ \E tp1a \in BOOLEAN :
                task' = [task EXCEPT !["monitor"] = [pc |-> "price", snap |-> Monitor.snap, tp1a |-> tp1a]]
    /\ UNCHANGED <<phase, file, queue, recent, waiting, count, account, limits>>

(* _partial_close_position(): no price; or the part is too small, and the  *)
(* rest too (a full exit) or not (TP1a counts as done); or an order         *)
PartialStops ==
    /\ Monitor.pc = "price"
    /\ task' = [task EXCEPT !["monitor"] = Idle]
    /\ UNCHANGED <<phase, pos, file, queue, recent, waiting, count, account, cause, limits>>

PartialTooSmall ==
    /\ Monitor.pc = "price"
    /\ \/ /\ task' = [task EXCEPT !["monitor"] = [pc |-> "query", snap |-> Monitor.snap]]
          /\ UNCHANGED <<pos, file, cause>>
       \/ /\ Monitor.tp1a
          /\ LET done == [Monitor.snap EXCEPT !.tp1a = TRUE]
             IN PutBack(done, Monitor.snap) /\ Save(done)
          /\ task' = [task EXCEPT !["monitor"] = Idle]
    /\ UNCHANGED <<phase, queue, recent, waiting, count, account, limits>>

PartialOrders ==
    /\ Monitor.pc = "price"
    /\ task' = [task EXCEPT !["monitor"] = [pc |-> "order", kind |-> "partial", side |-> Monitor.snap.side, snap |-> Monitor.snap,
                 amount |-> 1, filled |-> 0, tries |-> 0, sends |-> 0, tp1a |-> Monitor.tp1a]]
    /\ UNCHANGED <<phase, pos, file, queue, recent, waiting, count, account, cause, limits>>

PartialFails ==
    /\ Monitor.pc \in {"ok", "raised"}
    /\ Monitor.kind = "partial"
    /\ Monitor.pc = "ok" => Monitor.filled = 0
    /\ task' = [task EXCEPT !["monitor"] = Idle]
    /\ UNCHANGED <<phase, pos, file, queue, recent, waiting, count, account, cause, limits>>

(* the volatility is fetched once more, and the copy is written *)
PartialIsBooked ==
    LET rest == [Monitor.snap EXCEPT !.amount = @ - Monitor.filled, !.tp1a = Monitor.tp1a]
    IN /\ Monitor.pc = "ok"
       /\ Monitor.kind = "partial"
       /\ Monitor.filled > 0
       /\ PutBack(rest, Monitor.snap)
       /\ Save(rest)
       /\ unbooked' = unbooked - Monitor.filled
       /\ task' = [task EXCEPT !["monitor"] = Idle]
       /\ UNCHANGED <<phase, queue, recent, waiting, count, held, limits>>

-----------------------------------------------------------------------------
(* Restart                                                                  *)

Known(f, s) == IsOpen(f) /\ f.side = s

(* load_positions(): an amount above the initial one is clamped to it *)
Loaded(f) == IF IsOpen(f) THEN [f EXCEPT !.amount = Least(@, f.initial)] ELSE f

(* what the tasks executed without booking it yet is never booked *)
InFlight(t) ==
    IF task[t].pc \in {"reply", "ok"} /\ task[t].kind # "entry" THEN task[t].filled ELSE 0

Crash ==
    /\ Followed
    /\ Fault
    /\ phase' = "starting"
    /\ pos' = Loaded(file)
    /\ queue' = <<>>
    /\ recent' = {}
    /\ waiting' = <<>>
    /\ task' = [t \in Tasks |-> Idle]
    /\ count' = 0
    /\ unbooked' = unbooked - InFlight("signal") - InFlight("monitor")
    /\ Because(IF \E s \in Sides : held[s] > 0 /\ ~Known(file, s) THEN "unsaved" ELSE "none")
    /\ UNCHANGED <<file, held, nextId, signals>>

(* _reconcile_positions_with_exchange(): the amounts are compared, not the *)
(* sides; a position the exchange does not have is dropped and saved.      *)
Reconcile ==
    /\ phase = "starting"
    /\ phase' = "idle"
    /\ \/ ~IsOpen(pos) /\ UNCHANGED <<pos, file, faults, cause>>
       \/ /\ IsOpen(pos)
          /\ Sum(held) = 0
          /\ pos' = NoPos
          /\ Save(NoPos)
          /\ UNCHANGED <<faults, cause>>
       \/ /\ IsOpen(pos)
          /\ \E s \in Sides : held[s] > 0 /\ pos' = [pos EXCEPT !.amount = held[s]]
          /\ UNCHANGED <<file, faults, cause>>
       \/ /\ IsOpen(pos)                  \* no answer
          /\ Because("unasked")
          /\ UNCHANGED <<pos, file, faults>>
    /\ UNCHANGED <<queue, recent, waiting, task, count, account, nextId, signals>>

-----------------------------------------------------------------------------

(* The bot starts with an entry that an earlier session saved. *)
Init ==
    /\ phase = "starting"
    /\ pos = NewPos(1, "LONG", Qty)
    /\ file = pos
    /\ held = [s \in Sides |-> IF Known(file, s) THEN Qty ELSE 0]
    /\ unbooked = Sum(held)
    /\ nextId = 1
    /\ queue = <<>>
    /\ recent = {}
    /\ waiting = <<>>
    /\ task = [t \in Tasks |-> Idle]
    /\ count = 0
    /\ cause = "none"
    /\ signals = 0
    /\ faults = 0

(* a step of the order or of the exit that task t is in *)
TaskNext(t) ==
    \/ SendOrder(t)
    \/ Reply(t)
    \/ ExitQueries(t)
    \/ ExitRetries(t)
    \/ ExitIsBooked(t)
    \/ ExitRemoves(t)

SignalNext ==
    \/ TakeSignal
    \/ FlipCloses
    \/ FlipClosed
    \/ FlipRemoves
    \/ FlipFails
    \/ EntryIsRejected
    \/ EntryOrders
    \/ Entered
    \/ EntryFails
    \/ TaskNext("signal")

MonitorNext ==
    \/ MonitorSkips
    \/ MonitorDecides
    \/ PartialStops
    \/ PartialTooSmall
    \/ PartialOrders
    \/ PartialFails
    \/ PartialIsBooked
    \/ TaskNext("monitor")

RunNext == StartTick \/ EndTick \/ Reconcile

Next ==
    \/ RunNext
    \/ SignalNext
    \/ MonitorNext
    \/ \E a \in Actions : NewSignal(a)
    \/ WindowPasses
    \/ DayPasses
    \/ Crash

(* The event loop goes on while any of its tasks can.                      *)
Fairness == WF_vars(RunNext \/ SignalNext \/ MonitorNext)

Spec == Init /\ [][Next]_vars /\ Fairness

-----------------------------------------------------------------------------
(* Properties *)

Records == {NoPos} \cup
    [id : Nat \ {0}, side : Sides, amount : Nat \ {0}, initial : Nat \ {0}, tp1a : BOOLEAN]

(* Types of the records, the account and the tasks: no amount is negative. *)
TypeOK ==
    /\ phase \in {"starting", "idle", "busy"}
    /\ pos \in Records
    /\ file \in Records
    /\ recent \subseteq Actions
    /\ queue \in Seq(Actions)
    /\ waiting \in Seq(Actions)
    /\ \A t \in Tasks : task[t].pc \in Steps
    /\ count \in 0..DailyMax
    /\ held \in [Sides -> Nat]
    /\ {unbooked, nextId, signals, faults} \subseteq Nat
    /\ cause \in Causes

(* The books agree with the account: between two ticks the record says what *)
(* the exchange holds, also after a restart.  The causes are the only ways  *)
(* for it not to: a reply that is lost after the execution, a close that    *)
(* fills short, the monitor writing a record it read before a signal        *)
(* changed it, an exit deleting the next position, the entry of a flip      *)
(* whose close failed, a close that comes too late and hits the next        *)
(* position, a crash before the first save of an entry, and a restart at    *)
(* which the exchange does not answer.                                      *)
BooksAgree ==
    phase = "idle" /\ cause = "none" =>
        \A s \in Sides : held[s] = IF IsOpen(pos) /\ pos.side = s THEN pos.amount ELSE 0

(* Every amount the exchange closed is booked once: to the capital, or as a *)
(* flip, or it is one the bot was not told of; whatever failed or raced.    *)
EveryCloseIsBooked ==
    unbooked = Sum(held) + InFlight("signal") + InFlight("monitor")

(* However the exchange fails, no task retries for ever: every tick ends,  *)
(* so that the signals in the queue are taken up.                           *)
TickEnds == phase = "busy" ~> phase = "idle"
=============================================================================
