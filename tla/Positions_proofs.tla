--------------------------- MODULE Positions_proofs ---------------------------
(***************************************************************************)
(* The books of module Positions: type correctness, that every close is    *)
(* booked once, and that the record agrees with the account between two    *)
(* ticks, for every amount, number of signals, daily limit and number of   *)
(* faults.                                                                 *)
(***************************************************************************)
EXTENDS Positions, FiniteSetTheorems, TLAPS

-----------------------------------------------------------------------------
(* What a task can be doing *)

OpenRecords ==
    [id : Nat \ {0}, side : Sides, amount : Nat \ {0}, initial : Nat \ {0}, tp1a : BOOLEAN]

Fetches == [pc : {"fetch"}, snap : OpenRecords]
Queries == [pc : {"query"}, snap : OpenRecords]
FlipsBegun == [pc : {"price"}, snap : OpenRecords]
PartsBegun == [pc : {"price"}, snap : OpenRecords, tp1a : BOOLEAN]
EntriesBegun == [pc : {"entry"}, side : Sides]
Sent == {"order", "reply", "ok", "raised", "tier"}
Orders == [pc : Sent, kind : Kinds, side : Sides, snap : Records, amount : Nat \ {0},
           filled : Nat, tries : 0..2, sends : Nat, tp1a : BOOLEAN]

(* An order closes what the record said that it was made for; a part is    *)
(* never the whole.                                                        *)
OrderOK(o) ==
    /\ o.filled <= o.amount
    /\ IF o.kind = "entry" THEN o.snap = NoPos /\ o.pc # "tier"
       ELSE IsOpen(o.snap) /\ o.side = o.snap.side
    /\ o.kind = "partial" => o.amount = 1 /\ o.snap.amount > 1 /\ o.pc # "tier"

SignalShapes == {Idle} \cup Queries \cup FlipsBegun \cup EntriesBegun
                  \cup {o \in Orders : OrderOK(o) /\ o.kind # "partial"}
MonitorShapes == {Idle} \cup Fetches \cup Queries
                   \cup {p \in PartsBegun : p.snap.amount > 1}
                   \cup {o \in Orders : OrderOK(o) /\ o.kind \in {"exit", "partial"}}
Shapes(t) == IF t = "signal" THEN SignalShapes ELSE MonitorShapes

(* a task that goes on from the record that it has read, its snap *)
Follows(v) == v.pc \notin {"done", "entry"} /\ (v.pc \in Sent => v.kind # "entry")
Reads(t) == Follows(task[t])

(* No record in use has an id that is still to come. *)
IdsOK ==
    /\ pos.id <= nextId /\ file.id <= nextId
    /\ \A t \in Tasks : Reads(t) => task[t].snap.id <= nextId

(* The tasks run within a tick only. *)
AtRest == waiting = <<>> /\ \A t \in Tasks : task[t] = Idle

TypeInv ==
    /\ TypeOK
    /\ DOMAIN task = Tasks
    /\ \A t \in Tasks : task[t] \in Shapes(t)
    /\ IdsOK
    /\ phase # "busy" => AtRest

BookedInv == TypeInv /\ EveryCloseIsBooked

-----------------------------------------------------------------------------
(* The record and the account, while no cause has come up *)

(* an entry that the exchange has executed and the bot has not recorded *)
EntryDone == Signal.pc \in {"reply", "ok"} /\ Signal.kind = "entry"

(* the record is still there of a position that task t has closed *)
ClosedBy(t) ==
    /\ task[t].pc \in {"reply", "ok", "tier"}
    /\ task[t].kind \in {"exit", "flip"}
    /\ task[t].snap.id = pos.id

(* what the monitor has closed of the position and not yet written *)
Unwritten ==
    IF Monitor.pc \in {"reply", "ok"} /\ Monitor.kind = "partial" /\ Monitor.snap.id = pos.id
    THEN Monitor.filled ELSE 0

Recorded(s) ==
    IF IsOpen(pos) /\ pos.side = s /\ ~(\E t \in Tasks : ClosedBy(t))
    THEN pos.amount - Unwritten ELSE 0

Held ==
    IF EntryDone THEN \A s \in Sides : held[s] = IF s = Signal.side THEN Signal.filled ELSE 0
    ELSE \A s \in Sides : held[s] = Recorded(s)

(* Whoever has read the position that is recorded knows its side, and asks *)
(* for no less than what is left of it.                                    *)
ReadOK(t) ==
    Reads(t) /\ task[t].snap.id = pos.id =>
        /\ task[t].snap.side = pos.side /\ task[t].snap.amount >= pos.amount
        /\ task[t].pc \in {"order", "raised"} /\ task[t].kind # "partial"
              => task[t].amount >= held[pos.side]

(* a task between an execution and its end has closed something *)
ExecutedOK(t) == task[t].pc \in {"reply", "ok", "tier"} => task[t].filled > 0

(* a flip that enters, and an entry, never enter on the recorded side *)
EntersOther ==
    /\ Signal.pc = "entry" \/ (Signal.pc \in Sent /\ Signal.kind = "entry")
    /\ IsOpen(pos)
    => pos.side # Signal.side

(* Under the lock, the record that the signal task has read stays or goes. *)
LockOK == Reads("signal") /\ IsOpen(pos) => pos.id = Signal.snap.id

(* After a restart the account holds nothing that is not on record. *)
Restored == \A s \in Sides : held[s] > 0 => Known(pos, s)

Agreed ==
    IF phase = "starting" THEN Restored
    ELSE /\ Held /\ EntersOther /\ LockOK
         /\ \A t \in Tasks : ReadOK(t) /\ ExecutedOK(t)

BooksInv == BookedInv /\ (cause = "none" => Agreed)
-----------------------------------------------------------------------------
(* Facts about records and tasks *)

LEMMA TwoSides ==
  ASSUME NEW s \in Sides
  PROVE  Other(s) \in Sides /\ Other(s) # s /\ \A x \in Sides : x = s \/ x = Other(s)
  BY DEF Sides, Other

LEMMA OpenIsRecord ==
  ASSUME NEW p \in Records
  PROVE  /\ IsOpen(p) <=> p \in OpenRecords
         /\ IsOpen(p) <=> p.id # 0
         /\ p.id \in Nat
  BY DEF Records, OpenRecords, IsOpen, NoPos

(* What a task is, told by its pc. *)
LEMMA ShapeOf ==
  ASSUME NEW t \in Tasks, NEW v \in Shapes(t)
  PROVE  /\ v.pc = "done" => v = Idle
         /\ v.pc = "fetch" => t = "monitor" /\ v \in Fetches
         /\ v.pc = "query" => v \in Queries
         /\ v.pc = "price" => IF t = "signal" THEN v \in FlipsBegun
                             ELSE v \in PartsBegun /\ v.snap.amount > 1
         /\ v.pc = "entry" => t = "signal" /\ v \in EntriesBegun
         /\ v.pc \in Sent => v \in Orders /\ OrderOK(v)
         /\ v.pc \in Sent => v.kind \in IF t = "signal" THEN {"entry", "flip", "exit"}
                                       ELSE {"exit", "partial"}
         /\ v.pc \in {"done", "fetch", "query", "price", "entry"} \cup Sent
  BY DEF Tasks, Shapes, SignalShapes, MonitorShapes, Queries, Fetches, FlipsBegun, PartsBegun,
         EntriesBegun, Orders, Kinds, Sent, Idle

(* ... and the record that it goes on from *)
LEMMA SnapOf ==
  ASSUME NEW t \in Tasks, NEW v \in Shapes(t), Follows(v)
  PROVE  v.snap \in OpenRecords /\ v.snap.id \in Nat /\ v.snap.amount \in Nat /\ v.snap.side \in Sides
<1>1. v.pc \in Sent => v.snap \in OpenRecords
  BY ShapeOf, OpenIsRecord DEF Follows, Sent, Orders, OrderOK
<1>2. v.pc \notin Sent => v.snap \in OpenRecords
  BY ShapeOf DEF Follows, Fetches, Queries, FlipsBegun, PartsBegun
<1> QED
  BY <1>1, <1>2 DEF OpenRecords

(* what one task has closed and not booked *)
Flight(v) == IF v.pc \in {"reply", "ok"} /\ v.kind # "entry" THEN v.filled ELSE 0

LEMMA FlightOf ==
  /\ InFlight("signal") = Flight(Signal) /\ InFlight("monitor") = Flight(Monitor)
  /\ InFlight("signal")' = Flight(Signal') /\ InFlight("monitor")' = Flight(Monitor')
  BY DEF InFlight, Flight, Signal, Monitor

LEMMA FlightIsNat ==
  ASSUME NEW t \in Tasks, NEW v \in Shapes(t)
  PROVE  Flight(v) \in Nat
  BY ShapeOf DEF Flight, Sent, Orders

(* A task is under way in a tick only. *)
LEMMA BusyWhenRunning ==
  ASSUME TypeInv, NEW t \in Tasks, task[t].pc # "done"
  PROVE  phase = "busy"
  BY DEF TypeInv, AtRest, Idle

(* the other of the two tasks *)
Beside(t) == IF t = "signal" THEN "monitor" ELSE "signal"

LEMMA OneTask ==
  ASSUME DOMAIN task = Tasks, NEW t \in Tasks, NEW v, task' = [task EXCEPT ![t] = v]
  PROVE  /\ DOMAIN task' = Tasks /\ task'[t] = v
         /\ task'[Beside(t)] = task[Beside(t)]
         /\ Beside(t) \in Tasks /\ Beside(t) # t /\ Tasks = {t, Beside(t)}
  BY DEF Beside, Tasks

(* A step of one task keeps the types and the books if what it leaves the  *)
(* task with, and what it does to the record and the account, fit.         *)
LEMMA TaskStep ==
  ASSUME BookedInv, phase = "busy", NEW t \in Tasks, NEW v \in Shapes(t),
         task' = [task EXCEPT ![t] = v],
         UNCHANGED <<phase, queue, recent, signals>>, waiting' \in Seq(Actions),
         pos' \in Records, file' \in Records, held' \in [Sides -> Nat], faults' \in Nat,
         count' \in 0..DailyMax, cause' \in Causes,
         nextId' \in Nat, nextId <= nextId', pos'.id <= nextId', file'.id <= nextId',
         Follows(v) => v.snap.id <= nextId,
         unbooked' = Sum(held') + Flight(v) + Flight(task[Beside(t)])
  PROVE  BookedInv'
<1>1. /\ DOMAIN task' = Tasks /\ task'[t] = v /\ task'[Beside(t)] = task[Beside(t)]
      /\ Beside(t) \in Tasks /\ Tasks = {t, Beside(t)}
  BY OneTask DEF BookedInv, TypeInv
<1>2. \A u \in Tasks : task'[u] \in Shapes(u)
  BY <1>1 DEF BookedInv, TypeInv
<1>3. \A u \in Tasks : task'[u].pc \in Steps
  <2> SUFFICES ASSUME NEW u \in Tasks PROVE task'[u].pc \in Steps
    OBVIOUS
  <2> QED
    BY <1>2, ShapeOf DEF Sent, Steps
<1>4. Flight(v) \in Nat /\ Flight(task[Beside(t)]) \in Nat
  BY <1>1, FlightIsNat DEF BookedInv, TypeInv
<1>5. unbooked' \in Nat
  BY <1>4 DEF Sum, Sides
<1>6. TypeOK'
  BY <1>3, <1>5 DEF BookedInv, TypeInv, TypeOK
<1>7. IdsOK'
  <2>1. \A u \in Tasks : Follows(task[u]) => task[u].snap.id \in Nat /\ task[u].snap.id <= nextId
    BY SnapOf DEF BookedInv, TypeInv, IdsOK, Reads
  <2>2. Follows(v) => v.snap.id \in Nat
    BY SnapOf
  <2> QED
    BY <1>1, <2>1, <2>2, SMTT(30) DEF BookedInv, TypeInv, TypeOK, IdsOK, Reads
<1>8. EveryCloseIsBooked'
  BY <1>1, <1>4, FlightOf DEF EveryCloseIsBooked, Beside, Signal, Monitor, Sum, Tasks, Sides
<1> QED
  BY <1>1, <1>2, <1>6, <1>7, <1>8 DEF BookedInv, TypeInv, AtRest
-----------------------------------------------------------------------------
(* Type correctness and the booking of closes, step by step *)

(* what a task does when it only goes on *)
GoesOn(t, v) ==
    /\ task' = [task EXCEPT ![t] = v]
    /\ UNCHANGED <<phase, pos, file, queue, recent, account, nextId, signals>>

LEMMA Books ==
  ASSUME BookedInv
  PROVE  /\ unbooked = Sum(held) + Flight(Signal) + Flight(Monitor)
         /\ held \in [Sides -> Nat] /\ Sum(held) \in Nat
         /\ Flight(Signal) \in Nat /\ Flight(Monitor) \in Nat
         /\ pos \in Records /\ file \in Records /\ pos.id <= nextId /\ file.id <= nextId
         /\ {nextId, signals, faults, unbooked} \subseteq Nat /\ count \in 0..DailyMax /\ cause \in Causes
         /\ waiting \in Seq(Actions)
         /\ \A t \in Tasks : task[t] \in Shapes(t) /\ (Follows(task[t]) => task[t].snap.id <= nextId)
<1>1. Flight(Signal) \in Nat /\ Flight(Monitor) \in Nat
  BY FlightIsNat DEF BookedInv, TypeInv, Signal, Monitor, Tasks
<1> QED
  BY <1>1, FlightOf, SMTT(30) DEF BookedInv, TypeInv, TypeOK, IdsOK, Reads, EveryCloseIsBooked, Sum, Sides

LEMMA GoesOnStep ==
  ASSUME BookedInv, phase = "busy", NEW t \in Tasks, NEW v \in Shapes(t), GoesOn(t, v),
         Flight(v) = Flight(task[t]), Follows(v) => v.snap.id <= nextId,
         faults' \in Nat, count' \in 0..DailyMax, cause' \in Causes, waiting' \in Seq(Actions)
  PROVE  BookedInv'
<1>1. unbooked' = Sum(held') + Flight(v) + Flight(task[Beside(t)])
  BY Books DEF GoesOn, account, Sum, Beside, Tasks, Signal, Monitor
<1>2. /\ UNCHANGED <<phase, pos, file, queue, recent, held, nextId, signals>>
      /\ task' = [task EXCEPT ![t] = v]
  BY DEF GoesOn, account
<1>3. /\ pos' \in Records /\ file' \in Records /\ pos'.id <= nextId' /\ file'.id <= nextId'
      /\ held' \in [Sides -> Nat] /\ nextId' \in Nat /\ nextId <= nextId'
  BY <1>2, Books
<1> QED
  BY <1>1, <1>2, <1>3, TaskStep

LEMMA TakeSignalBooked ==
  ASSUME BookedInv, TakeSignal
  PROVE  BookedInv'
<1> DEFINE a == Head(waiting)
           v == CASE a = "exit" /\ IsOpen(pos) -> [pc |-> "query", snap |-> pos]
                  [] a # "exit" /\ ~IsOpen(pos) -> [pc |-> "entry", side |-> SideOf(a)]
                  [] a # "exit" /\ IsOpen(pos) /\ pos.side # SideOf(a) -> [pc |-> "price", snap |-> pos]
                  [] OTHER -> Idle
<1>1. /\ GoesOn("signal", v) /\ "signal" \in Tasks
      /\ UNCHANGED <<count, faults, cause>> /\ task["signal"] = Idle /\ waiting # <<>>
  BY DEF TakeSignal, GoesOn, limits, Tasks
<1>2. waiting' \in Seq(Actions) /\ phase = "busy"
  BY <1>1, Books DEF TakeSignal, BookedInv, TypeInv, AtRest
<1>3. pos \in Records /\ (IsOpen(pos) => pos \in OpenRecords) /\ pos.id <= nextId
  BY Books, OpenIsRecord
<1>4. v \in {Idle} \cup Queries \cup EntriesBegun \cup FlipsBegun
  BY <1>3 DEF Queries, EntriesBegun, FlipsBegun, SideOf, Sides
<1>5. v \in Shapes("signal") /\ Flight(v) = 0 /\ Flight(task["signal"]) = 0
  BY <1>1, <1>4 DEF Shapes, SignalShapes, Flight, Idle, Queries, EntriesBegun, FlipsBegun
<1>6. Follows(v) => v.snap.id <= nextId
  BY <1>3 DEF Follows, Idle
<1> HIDE DEF v
<1> QED
  BY <1>1, <1>2, <1>5, <1>6, Books, GoesOnStep

(* the order that Order(t, kind, s, q, p) makes *)
NewOrder(kind, s, q, p) ==
    [pc |-> "order", kind |-> kind, side |-> s, snap |-> p, amount |-> q,
     filled |-> 0, tries |-> 0, sends |-> 0, tp1a |-> FALSE]

LEMMA NewOrderShape ==
  ASSUME NEW t \in Tasks, NEW kind \in {"entry", "flip", "exit"}, t = "monitor" => kind = "exit",
         NEW s \in Sides, NEW q \in Nat \ {0},
         NEW p \in Records, kind = "entry" => p = NoPos,
         kind # "entry" => IsOpen(p) /\ s = p.side
  PROVE  /\ NewOrder(kind, s, q, p) \in Shapes(t) /\ Flight(NewOrder(kind, s, q, p)) = 0
         /\ NewOrder(kind, s, q, p).snap = p
<1> DEFINE o == NewOrder(kind, s, q, p)
<1>1. o \in Orders
  BY DEF NewOrder, Orders, Sent, Kinds
<1>2. OrderOK(o) /\ o.kind = kind /\ kind # "partial" /\ o.snap = p
  BY DEF NewOrder, OrderOK
<1>3. Flight(o) = 0
  BY DEF NewOrder, Flight
<1> HIDE DEF o
<1>4. o \in Shapes(t)
  BY <1>1, <1>2 DEF Shapes, SignalShapes, MonitorShapes, Tasks
<1> QED
  BY <1>2, <1>3, <1>4 DEF o

LEMMA FlipClosesBooked ==
  ASSUME BookedInv, FlipCloses
  PROVE  BookedInv'
<1> DEFINE p == Signal.snap
           v == NewOrder("flip", p.side, p.amount, p)
<1>1. GoesOn("signal", v) /\ "signal" \in Tasks /\ UNCHANGED <<count, faults, cause, waiting>> /\ Signal.pc = "price"
  BY DEF FlipCloses, Order, GoesOn, NewOrder, limits, Tasks
<1>2. Signal \in FlipsBegun /\ p \in OpenRecords /\ p.id <= nextId
  BY <1>1, Books, ShapeOf DEF Signal, FlipsBegun, Follows, Sent
<1>3. p \in Records /\ IsOpen(p) /\ p.side \in Sides /\ p.amount \in Nat \ {0}
  BY <1>2 DEF Records, OpenRecords, IsOpen, NoPos
<1>4. v \in Shapes("signal") /\ Flight(v) = 0 /\ v.snap = p
  BY <1>3, <1>1, NewOrderShape
<1>5. Flight(task["signal"]) = 0
  BY <1>1 DEF Flight, Signal
<1>6. phase = "busy"
  BY <1>1, BusyWhenRunning DEF BookedInv, Signal
<1> HIDE DEF v, p
<1> QED
  BY <1>1, <1>2, <1>4, <1>5, <1>6, Books, GoesOnStep

LEMMA EntersNextBooked ==
  ASSUME BookedInv, FlipFails
  PROVE  BookedInv'
<1> DEFINE v == [pc |-> "entry", side |-> Other(Signal.snap.side)]
<1>1. /\ GoesOn("signal", v) /\ "signal" \in Tasks /\ UNCHANGED <<count, faults, cause, waiting>>
      /\ Signal.pc = "raised" /\ Signal.kind = "flip"
  BY DEF FlipFails, EntersNext, GoesOn, limits, Tasks
<1>2. Signal.snap.side \in Sides
  BY <1>1, Books, SnapOf DEF Signal, Follows
<1>3. v \in Shapes("signal") /\ Flight(v) = 0 /\ ~Follows(v) /\ Flight(task["signal"]) = 0
  BY <1>1, <1>2, TwoSides DEF Shapes, SignalShapes, EntriesBegun, Flight, Follows, Signal
<1>4. phase = "busy"
  BY <1>1, BusyWhenRunning DEF BookedInv, Signal
<1> HIDE DEF v
<1> QED
  BY <1>1, <1>3, <1>4, Books, GoesOnStep

(* a task that is done with its order, its query or its entry *)
LEMMA EndsBooked ==
  ASSUME BookedInv, NEW t \in Tasks, task[t].pc # "done", Flight(task[t]) = 0, GoesOn(t, Idle),
         UNCHANGED <<count, faults, cause, waiting>>
  PROVE  BookedInv'
<1>1. Idle \in Shapes(t) /\ Flight(Idle) = 0 /\ ~Follows(Idle)
  BY DEF Shapes, SignalShapes, MonitorShapes, Flight, Follows, Idle
<1>2. phase = "busy"
  BY BusyWhenRunning DEF BookedInv
<1> QED
  BY <1>1, <1>2, Books, GoesOnStep

LEMMA EntryEndsBooked ==
  ASSUME BookedInv, EntryIsRejected \/ EntryFails
  PROVE  BookedInv'
<1>1. GoesOn("signal", Idle) /\ "signal" \in Tasks /\ UNCHANGED <<count, faults, cause, waiting>>
  BY DEF EntryIsRejected, EntryFails, GoesOn, limits, Tasks
<1>2. task["signal"].pc # "done" /\ Flight(task["signal"]) = 0
  BY DEF EntryIsRejected, EntryFails, Signal, Flight
<1> QED
  BY <1>1, <1>2, EndsBooked

LEMMA EntryOrdersBooked ==
  ASSUME BookedInv, EntryOrders
  PROVE  BookedInv'
<1> DEFINE v == NewOrder("entry", Signal.side, Qty, NoPos)
<1>1. GoesOn("signal", v) /\ "signal" \in Tasks /\ UNCHANGED <<count, faults, cause, waiting>> /\ Signal.pc = "entry"
  BY DEF EntryOrders, Order, GoesOn, NewOrder, limits, Tasks
<1>2. Signal.side \in Sides /\ Qty \in Nat \ {0} /\ NoPos \in Records
  BY <1>1, Books, ShapeOf, PositionsAssumption DEF Signal, EntriesBegun, Records
<1>3. v \in Shapes("signal") /\ Flight(v) = 0
  BY <1>1, <1>2, NewOrderShape
<1>4. ~Follows(v)
  BY DEF NewOrder, Follows, Sent
<1>5. Flight(task["signal"]) = 0
  BY <1>1 DEF Flight, Signal
<1>6. phase = "busy"
  BY <1>1, BusyWhenRunning DEF BookedInv, Signal
<1> HIDE DEF v
<1> QED
  BY <1>1, <1>3, <1>4, <1>5, <1>6, Books, GoesOnStep

LEMMA ExitQueriesBooked ==
  ASSUME BookedInv, NEW t \in Tasks, ExitQueries(t)
  PROVE  BookedInv'
<1> DEFINE p == task[t].snap
<1>1. task[t] \in Queries /\ p \in OpenRecords /\ p.id <= nextId
  BY Books, ShapeOf DEF ExitQueries, Queries, Follows, Sent
<1>2. p \in Records /\ IsOpen(p) /\ p.side \in Sides /\ p.amount \in Nat \ {0}
  BY <1>1 DEF Records, OpenRecords, IsOpen, NoPos
<1>3. PICK q \in Answers(t) \cup {p.amount} : GoesOn(t, NewOrder("exit", p.side, q, p))
  BY DEF ExitQueries, Order, GoesOn, NewOrder, limits
<1>4. q \in Nat \ {0}
  BY <1>2, <1>3, Books, SMTT(30) DEF Answers
<1> DEFINE v == NewOrder("exit", p.side, q, p)
<1>5. v \in Shapes(t) /\ Flight(v) = 0 /\ v.snap = p
  BY <1>2, <1>4, NewOrderShape
<1>6. Flight(task[t]) = 0 /\ UNCHANGED <<count, faults, cause, waiting>>
  BY DEF Flight, ExitQueries, limits
<1>7. phase = "busy"
  BY BusyWhenRunning DEF BookedInv, ExitQueries
<1> HIDE DEF v, p
<1> QED
  BY <1>1, <1>3, <1>5, <1>6, <1>7, Books, GoesOnStep DEF v

LEMMA ExitRetriesBooked ==
  ASSUME BookedInv, NEW t \in Tasks, ExitRetries(t)
  PROVE  BookedInv'
<1> DEFINE o == task[t]
           again == [o EXCEPT !.pc = "order", !.tries = @ + 1, !.sends = 0]
<1>1. /\ o.pc \in {"ok", "raised"} /\ o.kind = "exit" /\ (o.pc = "ok" => o.filled = 0)
      /\ UNCHANGED <<count, faults, cause, waiting>>
      /\ UNCHANGED <<phase, pos, file, queue, recent, account, nextId, signals>>
  BY DEF ExitRetries, limits
<1>0. task' = [task EXCEPT ![t] = IF o.tries < 2 THEN again ELSE Idle]
  BY DEF ExitRetries
<1>2. o \in Orders /\ OrderOK(o) /\ Follows(o) /\ o.snap.id <= nextId
  BY <1>1, Books, ShapeOf DEF Sent, Follows
<1>3. Flight(o) = 0 /\ phase = "busy"
  BY <1>1, BusyWhenRunning DEF Flight, BookedInv
<1>4. CASE o.tries < 2
  <2>0. GoesOn(t, again)
    BY <1>0, <1>1, <1>4 DEF GoesOn
  <2>1. /\ again \in Orders /\ again.kind = "exit" /\ again.pc = "order" /\ again.filled = o.filled
        /\ again.amount = o.amount /\ again.side = o.side /\ again.snap = o.snap
    <3>1. o.tries + 1 \in 0..2 /\ "order" \in Sent
      BY <1>2, <1>4 DEF Orders, Sent
    <3> HIDE DEF o
    <3>2. again \in Orders
      BY <1>2, <3>1 DEF Orders
    <3> QED
      BY <1>1, <1>2, <3>2 DEF Orders
  <2>3. OrderOK(again)
    BY <1>1, <1>2, <2>1 DEF OrderOK
  <2>2. again \in Shapes(t) /\ Flight(again) = 0 /\ again.snap = o.snap
    BY <2>1, <2>3 DEF Shapes, SignalShapes, MonitorShapes, Flight
  <2> HIDE DEF again
  <2> QED
    BY <1>1, <1>2, <1>3, <2>0, <2>2, Books, GoesOnStep
<1>5. CASE ~(o.tries < 2)
  <2>1. GoesOn(t, Idle)
    BY <1>0, <1>1, <1>5 DEF GoesOn
  <2> QED
    BY <1>1, <1>3, <2>1, EndsBooked
<1> QED
  BY <1>4, <1>5

(* An order keeps its shape while its pc, its fill and its tries change. *)
LEMMA OrderMoves ==
  ASSUME NEW t \in Tasks, NEW o \in Shapes(t), o.pc \in Sent, NEW v \in Orders,
         v.kind = o.kind, v.side = o.side, v.snap = o.snap, v.amount = o.amount,
         v.filled <= v.amount, v.pc = "tier" => o.kind \notin {"entry", "partial"}
  PROVE  v \in Shapes(t)
<1>1. OrderOK(o) /\ o.kind \in IF t = "signal" THEN {"entry", "flip", "exit"} ELSE {"exit", "partial"}
  BY ShapeOf
<1>2. OrderOK(v)
  BY <1>1 DEF OrderOK
<1> QED
  BY <1>1, <1>2 DEF Shapes, SignalShapes, MonitorShapes

LEMMA GoMoves ==
  ASSUME BookedInv, NEW t \in Tasks, task[t].pc \in Sent, NEW l \in Sent, Go(t, l),
         l = "tier" => task[t].kind \notin {"entry", "partial"}
  PROVE  \E v \in Orders :
           /\ task' = [task EXCEPT ![t] = v] /\ v \in Shapes(t) /\ v.pc = l
           /\ v.snap = task[t].snap /\ v.kind = task[t].kind /\ v.filled = task[t].filled
           /\ v.amount = task[t].amount /\ v.side = task[t].side
<1> DEFINE v == [task[t] EXCEPT !.pc = l]
<1>1. task[t] \in Orders /\ OrderOK(task[t]) /\ task[t] \in Shapes(t)
  BY Books, ShapeOf
<1>2. /\ v \in Orders /\ v.pc = l /\ v.snap = task[t].snap /\ v.kind = task[t].kind
      /\ v.filled = task[t].filled /\ v.amount = task[t].amount /\ v.side = task[t].side
  BY <1>1 DEF Orders
<1>3. v \in Shapes(t)
  BY <1>1, <1>2, OrderMoves DEF OrderOK
<1>4. task' = [task EXCEPT ![t] = v]
  BY DEF Go
<1> QED
  BY <1>2, <1>3, <1>4

LEMMA FlipClosedBooked ==
  ASSUME BookedInv, FlipClosed
  PROVE  BookedInv'
<1> DEFINE t == "signal"
<1>1. t \in Tasks /\ task[t].pc = "ok" /\ task[t].kind = "flip" /\ Go(t, "tier")
  BY DEF FlipClosed, Signal, Tasks
<1>2. PICK v \in Orders : /\ task' = [task EXCEPT ![t] = v] /\ v \in Shapes(t) /\ v.pc = "tier"
                          /\ v.snap = task[t].snap /\ v.kind = task[t].kind
  BY <1>1, GoMoves DEF Sent
<1>3. Flight(v) = 0 /\ Flight(task[t]) = task[t].filled
  BY <1>1, <1>2 DEF Flight
<1>4. /\ UNCHANGED <<phase, pos, file, queue, recent, waiting, count, held, cause, nextId, signals, faults>>
      /\ unbooked' = unbooked - Flight(task[t])
  BY <1>3 DEF FlipClosed, limits, Signal
<1>5. Follows(v) => v.snap.id <= nextId
  BY <1>1, <1>2, Books DEF Follows, Sent
<1>6. unbooked' = Sum(held') + Flight(v) + Flight(task[Beside(t)])
  BY <1>3, <1>4, Books, SMTT(30) DEF Sum, Beside, Signal, Monitor
<1>7. phase = "busy"
  BY <1>1, BusyWhenRunning DEF BookedInv
<1>8. /\ pos' \in Records /\ file' \in Records /\ pos'.id <= nextId' /\ file'.id <= nextId'
      /\ held' \in [Sides -> Nat] /\ nextId' \in Nat /\ nextId <= nextId' /\ faults' \in Nat
      /\ count' \in 0..DailyMax /\ cause' \in Causes /\ waiting' \in Seq(Actions)
  BY <1>4, Books
<1> QED
  BY <1>1, <1>2, <1>4, <1>5, <1>6, <1>7, <1>8, TaskStep

LEMMA ExitIsBookedBooked ==
  ASSUME BookedInv, NEW t \in Tasks, ExitIsBooked(t)
  PROVE  BookedInv'
<1>1. task[t].pc = "ok" /\ task[t].kind = "exit" /\ Go(t, "tier")
  BY DEF ExitIsBooked
<1>2. PICK v \in Orders : /\ task' = [task EXCEPT ![t] = v] /\ v \in Shapes(t) /\ v.pc = "tier"
                          /\ v.snap = task[t].snap /\ v.kind = task[t].kind
  BY <1>1, GoMoves DEF Sent
<1>3. Flight(v) = 0 /\ Flight(task[t]) = task[t].filled
  BY <1>1, <1>2 DEF Flight
<1>4. /\ UNCHANGED <<phase, pos, file, queue, recent, waiting, count, held, cause, nextId, signals, faults>>
      /\ unbooked' = unbooked - Flight(task[t])
  BY <1>3 DEF ExitIsBooked, limits
<1>5. Follows(v) => v.snap.id <= nextId
  BY <1>1, <1>2, Books DEF Follows, Sent
<1>6. unbooked' = Sum(held') + Flight(v) + Flight(task[Beside(t)])
  BY <1>3, <1>4, Books DEF Sum, Beside, Signal, Monitor, Tasks
<1>7. phase = "busy"
  BY <1>1, BusyWhenRunning DEF BookedInv
<1>8. /\ pos' \in Records /\ file' \in Records /\ pos'.id <= nextId' /\ file'.id <= nextId'
      /\ held' \in [Sides -> Nat] /\ nextId' \in Nat /\ nextId <= nextId' /\ faults' \in Nat
      /\ count' \in 0..DailyMax /\ cause' \in Causes /\ waiting' \in Seq(Actions)
  BY <1>4, Books
<1> QED
  BY <1>2, <1>4, <1>5, <1>6, <1>7, <1>8, TaskStep

(* Records that are dropped or put back, and the cause of it. *)
LEMMA CauseIs ==
  ASSUME cause \in Causes, NEW c \in Causes, Because(c)
  PROVE  cause' \in Causes /\ (cause' = "none" => cause = "none" /\ c = "none")
  BY DEF Because, Causes

LEMMA Dropped ==
  ASSUME BookedInv, NEW p, DropRecord(p)
  PROVE  /\ pos' = NoPos /\ pos' \in Records /\ pos'.id = 0 /\ cause' \in Causes
         /\ cause' = "none" => cause = "none" /\ (~IsOpen(pos) \/ pos.id = p.id)
<1> DEFINE c == IF IsOpen(pos) /\ pos.id # p.id THEN "deleted" ELSE "none"
<1>1. c \in Causes /\ Because(c) /\ pos' = NoPos
  BY DEF DropRecord, Causes
<1>2. cause' \in Causes /\ (cause' = "none" => cause = "none" /\ c = "none")
  BY <1>1, CauseIs, Books
<1> QED
  BY <1>1, <1>2 DEF NoPos, Records

LEMMA WrittenBack ==
  ASSUME BookedInv, NEW p \in Records, NEW snap, PutBack(p, snap)
  PROVE  /\ pos' = p /\ cause' \in Causes
         /\ cause' = "none" => cause = "none" /\ pos = snap
<1> DEFINE c == IF pos # snap THEN "stale" ELSE "none"
<1>1. c \in Causes /\ Because(c) /\ pos' = p
  BY DEF PutBack, Causes
<1>2. cause' \in Causes /\ (cause' = "none" => cause = "none" /\ c = "none")
  BY <1>1, CauseIs, Books
<1> QED
  BY <1>1, <1>2

LEMMA FlipRemovesBooked ==
  ASSUME BookedInv, FlipRemoves
  PROVE  BookedInv'
<1> DEFINE v == [pc |-> "entry", side |-> Other(Signal.snap.side)]
<1>1. /\ task' = [task EXCEPT !["signal"] = v] /\ "signal" \in Tasks
      /\ Signal.pc = "tier" /\ Signal.kind = "flip" /\ DropRecord(Signal.snap)
      /\ UNCHANGED <<phase, file, queue, recent, waiting, count, held, unbooked, nextId, signals, faults>>
  BY DEF FlipRemoves, EntersNext, limits, account, Tasks
<1>2. Signal.snap.side \in Sides
  BY <1>1, Books, SnapOf DEF Signal, Follows
<1>3. v \in Shapes("signal") /\ Flight(v) = 0 /\ ~Follows(v) /\ Flight(task["signal"]) = 0
  BY <1>1, <1>2, TwoSides DEF Shapes, SignalShapes, EntriesBegun, Flight, Follows, Signal
<1>4. phase = "busy"
  BY <1>1, BusyWhenRunning DEF BookedInv, Signal
<1>5. pos' \in Records /\ pos'.id = 0 /\ cause' \in Causes
  BY <1>1, Dropped
<1>6. unbooked' = Sum(held') + Flight(v) + Flight(task[Beside("signal")])
  BY <1>1, <1>3, Books DEF Sum, Beside, Signal, Monitor
<1>8. /\ pos' \in Records /\ file' \in Records /\ pos'.id <= nextId' /\ file'.id <= nextId'
      /\ held' \in [Sides -> Nat] /\ nextId' \in Nat /\ nextId <= nextId' /\ faults' \in Nat
      /\ count' \in 0..DailyMax /\ cause' \in Causes /\ waiting' \in Seq(Actions)
  BY <1>1, <1>5, Books
<1> HIDE DEF v
<1> QED
  BY <1>1, <1>3, <1>4, <1>6, <1>8, TaskStep

LEMMA ExitRemovesBooked ==
  ASSUME BookedInv, NEW t \in Tasks, ExitRemoves(t)
  PROVE  BookedInv'
<1>1. /\ task[t].pc = "tier" /\ DropRecord(task[t].snap) /\ task' = [task EXCEPT ![t] = Idle]
      /\ file' = IF IsOpen(pos) THEN NoPos ELSE file
      /\ UNCHANGED <<phase, queue, recent, waiting, count, held, unbooked, nextId, signals, faults>>
  BY DEF ExitRemoves, Save, limits, account
<1>2. Idle \in Shapes(t) /\ Flight(Idle) = 0 /\ ~Follows(Idle) /\ Flight(task[t]) = 0
  BY <1>1 DEF Shapes, SignalShapes, MonitorShapes, Flight, Follows, Idle
<1>3. phase = "busy"
  BY <1>1, BusyWhenRunning DEF BookedInv
<1>4. pos' \in Records /\ pos'.id = 0 /\ cause' \in Causes
  BY <1>1, Dropped
<1>5. file' \in Records /\ file'.id <= nextId
  BY <1>1, Books DEF NoPos, Records
<1>6. unbooked' = Sum(held') + Flight(Idle) + Flight(task[Beside(t)])
  BY <1>1, <1>2, Books DEF Sum, Beside, Signal, Monitor, Tasks
<1>8. /\ pos' \in Records /\ file' \in Records /\ pos'.id <= nextId' /\ file'.id <= nextId'
      /\ held' \in [Sides -> Nat] /\ nextId' \in Nat /\ nextId <= nextId' /\ faults' \in Nat
      /\ count' \in 0..DailyMax /\ cause' \in Causes /\ waiting' \in Seq(Actions)
  BY <1>1, <1>4, <1>5, Books
<1> QED
  BY <1>1, <1>2, <1>3, <1>6, <1>8, TaskStep

(* A step within an order: what it does to the account is booked, or in    *)
(* flight.                                                                 *)
LEMMA OrderStep ==
  ASSUME BookedInv, NEW t \in Tasks, task[t].pc \in Sent, NEW v \in Orders, v \in Shapes(t),
         task' = [task EXCEPT ![t] = v], v.snap = task[t].snap, v.kind = task[t].kind,
         UNCHANGED <<phase, pos, file, queue, recent, waiting, nextId, signals>>,
         held' \in [Sides -> Nat], faults' \in Nat, count' \in 0..DailyMax, cause' \in Causes,
         unbooked' = unbooked + Sum(held') + Flight(v) - Sum(held) - Flight(task[t])
  PROVE  BookedInv'
<1>1. phase = "busy"
  BY BusyWhenRunning DEF BookedInv, Sent
<1>2. v.pc \in Sent /\ (Follows(v) <=> Follows(task[t])) /\ (Follows(v) => v.snap.id <= nextId)
  BY Books DEF Orders, Follows, Sent
<1>3. Flight(v) \in Nat /\ Flight(task[t]) \in Nat /\ Flight(task[Beside(t)]) \in Nat
  BY FlightIsNat, Books DEF Beside, Tasks
<1>4. unbooked = Sum(held) + Flight(task[t]) + Flight(task[Beside(t)])
  BY Books, SMTT(30) DEF Beside, Tasks, Signal, Monitor
<1>5. Sum(held') \in Nat /\ Sum(held) \in Nat
  <2>1. Sum(held') \in Nat
    BY DEF Sum, Sides
  <2> QED
    BY <2>1, Books
<1>6. unbooked' = Sum(held') + Flight(v) + Flight(task[Beside(t)])
  BY <1>3, <1>4, <1>5
<1>7. /\ pos' \in Records /\ file' \in Records /\ pos'.id <= nextId' /\ file'.id <= nextId'
      /\ nextId' \in Nat /\ nextId <= nextId' /\ waiting' \in Seq(Actions)
  BY Books
<1> QED
  BY <1>1, <1>2, <1>6, <1>7, TaskStep

(* what an execution leaves the task and the account with *)
LEMMA Executed ==
  ASSUME BookedInv, NEW t \in Tasks, task[t].pc = "order", NEW q \in 1..Fillable(t), Executes(t, q)
  PROVE  \E v \in Orders :
           /\ task' = [task EXCEPT ![t] = v] /\ v \in Shapes(t) /\ v.pc = "reply" /\ v.filled = q
           /\ v.snap = task[t].snap /\ v.kind = task[t].kind /\ v.amount = task[t].amount
           /\ v.side = task[t].side /\ v.side \in Sides /\ held' \in [Sides -> Nat]
           /\ q \in Nat \ {0}
           /\ v.kind = "entry" => /\ Sum(held') = Sum(held) + q /\ unbooked' = unbooked + q
                                  /\ held'[v.side] = held[v.side] + q
           /\ v.kind # "entry" => /\ Sum(held') = Sum(held) - q /\ unbooked' = unbooked
                                  /\ held'[v.side] = held[v.side] - q /\ q <= held[v.side]
           /\ held'[Other(v.side)] = held[Other(v.side)]
           /\ Flight(task[t]) = 0 /\ Flight(v) = IF v.kind = "entry" THEN 0 ELSE q
<1> DEFINE o == task[t]
           v == [o EXCEPT !.pc = "reply", !.filled = q]
<1>1. o \in Shapes(t) /\ o \in Orders /\ OrderOK(o)
  BY Books, ShapeOf DEF Sent
<1>2. o.side \in Sides /\ o.amount \in Nat \ {0} /\ held \in [Sides -> Nat] /\ held[o.side] \in Nat
  BY <1>1, Books DEF Orders
<1>3. q \in Nat \ {0} /\ q <= o.amount /\ (o.kind # "entry" => q <= held[o.side])
  BY <1>2 DEF Fillable, Least
<1>4. task' = [task EXCEPT ![t] = v]
  BY DEF Executes
<1>5. v \in Orders /\ v.pc = "reply" /\ v.filled = q
  BY <1>1, <1>3 DEF Orders, Sent
<1>6. v.snap = o.snap /\ v.kind = o.kind /\ v.amount = o.amount /\ v.side = o.side
  BY <1>1 DEF Orders
<1>7. Flight(o) = 0 /\ Flight(v) = IF v.kind = "entry" THEN 0 ELSE q
  BY <1>5 DEF Flight
<1> HIDE DEF v
<1>8. v \in Shapes(t)
  BY <1>1, <1>3, <1>5, <1>6, OrderMoves DEF Sent
<1>9. v.kind = "entry" => held' = [held EXCEPT ![o.side] = @ + q] /\ unbooked' = unbooked + q
  BY <1>6 DEF Executes
<1>10. v.kind # "entry" => held' = [held EXCEPT ![o.side] = @ - q] /\ unbooked' = unbooked
  BY <1>6 DEF Executes
<1>11. Other(o.side) \in Sides /\ Other(o.side) # o.side
  BY <1>2, TwoSides
<1>12. /\ held' \in [Sides -> Nat] /\ held'[Other(o.side)] = held[Other(o.side)]
       /\ v.kind = "entry" => held'[o.side] = held[o.side] + q /\ Sum(held') = Sum(held) + q
       /\ v.kind # "entry" => held'[o.side] = held[o.side] - q /\ Sum(held') = Sum(held) - q
  BY <1>2, <1>3, <1>6, <1>9, <1>10, <1>11 DEF Sum, Sides
<1> QED
  BY <1>2, <1>3, <1>4, <1>5, <1>6, <1>7, <1>8, <1>9, <1>10, <1>12

LEMMA FaultIsNat ==
  ASSUME BookedInv, Fault
  PROVE  faults' \in Nat /\ faults < MaxFaults
  BY Books DEF Fault

LEMMA SendOrderBooked ==
  ASSUME BookedInv, NEW t \in Tasks, SendOrder(t)
  PROVE  BookedInv'
<1>1. /\ task[t].pc = "order"
      /\ UNCHANGED <<phase, pos, file, queue, recent, waiting, count, nextId, signals>>
  BY DEF SendOrder
<1>2. CASE \E q \in 1..Fillable(t) :
             /\ Executes(t, q) /\ Because(SendCause(t, q < Fillable(t)))
             /\ IF q < Fillable(t) THEN Fault ELSE UNCHANGED faults
  <2>1. PICK q \in 1..Fillable(t) :
             /\ Executes(t, q) /\ Because(SendCause(t, q < Fillable(t)))
             /\ IF q < Fillable(t) THEN Fault ELSE UNCHANGED faults
    BY <1>2
  <2>2. PICK v \in Orders :
           /\ task' = [task EXCEPT ![t] = v] /\ v \in Shapes(t)
           /\ v.snap = task[t].snap /\ v.kind = task[t].kind /\ held' \in [Sides -> Nat]
           /\ q \in Nat \ {0}
           /\ v.kind = "entry" => Sum(held') = Sum(held) + q /\ unbooked' = unbooked + q
           /\ v.kind # "entry" => Sum(held') = Sum(held) - q /\ unbooked' = unbooked
           /\ Flight(task[t]) = 0 /\ Flight(v) = IF v.kind = "entry" THEN 0 ELSE q
    BY <1>1, <2>1, Executed
  <2>3. unbooked \in Nat /\ Sum(held) \in Nat /\ faults' \in Nat /\ count' \in 0..DailyMax
    BY <1>1, <2>1, Books, FaultIsNat
  <2>4. SendCause(t, q < Fillable(t)) \in Causes
    BY DEF SendCause, Causes
  <2>5. cause' \in Causes
    BY <2>1, <2>4, CauseIs, Books
  <2>6. unbooked' = unbooked + Sum(held') + Flight(v) - Sum(held) - Flight(task[t])
    BY <2>2, <2>3
  <2> QED
    BY <1>1, <2>2, <2>3, <2>5, <2>6, OrderStep DEF Sent
<1>3. CASE /\ Go(t, "raised") /\ UNCHANGED <<account, cause>> /\ faults' \in Nat
  <2>1. PICK v \in Orders : /\ task' = [task EXCEPT ![t] = v] /\ v \in Shapes(t) /\ v.pc = "raised"
                            /\ v.snap = task[t].snap /\ v.kind = task[t].kind
    BY <1>1, <1>3, GoMoves DEF Sent
  <2>2. GoesOn(t, v) /\ Flight(v) = Flight(task[t]) /\ phase = "busy" /\ (Follows(v) => v.snap.id <= nextId)
    BY <1>1, <1>3, <2>1, Books, BusyWhenRunning DEF GoesOn, Flight, Follows, Sent, BookedInv
  <2>3. count' \in 0..DailyMax /\ cause' \in Causes /\ waiting' \in Seq(Actions)
    BY <1>1, <1>3, Books
  <2> QED
    BY <1>3, <2>1, <2>2, <2>3, GoesOnStep
<1> QED
  BY <1>2, <1>3, FaultIsNat, Books DEF SendOrder, account

(* what the four answers of Reply leave the task with *)
LEMMA Replied ==
  ASSUME BookedInv, NEW t \in Tasks, Reply(t)
  PROVE  \E v \in Orders :
           /\ task' = [task EXCEPT ![t] = v] /\ v \in Shapes(t)
           /\ v.snap = task[t].snap /\ v.kind = task[t].kind /\ v.amount = task[t].amount
           /\ v.side = task[t].side
           /\ \/ /\ v.pc = "ok" /\ v.filled = task[t].filled /\ UNCHANGED <<unbooked, faults, cause>>
              \/ Untold(t) /\ (v.pc \in {"order", "raised"} \/ (v.pc = "ok" /\ v.filled = 0))
<1> DEFINE o == task[t]
           again == [o EXCEPT !.pc = IF o.sends < 2 THEN "order" ELSE "raised", !.sends = @ + 1]
           none == [o EXCEPT !.pc = "ok", !.filled = 0]
<1>1. o \in Orders /\ OrderOK(o) /\ o.pc = "reply" /\ o \in Shapes(t)
  BY Books, ShapeOf DEF Sent, Reply
<1>2. CASE Go(t, "ok") /\ UNCHANGED <<unbooked, faults, cause>>
  BY <1>1, <1>2, GoMoves DEF Sent
<1>3. CASE Untold(t) /\ Go(t, "raised")
  <2>1. \E v \in Orders :
           /\ task' = [task EXCEPT ![t] = v] /\ v \in Shapes(t) /\ v.pc = "raised"
           /\ v.snap = task[t].snap /\ v.kind = task[t].kind /\ v.filled = task[t].filled
           /\ v.amount = task[t].amount /\ v.side = task[t].side
    BY <1>1, <1>3, GoMoves DEF Sent
  <2> QED
    BY <1>3, <2>1
<1>4. CASE Untold(t) /\ task' = [task EXCEPT ![t] = none]
  <2>1. none \in Orders /\ none.pc = "ok" /\ none.filled = 0
    BY <1>1 DEF Orders, Sent
  <2>2. none.snap = o.snap /\ none.kind = o.kind /\ none.amount = o.amount /\ none.side = o.side /\ none.amount >= 0
    BY <1>1 DEF Orders
  <2> HIDE DEF none
  <2>3. none \in Shapes(t)
    BY <1>1, <2>1, <2>2, OrderMoves DEF Sent
  <2> QED
    BY <1>4, <2>1, <2>2, <2>3
<1>5. CASE Untold(t) /\ task' = [task EXCEPT ![t] = again]
  <2>1. o.sends + 1 \in Nat
    BY <1>1 DEF Orders
  <2>2. again \in Orders /\ again.pc \in {"order", "raised"}
    BY <1>1, <2>1 DEF Orders, Sent
  <2>3. again.snap = o.snap /\ again.kind = o.kind /\ again.amount = o.amount /\ again.side = o.side
        /\ again.filled = o.filled
    BY <1>1 DEF Orders
  <2> HIDE DEF again
  <2>4. again \in Shapes(t)
    BY <1>1, <2>2, <2>3, OrderMoves DEF Sent, OrderOK
  <2> QED
    BY <1>5, <2>2, <2>3, <2>4
<1> QED
  BY <1>2, <1>3, <1>4, <1>5 DEF Reply

LEMMA ReplyBooked ==
  ASSUME BookedInv, NEW t \in Tasks, Reply(t)
  PROVE  BookedInv'
<1> DEFINE o == task[t]
<1>1. /\ o.pc = "reply" /\ o \in Orders
      /\ UNCHANGED <<phase, pos, file, queue, recent, waiting, held, nextId, signals>>
  BY Books, ShapeOf DEF Sent, Reply
<1>2. PICK v \in Orders :
           /\ task' = [task EXCEPT ![t] = v] /\ v \in Shapes(t)
           /\ v.snap = o.snap /\ v.kind = o.kind
           /\ \/ /\ v.pc = "ok" /\ v.filled = o.filled /\ UNCHANGED <<unbooked, faults, cause>>
              \/ Untold(t) /\ (v.pc \in {"order", "raised"} \/ (v.pc = "ok" /\ v.filled = 0))
  BY Replied
<1>3. count' \in 0..DailyMax
  <2>1. count' \in {count, Least(count + 1, DailyMax)}
    BY DEF Reply, Counted
  <2> QED
    BY <2>1, Books, PositionsAssumption DEF Least
<1>4. faults' \in Nat /\ cause' \in Causes
  <2>1. CASE UNCHANGED <<unbooked, faults, cause>>
    BY <2>1, Books
  <2>2. CASE Untold(t)
    <3>1. "lost" \in Causes /\ Because("lost") /\ Fault
      BY <2>2 DEF Untold, Causes
    <3> QED
      BY <3>1, CauseIs, Books, FaultIsNat
  <2> QED
    BY <1>2, <2>1, <2>2
<1>5. unbooked' = unbooked + Flight(v) - Flight(o)
  <2>1. unbooked \in Nat /\ o.filled \in Nat /\ v.filled \in Nat
    BY <1>1, Books DEF Orders
  <2>2. CASE UNCHANGED <<unbooked, faults, cause>> /\ v.pc = "ok" /\ v.filled = o.filled
    BY <1>1, <1>2, <2>1, <2>2 DEF Flight
  <2>3. CASE Untold(t) /\ (v.pc \in {"order", "raised"} \/ (v.pc = "ok" /\ v.filled = 0))
    <3>1. Flight(v) = 0
      BY <2>3 DEF Flight
    <3>2. unbooked' = unbooked - Flight(o) /\ Flight(o) \in Nat
      BY <1>1, <2>1, <2>3 DEF Untold, Flight
    <3> QED
      BY <2>1, <3>1, <3>2
  <2> QED
    BY <1>2, <2>2, <2>3
<1>6. unbooked' = unbooked + Sum(held') + Flight(v) - Sum(held) - Flight(o)
  <2>1. unbooked \in Nat /\ Flight(v) \in Nat /\ Flight(o) \in Nat /\ Sum(held) \in Nat /\ held' = held
    BY <1>1, <1>2, Books, FlightIsNat
  <2> QED
    BY <1>5, <2>1
<1>7. o.pc \in Sent /\ held' \in [Sides -> Nat]
  BY <1>1, Books DEF Sent
<1> QED
  BY <1>1, <1>2, <1>3, <1>4, <1>6, <1>7, OrderStep

LEMMA EnteredBooked ==
  ASSUME BookedInv, Entered
  PROVE  BookedInv'
<1> DEFINE p == NewPos(nextId + 1, Signal.side, Signal.filled)
<1>1. /\ "signal" \in Tasks /\ task' = [task EXCEPT !["signal"] = Idle]
      /\ Signal.pc = "ok" /\ Signal.kind = "entry" /\ Signal.filled > 0
      /\ pos' = p /\ nextId' = nextId + 1
      /\ UNCHANGED <<phase, file, queue, recent, waiting, count, held, unbooked, cause, signals, faults>>
  BY DEF Entered, account, Tasks
<1>2. Signal \in Orders
  BY <1>1, Books, ShapeOf DEF Signal, Sent
<1>3. /\ pos' \in Records /\ file' \in Records /\ pos'.id <= nextId' /\ file'.id <= nextId'
      /\ nextId' \in Nat /\ nextId <= nextId'
  <2>1. nextId \in Nat /\ file \in Records /\ file.id <= nextId
    BY Books
  <2>2. p \in Records /\ p.id = nextId + 1
    BY <1>1, <1>2, <2>1 DEF NewPos, Records, Orders
  <2>3. file.id \in Nat
    BY <2>1, OpenIsRecord
  <2> HIDE DEF p
  <2> QED
    BY <1>1, <2>1, <2>2, <2>3
<1>4. Idle \in Shapes("signal") /\ Flight(Idle) = 0 /\ ~Follows(Idle) /\ Flight(task["signal"]) = 0
  BY <1>1 DEF Shapes, SignalShapes, Flight, Follows, Idle, Signal
<1>5. phase = "busy"
  BY <1>1, BusyWhenRunning DEF BookedInv, Signal
<1>6. unbooked' = Sum(held') + Flight(Idle) + Flight(task[Beside("signal")])
  BY <1>1, <1>4, Books DEF Sum, Beside, Signal, Monitor
<1>7. /\ held' \in [Sides -> Nat] /\ faults' \in Nat
      /\ count' \in 0..DailyMax /\ cause' \in Causes /\ waiting' \in Seq(Actions)
  BY <1>1, Books
<1> HIDE DEF p
<1> QED
  BY <1>1, <1>3, <1>4, <1>5, <1>6, <1>7, TaskStep

LEMMA MonitorEndsBooked ==
  ASSUME BookedInv, MonitorSkips \/ PartialStops \/ PartialFails
  PROVE  BookedInv'
<1>1. GoesOn("monitor", Idle) /\ "monitor" \in Tasks /\ UNCHANGED <<count, faults, cause, waiting>>
  BY DEF MonitorSkips, PartialStops, PartialFails, GoesOn, limits, Tasks
<1>2. task["monitor"].pc # "done" /\ Flight(task["monitor"]) = 0
  BY DEF MonitorSkips, PartialStops, PartialFails, Monitor, Flight
<1> QED
  BY <1>1, <1>2, EndsBooked

LEMMA PartialOrdersBooked ==
  ASSUME BookedInv, PartialOrders
  PROVE  BookedInv'
<1> DEFINE p == Monitor.snap
           v == [pc |-> "order", kind |-> "partial", side |-> p.side, snap |-> p,
                 amount |-> 1, filled |-> 0, tries |-> 0, sends |-> 0, tp1a |-> Monitor.tp1a]
<1>1. /\ GoesOn("monitor", v) /\ "monitor" \in Tasks /\ Monitor.pc = "price"
      /\ UNCHANGED <<count, faults, cause, waiting>>
  BY DEF PartialOrders, GoesOn, limits, Tasks
<1>2. /\ Monitor \in PartsBegun /\ p.amount > 1 /\ p \in OpenRecords /\ p.id <= nextId
      /\ Monitor.tp1a \in BOOLEAN
  BY <1>1, Books, ShapeOf, "monitor" # "signal" DEF Monitor, PartsBegun, Follows, Sent
<1>3. p \in Records /\ IsOpen(p) /\ p.side \in Sides
  BY <1>2 DEF Records, OpenRecords, IsOpen, NoPos
<1>4. v \in Orders /\ v.snap = p /\ v.kind = "partial"
  BY <1>2, <1>3 DEF Orders, Sent, Kinds
<1>5. OrderOK(v)
  BY <1>2, <1>3 DEF OrderOK
<1>6. Flight(v) = 0 /\ Flight(task["monitor"]) = 0
  BY <1>1 DEF Flight, Monitor
<1>7. phase = "busy"
  BY <1>1, BusyWhenRunning DEF BookedInv, Monitor
<1> HIDE DEF v, p
<1>8. v \in Shapes("monitor")
  BY <1>4, <1>5 DEF Shapes, MonitorShapes
<1> QED
  BY <1>1, <1>2, <1>4, <1>6, <1>7, <1>8, Books, GoesOnStep

(* A step of the monitor that writes to the record, and to the file. *)
LEMMA MonitorWrites ==
  ASSUME BookedInv, phase = "busy", NEW v \in Shapes("monitor"), task' = [task EXCEPT !["monitor"] = v],
         UNCHANGED <<phase, queue, recent, waiting, count, held, limits>>,
         NEW p \in Records, p.id <= nextId, NEW snap, PutBack(p, snap),
         file' \in {p, file}, Follows(v) => v.snap.id <= nextId,
         Flight(v) = 0, unbooked' = unbooked - Flight(Monitor)
  PROVE  BookedInv'
<1>1. pos' = p /\ cause' \in Causes
  BY WrittenBack
<1>2. unbooked' = Sum(held') + Flight(v) + Flight(task[Beside("monitor")])
  BY Books DEF Sum, Beside, Signal, Monitor
<1>3. /\ pos' \in Records /\ file' \in Records /\ pos'.id <= nextId' /\ file'.id <= nextId'
      /\ nextId' \in Nat /\ nextId <= nextId' /\ held' \in [Sides -> Nat] /\ faults' \in Nat
      /\ count' \in 0..DailyMax /\ waiting' \in Seq(Actions) /\ UNCHANGED signals
  BY <1>1, Books, SMTT(30) DEF limits
<1>4. "monitor" \in Tasks
  BY DEF Tasks
<1> QED
  BY <1>1, <1>2, <1>3, <1>4, TaskStep

LEMMA MonitorDecidesBooked ==
  ASSUME BookedInv, MonitorDecides
  PROVE  BookedInv'
<1> DEFINE p == Monitor.snap
<1>1. /\ Monitor.pc = "fetch" /\ PutBack(p, p)
      /\ UNCHANGED <<phase, file, queue, recent, waiting, count, account, limits>>
  BY DEF MonitorDecides
<1>2. p \in OpenRecords /\ p.id <= nextId /\ phase = "busy"
  BY <1>1, Books, ShapeOf, BusyWhenRunning DEF Monitor, Fetches, Follows, Sent, BookedInv, Tasks
<1>3. PICK v \in Shapes("monitor") :
         /\ task' = [task EXCEPT !["monitor"] = v] /\ v.pc \in {"done", "query", "price"}
         /\ v.pc # "done" => v.snap = p
  <2>1. CASE task' = [task EXCEPT !["monitor"] = Idle]
    <3>1. Idle \in Shapes("monitor") /\ Idle.pc = "done"
      BY DEF Shapes, MonitorShapes, Idle
    <3> QED
      BY <2>1, <3>1
  <2>2. CASE task' = [task EXCEPT !["monitor"] = [pc |-> "query", snap |-> p]]
    <3> DEFINE v == [pc |-> "query", snap |-> p]
    <3>1. v \in Shapes("monitor") /\ v.pc = "query" /\ v.snap = p
      BY <1>2 DEF Shapes, MonitorShapes, Queries
    <3> QED
      BY <2>2, <3>1
  <2>3. CASE /\ p.amount > 1
             /\ \E tp1a \in BOOLEAN :
                  task' = [task EXCEPT !["monitor"] = [pc |-> "price", snap |-> p, tp1a |-> tp1a]]
    <3>1. PICK b \in BOOLEAN : task' = [task EXCEPT !["monitor"] = [pc |-> "price", snap |-> p, tp1a |-> b]]
      BY <2>3
    <3> DEFINE v == [pc |-> "price", snap |-> p, tp1a |-> b]
    <3>2. v \in PartsBegun /\ v.pc = "price" /\ v.snap = p
      BY <1>2 DEF PartsBegun
    <3>3. v \in Shapes("monitor")
      BY <2>3, <3>2 DEF Shapes, MonitorShapes
    <3> HIDE DEF v
    <3> QED
      BY <3>1, <3>2, <3>3 DEF v
  <2> QED
    BY <2>1, <2>2, <2>3 DEF MonitorDecides
<1>4. Flight(v) = 0 /\ Flight(Monitor) = 0
  BY <1>1, <1>3 DEF Flight
<1>5. unbooked' = unbooked - Flight(Monitor) /\ UNCHANGED held
  BY <1>1, <1>4, Books DEF account
<1>6. p \in Records
  BY <1>2 DEF Records, OpenRecords
<1>7. Follows(v) => v.snap.id <= nextId
  BY <1>2, <1>3 DEF Follows
<1> HIDE DEF p
<1> QED
  BY <1>1, <1>2, <1>3, <1>4, <1>5, <1>6, <1>7, MonitorWrites

LEMMA PartialTooSmallBooked ==
  ASSUME BookedInv, PartialTooSmall
  PROVE  BookedInv'
<1> DEFINE p == Monitor.snap
           done == [p EXCEPT !.tp1a = TRUE]
<1>1. /\ Monitor.pc = "price" /\ "monitor" \in Tasks
      /\ UNCHANGED <<phase, queue, recent, waiting, count, account, limits>>
  BY DEF PartialTooSmall, Tasks
<1>2. p \in OpenRecords /\ p.id <= nextId /\ phase = "busy"
  BY <1>1, Books, ShapeOf, BusyWhenRunning, "monitor" # "signal"
  DEF Monitor, PartsBegun, Follows, Sent, BookedInv
<1>3. Flight(Monitor) = 0
  BY <1>1 DEF Flight
<1>4. CASE /\ task' = [task EXCEPT !["monitor"] = [pc |-> "query", snap |-> p]]
           /\ UNCHANGED <<pos, file, cause>>
  <2> DEFINE v == [pc |-> "query", snap |-> p]
  <2>1. v \in Shapes("monitor") /\ Flight(v) = 0 /\ v.snap = p
    BY <1>2 DEF Shapes, MonitorShapes, Queries, Flight
  <2>2. GoesOn("monitor", v) /\ UNCHANGED <<count, faults, cause, waiting>>
    BY <1>1, <1>4 DEF GoesOn, limits
  <2> HIDE DEF v
  <2> QED
    BY <1>1, <1>2, <1>3, <2>1, <2>2, Books, GoesOnStep DEF Monitor
<1>5. CASE /\ PutBack(done, p) /\ Save(done) /\ task' = [task EXCEPT !["monitor"] = Idle]
  <2>1. done \in OpenRecords /\ done.id = p.id
    BY <1>2 DEF OpenRecords
  <2>2. done \in Records
    BY <2>1 DEF Records, OpenRecords
  <2>3. Idle \in Shapes("monitor") /\ Flight(Idle) = 0 /\ ~Follows(Idle)
    BY DEF Shapes, MonitorShapes, Flight, Follows, Idle
  <2>4. unbooked' = unbooked - Flight(Monitor) /\ UNCHANGED held /\ file' \in {done, file}
    BY <1>1, <1>3, <1>5, Books DEF account, Save
  <2> HIDE DEF done
  <2> QED
    BY <1>1, <1>2, <1>5, <2>1, <2>2, <2>3, <2>4, MonitorWrites
<1> QED
  BY <1>1, <1>4, <1>5 DEF PartialTooSmall

LEMMA PartialIsBookedBooked ==
  ASSUME BookedInv, PartialIsBooked
  PROVE  BookedInv'
<1> DEFINE p == Monitor.snap
           rest == [p EXCEPT !.amount = @ - Monitor.filled, !.tp1a = Monitor.tp1a]
<1>1. /\ Monitor.pc = "ok" /\ Monitor.kind = "partial" /\ Monitor.filled > 0 /\ "monitor" \in Tasks
      /\ PutBack(rest, p) /\ file' = rest /\ unbooked' = unbooked - Monitor.filled
      /\ task' = [task EXCEPT !["monitor"] = Idle]
      /\ UNCHANGED <<phase, queue, recent, waiting, count, held, limits>>
  BY DEF PartialIsBooked, Save, Tasks
<1>2. /\ Monitor \in Orders /\ OrderOK(Monitor) /\ p \in OpenRecords /\ p.id <= nextId /\ phase = "busy"
  BY <1>1, Books, ShapeOf, SnapOf, BusyWhenRunning DEF Monitor, Follows, Sent, BookedInv
<1>3. p.amount - Monitor.filled \in Nat \ {0} /\ Monitor.tp1a \in BOOLEAN
  BY <1>1, <1>2 DEF OrderOK, Orders, OpenRecords
<1>4. rest \in OpenRecords /\ rest.id = p.id
  BY <1>2, <1>3 DEF OpenRecords
<1>5. rest \in Records
  BY <1>4 DEF Records, OpenRecords
<1>6. Idle \in Shapes("monitor") /\ Flight(Idle) = 0 /\ ~Follows(Idle) /\ Flight(Monitor) = Monitor.filled
  BY <1>1 DEF Shapes, MonitorShapes, Flight, Follows, Idle
<1> HIDE DEF rest
<1> QED
  BY <1>1, <1>2, <1>4, <1>5, <1>6, MonitorWrites

(* Between the ticks, no task has an order out. *)
LEMMA NothingInFlight ==
  ASSUME BookedInv, AtRest
  PROVE  Flight(Signal) = 0 /\ Flight(Monitor) = 0 /\ unbooked = Sum(held)
<1>1. Flight(Signal) = 0 /\ Flight(Monitor) = 0
  BY DEF AtRest, Signal, Monitor, Tasks, Flight, Idle
<1> QED
  BY <1>1, Books

LEMMA NewSignalBooked ==
  ASSUME BookedInv, NEW a \in Actions, NewSignal(a)
  PROVE  BookedInv'
<1>1. /\ queue' \in Seq(Actions) /\ signals' \in Nat
      /\ UNCHANGED <<phase, pos, file, recent, waiting, task, count, held, unbooked, cause, nextId, faults>>
  BY Books, SMTT(30) DEF BookedInv, TypeInv, TypeOK, NewSignal, account
<1> QED
  BY <1>1 DEF BookedInv, TypeInv, TypeOK, IdsOK, Reads, AtRest, EveryCloseIsBooked, InFlight

LEMMA PassesBooked ==
  ASSUME BookedInv, WindowPasses \/ DayPasses
  PROVE  BookedInv'
<1>1. /\ count' \in 0..DailyMax /\ recent' \subseteq Actions
      /\ UNCHANGED <<phase, pos, file, queue, waiting, task, held, unbooked, cause, nextId, signals, faults>>
  BY PositionsAssumption DEF BookedInv, TypeInv, TypeOK, WindowPasses, DayPasses, account, limits
<1> QED
  BY <1>1 DEF BookedInv, TypeInv, TypeOK, IdsOK, Reads, AtRest, EveryCloseIsBooked, InFlight

LEMMA EndTickBooked ==
  ASSUME BookedInv, EndTick
  PROVE  BookedInv'
<1>1. /\ file' \in {pos, file} /\ phase' = "idle" /\ AtRest
      /\ UNCHANGED <<pos, queue, recent, waiting, task, count, held, unbooked, cause, nextId, signals, faults>>
  BY DEF EndTick, account, limits, AtRest
<1> QED
  BY <1>1 DEF BookedInv, TypeInv, TypeOK, IdsOK, Reads, AtRest, EveryCloseIsBooked, InFlight

(* the signals that a tick takes up *)
LEMMA AcceptedSeq ==
  ASSUME queue \in Seq(Actions), NEW w \in SetToSeqs(Accepted)
  PROVE  w \in Seq(Actions) /\ ToSet(queue) \subseteq Actions
<1>1. ToSet(queue) \subseteq Actions
  BY DEF ToSet
<1>2. Accepted \subseteq Actions
  BY <1>1 DEF Accepted
<1>3. IsFiniteSet(Actions)
  <2>1. IsFiniteSet({} \cup {"buy"})
    BY FS_EmptySet, FS_AddElement
  <2>2. IsFiniteSet(({} \cup {"buy"}) \cup {"sell"})
    BY <2>1, FS_AddElement
  <2>3. IsFiniteSet((({} \cup {"buy"}) \cup {"sell"}) \cup {"exit"})
    BY <2>2, FS_AddElement
  <2>4. Actions = (({} \cup {"buy"}) \cup {"sell"}) \cup {"exit"}
    BY DEF Actions
  <2> QED
    BY <2>3, <2>4
<1>4. Cardinality(Accepted) \in Nat
  BY <1>2, <1>3, FS_Subset, FS_CardinalityType
<1>5. w \in [1..Cardinality(Accepted) -> Accepted]
  BY DEF SetToSeqs
<1>6. w \in [1..Cardinality(Accepted) -> Actions]
  BY <1>2, <1>5
<1> QED
  BY <1>1, <1>4, <1>6

LEMMA StartTickBooked ==
  ASSUME BookedInv, StartTick
  PROVE  BookedInv'
<1> DEFINE t == "monitor"
           v == IF IsOpen(pos) THEN [pc |-> "fetch", snap |-> pos] ELSE Idle
<1>1. /\ phase = "idle" /\ phase' = "busy" /\ queue' = <<>> /\ t \in Tasks
      /\ recent' = recent \cup ToSet(queue) /\ task' = [task EXCEPT ![t] = v]
      /\ UNCHANGED <<pos, file, count, held, unbooked, cause, nextId, signals, faults>>
  BY DEF StartTick, account, limits, Tasks
<1>2. waiting' \in Seq(Actions) /\ recent' \subseteq Actions
  <2>1. PICK w \in SetToSeqs(Accepted) : waiting' = w
    BY DEF StartTick
  <2>2. queue \in Seq(Actions) /\ recent \subseteq Actions
    BY DEF BookedInv, TypeInv, TypeOK
  <2> QED
    BY <1>1, <2>1, <2>2, AcceptedSeq
<1>3. pos \in Records /\ (IsOpen(pos) => pos \in OpenRecords) /\ pos.id <= nextId /\ pos.id \in Nat
  BY Books, OpenIsRecord
<1>4. v \in Shapes(t) /\ Flight(v) = 0 /\ (Follows(v) => v.snap.id <= nextId) /\ v.pc \in Steps
  BY <1>3 DEF Shapes, MonitorShapes, Fetches, Flight, Follows, Idle, Steps, Sent
<1>5. /\ DOMAIN task' = Tasks /\ task'[t] = v /\ task'[Beside(t)] = task[Beside(t)]
      /\ Beside(t) \in Tasks /\ Tasks = {t, Beside(t)}
  BY <1>1, OneTask DEF BookedInv, TypeInv
<1> HIDE DEF v
<1>6. \A u \in Tasks : task'[u] \in Shapes(u) /\ task'[u].pc \in Steps
  BY <1>4, <1>5 DEF BookedInv, TypeInv, TypeOK
<1>7. TypeOK'
  BY <1>1, <1>2, <1>6 DEF BookedInv, TypeInv, TypeOK
<1>8. IdsOK'
  BY <1>1, <1>4, <1>5 DEF BookedInv, TypeInv, IdsOK, Reads
<1>9. EveryCloseIsBooked'
  <2>1. unbooked = Sum(held) /\ Flight(Signal) = 0
    BY <1>1, NothingInFlight DEF BookedInv, TypeInv
  <2>2. Signal' = Signal /\ Monitor' = v
    BY <1>5 DEF Signal, Monitor, Beside
  <2>3. InFlight("signal")' = 0 /\ InFlight("monitor")' = 0
    BY <2>1, <2>2, <1>4, FlightOf
  <2> QED
    BY <1>1, <2>1, <2>3, Books DEF EveryCloseIsBooked, Sum
<1> QED
  BY <1>1, <1>5, <1>6, <1>7, <1>8, <1>9 DEF BookedInv, TypeInv

LEMMA CrashBooked ==
  ASSUME BookedInv, Crash
  PROVE  BookedInv'
<1>1. /\ phase' = "starting" /\ pos' = Loaded(file) /\ queue' = <<>> /\ recent' = {} /\ waiting' = <<>>
      /\ task' = [t \in Tasks |-> Idle] /\ count' = 0 /\ Fault
      /\ unbooked' = unbooked - InFlight("signal") - InFlight("monitor")
      /\ UNCHANGED <<file, held, nextId, signals>>
  BY DEF Crash
<1>2. /\ DOMAIN task' = Tasks /\ AtRest'
      /\ \A t \in Tasks : task'[t] = Idle /\ Idle \in Shapes(t) /\ Idle.pc \in Steps /\ ~Follows(Idle)
  BY <1>1 DEF AtRest, Shapes, SignalShapes, MonitorShapes, Idle, Steps, Follows
<1>3. pos' \in Records /\ pos'.id = file.id
  <2>1. CASE IsOpen(file)
    <3>1. file \in OpenRecords
      BY <2>1, Books, OpenIsRecord
    <3>2. Least(file.amount, file.initial) \in Nat \ {0}
      BY <3>1 DEF OpenRecords, Least
    <3>3. [file EXCEPT !.amount = Least(file.amount, file.initial)] \in OpenRecords
      BY <3>1, <3>2 DEF OpenRecords
    <3> QED
      BY <1>1, <2>1, <3>1, <3>3 DEF Loaded, Records, OpenRecords
  <2>2. CASE ~IsOpen(file)
    BY <1>1, <2>2, Books DEF Loaded
  <2> QED
    BY <2>1, <2>2
<1>4. unbooked' = Sum(held) /\ Sum(held) \in Nat
  BY <1>1, Books, FlightOf
<1>5. cause' \in Causes
  <2> DEFINE c == IF \E s \in Sides : held[s] > 0 /\ ~Known(file, s) THEN "unsaved" ELSE "none"
  <2>1. Because(c) /\ c \in Causes
    BY DEF Crash, Causes
  <2> QED
    BY <2>1, CauseIs, Books
<1>6. TypeOK'
  <2>1. \A t \in Tasks : task'[t].pc \in Steps
    BY <1>2
  <2>2. /\ pos' \in Records /\ file' \in Records /\ queue' \in Seq(Actions) /\ waiting' \in Seq(Actions)
        /\ count' \in 0..DailyMax /\ held' \in [Sides -> Nat] /\ recent' \subseteq Actions
    BY <1>1, <1>3, Books, PositionsAssumption
  <2>3. unbooked' \in Nat /\ nextId' \in Nat /\ signals' \in Nat /\ faults' \in Nat
    BY <1>1, <1>4, Books, FaultIsNat
  <2> QED
    BY <1>1, <1>5, <2>1, <2>2, <2>3 DEF TypeOK
<1>7. IdsOK'
  BY <1>1, <1>2, <1>3, Books DEF IdsOK, Reads
<1>8. EveryCloseIsBooked'
  <2>1. InFlight("signal")' = 0 /\ InFlight("monitor")' = 0
    BY <1>2 DEF InFlight, Tasks, Idle
  <2> QED
    BY <1>1, <1>4, <2>1 DEF EveryCloseIsBooked, Sum
<1> QED
  BY <1>1, <1>2, <1>6, <1>7, <1>8 DEF BookedInv, TypeInv

LEMMA ReconcileBooked ==
  ASSUME BookedInv, Reconcile
  PROVE  BookedInv'
<1>1. /\ phase = "starting" /\ phase' = "idle" /\ AtRest
      /\ UNCHANGED <<queue, recent, waiting, task, count, held, unbooked, nextId, signals, faults>>
  BY DEF Reconcile, account, BookedInv, TypeInv
<1>2. pos' \in Records /\ file' \in Records /\ pos'.id <= nextId /\ file'.id <= nextId
  <2>1. CASE UNCHANGED <<pos, file>>
    BY <2>1, Books
  <2>2. CASE pos' = NoPos /\ file' = NoPos
    BY <2>2, Books DEF NoPos, Records
  <2>3. CASE /\ IsOpen(pos) /\ UNCHANGED file
             /\ \E s \in Sides : held[s] > 0 /\ pos' = [pos EXCEPT !.amount = held[s]]
    <3>1. PICK s \in Sides : held[s] > 0 /\ pos' = [pos EXCEPT !.amount = held[s]]
      BY <2>3
    <3>2. held[s] \in Nat \ {0} /\ pos \in OpenRecords
      BY <2>3, <3>1, Books, OpenIsRecord
    <3>3. pos' \in OpenRecords /\ pos'.id = pos.id
      BY <3>1, <3>2 DEF OpenRecords
    <3> QED
      BY <2>3, <3>3, Books DEF Records, OpenRecords
  <2> QED
    BY <2>1, <2>2, <2>3 DEF Reconcile, Save
<1>3. cause' \in Causes
  <2>1. CASE UNCHANGED cause
    BY <2>1, Books
  <2>2. CASE Because("unasked")
    <3>1. "unasked" \in Causes
      BY DEF Causes
    <3> QED
      BY <2>2, <3>1, CauseIs, Books
  <2> QED
    BY <2>1, <2>2 DEF Reconcile
<1>4. TypeOK'
  BY <1>1, <1>2, <1>3 DEF BookedInv, TypeInv, TypeOK
<1>5. IdsOK'
  BY <1>1, <1>2 DEF BookedInv, TypeInv, IdsOK, Reads
<1> QED
  BY <1>1, <1>4, <1>5 DEF BookedInv, TypeInv, AtRest, EveryCloseIsBooked, InFlight

LEMMA InitBooked ==
  ASSUME Init
  PROVE  BookedInv
<1>1. /\ phase = "starting" /\ pos = NewPos(1, "LONG", Qty) /\ file = pos /\ nextId = 1
      /\ held = [s \in Sides |-> IF Known(file, s) THEN Qty ELSE 0] /\ unbooked = Sum(held)
      /\ queue = <<>> /\ recent = {} /\ waiting = <<>> /\ task = [t \in Tasks |-> Idle]
      /\ count = 0 /\ cause = "none" /\ signals = 0 /\ faults = 0
  BY DEF Init
<1>2. /\ DOMAIN task = Tasks /\ AtRest
      /\ \A t \in Tasks : task[t] = Idle /\ Idle \in Shapes(t) /\ Idle.pc \in Steps /\ ~Follows(Idle)
  BY <1>1 DEF AtRest, Shapes, SignalShapes, MonitorShapes, Idle, Steps, Follows
<1>3. pos \in Records /\ pos.id = 1 /\ file \in Records /\ file.id = 1
  BY <1>1, PositionsAssumption DEF NewPos, Records, Sides
<1>4. held \in [Sides -> Nat] /\ Sum(held) \in Nat
  BY <1>1, PositionsAssumption DEF Sum, Sides
<1>5. TypeOK
  BY <1>1, <1>2, <1>3, <1>4, PositionsAssumption DEF TypeOK, Causes
<1>6. IdsOK
  BY <1>1, <1>2, <1>3 DEF IdsOK, Reads
<1>7. EveryCloseIsBooked
  <2>1. InFlight("signal") = 0 /\ InFlight("monitor") = 0
    BY <1>2 DEF InFlight, Tasks, Idle
  <2> QED
    BY <1>1, <1>4, <2>1 DEF EveryCloseIsBooked
<1> QED
  BY <1>1, <1>2, <1>5, <1>6, <1>7 DEF BookedInv, TypeInv

LEMMA TaskBooked ==
  ASSUME BookedInv, NEW t \in Tasks, TaskNext(t)
  PROVE  BookedInv'
  BY SendOrderBooked, ReplyBooked, ExitQueriesBooked, ExitRetriesBooked, ExitIsBookedBooked,
     ExitRemovesBooked DEF TaskNext

LEMMA StutterBooked ==
  ASSUME BookedInv, UNCHANGED vars
  PROVE  BookedInv'
  BY DEF vars, account, limits, BookedInv, TypeInv, TypeOK, IdsOK, Reads, AtRest, EveryCloseIsBooked, InFlight

LEMMA NextBooked ==
  ASSUME BookedInv, [Next]_vars
  PROVE  BookedInv'
<1>1. CASE RunNext
  BY <1>1, StartTickBooked, EndTickBooked, ReconcileBooked DEF RunNext
<1>2. CASE SignalNext
  <2>1. "signal" \in Tasks
    BY DEF Tasks
  <2> QED
    BY <1>2, <2>1, TakeSignalBooked, FlipClosesBooked, FlipClosedBooked, FlipRemovesBooked, EntersNextBooked,
       EntryEndsBooked, EntryOrdersBooked, EnteredBooked, TaskBooked DEF SignalNext
<1>3. CASE MonitorNext
  <2>1. "monitor" \in Tasks
    BY DEF Tasks
  <2> QED
    BY <1>3, <2>1, MonitorEndsBooked, MonitorDecidesBooked, PartialTooSmallBooked, PartialOrdersBooked,
       PartialIsBookedBooked, TaskBooked DEF MonitorNext
<1>4. CASE \E a \in Actions : NewSignal(a)
  BY <1>4, NewSignalBooked
<1>5. CASE WindowPasses \/ DayPasses
  BY <1>5, PassesBooked
<1>6. CASE Crash
  BY <1>6, CrashBooked
<1>7. CASE UNCHANGED vars
  BY <1>7, StutterBooked
<1> QED
  BY <1>1, <1>2, <1>3, <1>4, <1>5, <1>6, <1>7 DEF Next

-----------------------------------------------------------------------------
(* The record agrees with the account, step by step *)

Executing == {"reply", "ok", "tier"}

AgreesNow == BookedInv /\ Agreed /\ phase # "starting"

LEMMA Now ==
  ASSUME AgreesNow
  PROVE  /\ Held /\ EntersOther /\ LockOK /\ BookedInv
         /\ \A t \in Tasks : ReadOK(t) /\ ExecutedOK(t) /\ task[t] \in Shapes(t)
         /\ DOMAIN task = Tasks
         /\ pos \in Records /\ pos.id \in Nat /\ held \in [Sides -> Nat]
         /\ IsOpen(pos) => pos \in OpenRecords /\ pos.side \in Sides /\ pos.amount \in Nat \ {0} /\ pos.id # 0
  BY Books, OpenIsRecord DEF AgreesNow, Agreed, BookedInv, TypeInv, OpenRecords

LEMMA UnwrittenIsNat ==
  ASSUME AgreesNow
  PROVE  Unwritten \in Nat
<1>1. Monitor.pc \in Sent => Monitor.filled \in Nat
  BY Now, ShapeOf DEF Monitor, Tasks, Orders
<1> QED
  BY <1>1 DEF Unwritten, Sent

(* An entry under way is not on the side that is recorded, and nothing is  *)
(* held besides it; otherwise what is held is recorded.                    *)
LEMMA HeldSides ==
  ASSUME AgreesNow, IsOpen(pos), NEW s \in Sides
  PROVE  /\ held[s] \in Nat /\ held[pos.side] <= pos.amount
         /\ EntryDone => held[pos.side] = 0
         /\ s # pos.side /\ ~EntryDone => held[s] = 0
         /\ (\E t \in Tasks : ClosedBy(t)) => held[pos.side] = 0
         /\ ~EntryDone /\ held[pos.side] > 0 => held[pos.side] = pos.amount - Unwritten
<1>1. held[s] \in Nat /\ pos.side \in Sides /\ pos.amount \in Nat \ {0} /\ Unwritten \in Nat
  BY Now, UnwrittenIsNat
<1>2. CASE EntryDone
  <2>1. pos.side # Signal.side
    BY <1>2, Now DEF EntersOther, EntryDone, Sent
  <2> QED
    BY <1>1, <1>2, <2>1, Now DEF Held
<1>3. CASE ~EntryDone
  <2>1. held[s] = Recorded(s) /\ held[pos.side] = Recorded(pos.side)
    BY <1>1, <1>3, Now DEF Held
  <2>2. Recorded(pos.side) \in {0, pos.amount - Unwritten} /\ (s # pos.side => Recorded(s) = 0)
    BY DEF Recorded
  <2>3. (\E t \in Tasks : ClosedBy(t)) => Recorded(pos.side) = 0
    BY DEF Recorded
  <2> QED
    BY <1>1, <1>3, <2>1, <2>2, <2>3
<1> QED
  BY <1>2, <1>3

(* the record may change, but not which position it is, or how much of it *)
SamePosition ==
    \/ UNCHANGED pos
    \/ IsOpen(pos) /\ pos' \in OpenRecords
       /\ pos'.id = pos.id /\ pos'.side = pos.side /\ pos'.amount = pos.amount

(* A step that executes nothing, of a task that has executed nothing. *)
LEMMA QuietAgrees ==
  ASSUME AgreesNow, NEW t \in Tasks, NEW v \in Shapes(t), task' = [task EXCEPT ![t] = v],
         phase' # "starting", UNCHANGED held, SamePosition,
         task[t].pc \notin Executing, v.pc \notin Executing,
         Follows(v) /\ v.snap.id = pos.id =>
            /\ v.snap.side = pos.side /\ v.snap.amount >= pos.amount
            /\ v.pc \in {"order", "raised"} /\ v.kind # "partial" => v.amount >= held[pos.side],
         t = "signal" /\ IsOpen(pos) =>
            /\ v.pc = "entry" \/ (v.pc \in Sent /\ v.kind = "entry") => pos.side # v.side
            /\ Follows(v) => pos.id = v.snap.id
  PROVE  Agreed'
<1>1. /\ task'[t] = v /\ task'[Beside(t)] = task[Beside(t)]
      /\ Beside(t) \in Tasks /\ Tasks = {t, Beside(t)}
  BY OneTask, Now
<1>2. pos'.id = pos.id /\ (IsOpen(pos') <=> IsOpen(pos))
      /\ (IsOpen(pos) => pos'.side = pos.side /\ pos'.amount = pos.amount)
  BY Now, OpenIsRecord DEF SamePosition, OpenRecords, IsOpen, NoPos
<1>3. \A u \in Tasks : ClosedBy(u)' <=> ClosedBy(u)
  BY <1>1, <1>2 DEF ClosedBy, Executing
<1>4. Unwritten' = Unwritten
  BY <1>1, <1>2 DEF Unwritten, Executing, Monitor, Beside, Tasks
<1>5. EntryDone' <=> EntryDone
  BY <1>1 DEF EntryDone, Executing, Signal, Beside, Tasks
<1>6. \A s : Recorded(s)' = Recorded(s)
  BY <1>2, <1>3, <1>4 DEF Recorded
<1>7. EntryDone => Signal' = Signal
  BY <1>1 DEF EntryDone, Executing, Signal, Beside, Tasks
<1>8. Held'
  BY <1>5, <1>6, <1>7, Now DEF Held
<1>9. EntersOther'
  BY <1>1, <1>2, Now DEF EntersOther, Signal, Beside, Tasks
<1>10. LockOK'
  BY <1>1, <1>2, Now DEF LockOK, Reads, Signal, Beside, Tasks
<1>11. \A u \in Tasks : ExecutedOK(u)'
  BY <1>1, Now DEF ExecutedOK, Executing
<1>12. ReadOK(t)'
  <2>1. Follows(v) => v.snap.id # 0
    BY SnapOf DEF OpenRecords
  <2>2. pos.id # 0 => IsOpen(pos)
    BY DEF IsOpen, NoPos
  <2> QED
    BY <1>1, <1>2, <2>1, <2>2 DEF ReadOK, Reads
<1>13. ReadOK(Beside(t))'
  <2>1. Reads(Beside(t)) => task[Beside(t)].snap.id # 0
    BY <1>1, SnapOf, Now DEF Reads, OpenRecords
  <2>2. pos.id # 0 => IsOpen(pos)
    BY DEF IsOpen, NoPos
  <2>3. ReadOK(Beside(t))
    BY <1>1, Now
  <2> QED
    BY <1>1, <1>2, <2>1, <2>2, <2>3 DEF ReadOK, Reads
<1> QED
  BY <1>1, <1>8, <1>9, <1>10, <1>11, <1>12, <1>13 DEF Agreed

(* ... and ends, or goes on from the record that is there *)
LEMMA EndAgrees ==
  ASSUME AgreesNow, NEW t \in Tasks, task' = [task EXCEPT ![t] = Idle], phase' # "starting",
         UNCHANGED held, SamePosition, task[t].pc \notin Executing
  PROVE  Agreed'
<1>1. Idle \in Shapes(t) /\ Idle.pc = "done" /\ ~Follows(Idle)
  BY DEF Shapes, SignalShapes, MonitorShapes, Idle, Follows
<1> QED
  BY <1>1, QuietAgrees DEF Executing, Sent

LEMMA BusyNow ==
  ASSUME AgreesNow, NEW t \in Tasks, task[t].pc # "done"
  PROVE  phase = "busy"
  BY BusyWhenRunning DEF AgreesNow, BookedInv

LEMMA TakeSignalAgrees ==
  ASSUME AgreesNow, TakeSignal
  PROVE  Agreed'
<1> DEFINE a == Head(waiting)
           v == CASE a = "exit" /\ IsOpen(pos) -> [pc |-> "query", snap |-> pos]
                  [] a # "exit" /\ ~IsOpen(pos) -> [pc |-> "entry", side |-> SideOf(a)]
                  [] a # "exit" /\ IsOpen(pos) /\ pos.side # SideOf(a) -> [pc |-> "price", snap |-> pos]
                  [] OTHER -> Idle
<1>1. /\ task' = [task EXCEPT !["signal"] = v] /\ "signal" \in Tasks
      /\ UNCHANGED <<phase, pos, held>> /\ task["signal"] = Idle
  BY DEF TakeSignal, account, Tasks
<1>2. IsOpen(pos) => pos \in OpenRecords /\ pos.amount \in Nat
  BY Now
<1>3. v \in {Idle} \cup Queries \cup EntriesBegun \cup FlipsBegun
  BY <1>2 DEF Queries, EntriesBegun, FlipsBegun, SideOf, Sides
<1>4. v \in Shapes("signal") /\ v.pc \notin Executing /\ v.pc \notin Sent
  BY <1>3 DEF Shapes, SignalShapes, Idle, Queries, EntriesBegun, FlipsBegun, Executing, Sent
<1>5. (v.pc = "entry" => ~IsOpen(pos)) /\ (Follows(v) => v.snap = pos /\ IsOpen(pos))
  BY DEF Idle, Follows
<1>6. task["signal"].pc \notin Executing /\ phase' # "starting"
  BY <1>1 DEF Idle, Executing, AgreesNow
<1> HIDE DEF v
<1>7. v.pc \notin {"order", "raised"} /\ SamePosition
  BY <1>1, <1>4 DEF SamePosition, Sent
<1>8. Follows(v) => v.snap.side = pos.side /\ v.snap.amount >= pos.amount /\ pos.id = v.snap.id
  BY <1>2, <1>5
<1> QED
  BY <1>1, <1>4, <1>5, <1>6, <1>7, <1>8, QuietAgrees

LEMMA FlipClosesAgrees ==
  ASSUME AgreesNow, FlipCloses
  PROVE  Agreed'
<1> DEFINE p == Signal.snap
           v == NewOrder("flip", p.side, p.amount, p)
<1>1. /\ task' = [task EXCEPT !["signal"] = v] /\ "signal" \in Tasks
      /\ UNCHANGED <<phase, pos, held>> /\ Signal.pc = "price"
  BY DEF FlipCloses, Order, NewOrder, account, Tasks
<1>2. Signal \in FlipsBegun /\ p \in OpenRecords /\ Reads("signal")
  BY <1>1, Now, ShapeOf DEF Signal, FlipsBegun, Follows, Sent, Reads
<1>3. p \in Records /\ IsOpen(p) /\ p.side \in Sides /\ p.amount \in Nat \ {0} /\ p.id # 0
  BY <1>2 DEF Records, OpenRecords, IsOpen, NoPos
<1>4. v \in Shapes("signal") /\ v.snap = p
  BY <1>3, <1>1, NewOrderShape
<1>5. v.amount = p.amount /\ v.pc = "order" /\ v.kind = "flip"
  BY DEF NewOrder
<1>6. p.id = pos.id => p.side = pos.side /\ p.amount >= pos.amount
  BY <1>1, <1>2, Now DEF ReadOK, Signal
<1>7. p.id = pos.id => p.amount >= held[pos.side]
  <2>1. p.id = pos.id => IsOpen(pos)
    BY <1>3 DEF IsOpen, NoPos
  <2> QED
    BY <1>3, <1>6, <2>1, HeldSides, Now
<1>8. IsOpen(pos) => pos.id = p.id
  BY <1>1, <1>2, Now DEF LockOK
<1>9. task["signal"].pc \notin Executing /\ v.pc \notin Executing /\ phase' # "starting"
  BY <1>1, <1>5 DEF Executing, AgreesNow, Signal
<1> HIDE DEF v, p
<1> QED
  BY <1>1, <1>4, <1>5, <1>6, <1>7, <1>8, <1>9, QuietAgrees DEF SamePosition

LEMMA FlipFailsAgrees ==
  ASSUME AgreesNow, FlipFails
  PROVE  Agreed'
<1> DEFINE s == Signal.snap.side
           v == [pc |-> "entry", side |-> Other(s)]
<1>1. /\ task' = [task EXCEPT !["signal"] = v] /\ "signal" \in Tasks
      /\ UNCHANGED <<phase, pos, held>> /\ Signal.pc = "raised" /\ Signal.kind = "flip"
  BY DEF FlipFails, EntersNext, account, Tasks
<1>2. s \in Sides /\ Reads("signal")
  BY <1>1, Now, SnapOf DEF Signal, Follows, Reads
<1>3. Other(s) \in Sides /\ Other(s) # s
  BY <1>2, TwoSides
<1>4. v \in Shapes("signal") /\ v.pc = "entry" /\ ~Follows(v) /\ v.side = Other(s)
  BY <1>3 DEF Shapes, SignalShapes, EntriesBegun, Follows
<1>5. IsOpen(pos) => pos.side = s
  BY <1>1, <1>2, Now DEF LockOK, ReadOK, Signal
<1>6. task["signal"].pc \notin Executing /\ v.pc \notin Executing /\ phase' # "starting"
  BY <1>1, <1>4 DEF Executing, AgreesNow, Signal
<1> HIDE DEF v, s
<1> QED
  BY <1>1, <1>3, <1>4, <1>5, <1>6, QuietAgrees DEF SamePosition

LEMMA EntryEndsAgrees ==
  ASSUME AgreesNow, EntryIsRejected \/ EntryFails
  PROVE  Agreed'
<1>1. /\ task' = [task EXCEPT !["signal"] = Idle] /\ "signal" \in Tasks
      /\ UNCHANGED <<phase, pos, held>>
  BY DEF EntryIsRejected, EntryFails, account, Tasks
<1>2. Signal.pc \in {"entry", "raised"}
  <2>1. ExecutedOK("signal") /\ (Signal.pc = "ok" => Signal.filled # 0)
    BY <1>1, Now DEF ExecutedOK, Signal
  <2> QED
    BY <2>1 DEF EntryIsRejected, EntryFails
<1> QED
  BY <1>1, <1>2, EndAgrees DEF SamePosition, Executing, Signal, AgreesNow

LEMMA EntryOrdersAgrees ==
  ASSUME AgreesNow, EntryOrders
  PROVE  Agreed'
<1> DEFINE v == NewOrder("entry", Signal.side, Qty, NoPos)
<1>1. /\ task' = [task EXCEPT !["signal"] = v] /\ "signal" \in Tasks
      /\ UNCHANGED <<phase, pos, held>> /\ Signal.pc = "entry"
  BY DEF EntryOrders, Order, NewOrder, account, Tasks
<1>2. Signal.side \in Sides /\ Qty \in Nat \ {0} /\ NoPos \in Records
  BY <1>1, Now, ShapeOf, PositionsAssumption DEF Signal, EntriesBegun, Records
<1>3. v \in Shapes("signal")
  BY <1>2, <1>1, NewOrderShape
<1>4. ~Follows(v) /\ v.pc = "order" /\ v.kind = "entry" /\ v.side = Signal.side
  BY DEF NewOrder, Follows, Sent
<1>5. IsOpen(pos) => pos.side # Signal.side
  BY <1>1, Now DEF EntersOther
<1>6. task["signal"].pc \notin Executing /\ v.pc \notin Executing /\ phase' # "starting"
  BY <1>1, <1>4 DEF Executing, AgreesNow, Signal
<1> HIDE DEF v
<1> QED
  BY <1>1, <1>3, <1>4, <1>5, <1>6, QuietAgrees DEF SamePosition

LEMMA ExitQueriesAgrees ==
  ASSUME AgreesNow, NEW t \in Tasks, ExitQueries(t)
  PROVE  Agreed'
<1> DEFINE p == task[t].snap
<1>1. task[t] \in Queries /\ p \in OpenRecords /\ Reads(t) /\ task[t].pc = "query"
  BY Now, ShapeOf DEF ExitQueries, Queries, Follows, Sent, Reads
<1>2. p \in Records /\ IsOpen(p) /\ p.side \in Sides /\ p.amount \in Nat \ {0} /\ p.id # 0
  BY <1>1 DEF Records, OpenRecords, IsOpen, NoPos
<1>3. PICK q \in Answers(t) \cup {p.amount} : task' = [task EXCEPT ![t] = NewOrder("exit", p.side, q, p)]
  BY DEF ExitQueries, Order, NewOrder
<1>4. q \in Nat \ {0}
  BY <1>2, <1>3, Now DEF Answers
<1> DEFINE v == NewOrder("exit", p.side, q, p)
<1>5. v \in Shapes(t) /\ v.snap = p
  BY <1>2, <1>4, NewOrderShape
<1>6. v.amount = q /\ v.pc = "order" /\ v.kind = "exit"
  BY DEF NewOrder
<1>7. p.id = pos.id => p.side = pos.side /\ p.amount >= pos.amount /\ IsOpen(pos)
  BY <1>1, <1>2, Now DEF ReadOK, IsOpen, NoPos
<1>8. p.id = pos.id => q >= held[pos.side]
  <2> SUFFICES ASSUME p.id = pos.id PROVE q >= held[pos.side]
    OBVIOUS
  <2>1. IsOpen(pos) /\ pos.side \in Sides /\ pos.amount \in Nat /\ p.amount >= pos.amount
    BY <1>7, Now
  <2>2. held[pos.side] <= pos.amount /\ held[pos.side] \in Nat
    BY <2>1, HeldSides
  <2>3. CASE q = p.amount
    BY <1>2, <2>1, <2>2, <2>3
  <2>4. CASE q \in Answers(t)
    <3>1. PICK s \in Sides : q = held[s] /\ held[s] > 0
      BY <2>4 DEF Answers
    <3>2. s # pos.side => held[pos.side] = 0
      BY <2>1, <3>1, HeldSides, Now
    <3> QED
      BY <2>2, <3>1, <3>2, <1>4
  <2> QED
    BY <1>3, <2>3, <2>4
<1>9. t = "signal" /\ IsOpen(pos) => pos.id = p.id
  BY <1>1, Now DEF LockOK, Signal
<1>10. UNCHANGED <<phase, pos, held>> /\ task[t].pc \notin Executing /\ v.pc \notin Executing /\ phase' # "starting"
  BY <1>1, <1>6 DEF ExitQueries, account, Executing, AgreesNow
<1>11. task' = [task EXCEPT ![t] = v]
  BY <1>3
<1> HIDE DEF v, p
<1> QED
  BY <1>5, <1>6, <1>7, <1>8, <1>9, <1>10, <1>11, QuietAgrees DEF SamePosition

LEMMA ExitRetriesAgrees ==
  ASSUME AgreesNow, NEW t \in Tasks, ExitRetries(t)
  PROVE  Agreed'
<1> DEFINE o == task[t]
           again == [o EXCEPT !.pc = "order", !.tries = @ + 1, !.sends = 0]
<1>1. /\ o.pc \in {"ok", "raised"} /\ o.kind = "exit" /\ (o.pc = "ok" => o.filled = 0)
      /\ UNCHANGED <<phase, pos, held>>
      /\ task' = [task EXCEPT ![t] = IF o.tries < 2 THEN again ELSE Idle]
  BY DEF ExitRetries, account
<1>2. o \in Orders /\ o \in Shapes(t) /\ Reads(t) /\ OrderOK(o)
  BY <1>1, Now, ShapeOf DEF Sent, Follows, Reads
<1>3. o.pc = "raised"
  <2>1. ExecutedOK(t)
    BY Now
  <2> QED
    BY <1>1, <1>2, <2>1 DEF ExecutedOK, Orders
<1>4. o.pc \notin Executing /\ phase' # "starting" /\ SamePosition
  BY <1>1, <1>3 DEF Executing, AgreesNow, SamePosition
<1>5. CASE o.tries < 2
  <2>1. o.tries + 1 \in 0..2
    BY <1>2, <1>5 DEF Orders
  <2>2. again \in Orders /\ again.pc = "order"
    BY <1>2, <2>1 DEF Orders, Sent
  <2>3. again.kind = "exit" /\ again.amount = o.amount /\ again.side = o.side /\ again.snap = o.snap
        /\ again.filled = o.filled
    BY <1>1, <1>2 DEF Orders
  <2> HIDE DEF again
  <2>4. again \in Shapes(t) /\ again.pc \notin Executing
    BY <1>1, <1>2, <1>3, <2>2, <2>3, OrderMoves DEF OrderOK, Sent, Executing
  <2>5. o.snap.id = pos.id =>
          o.snap.side = pos.side /\ o.snap.amount >= pos.amount /\ o.amount >= held[pos.side]
    BY <1>1, <1>2, <1>3, Now DEF ReadOK
  <2>6. t = "signal" /\ IsOpen(pos) => pos.id = o.snap.id
    BY <1>2, Now DEF LockOK, Signal
  <2>7. task' = [task EXCEPT ![t] = again]
    BY <1>1, <1>5
  <2> QED
    BY <1>1, <1>4, <2>2, <2>3, <2>4, <2>5, <2>6, <2>7, QuietAgrees
<1>6. CASE ~(o.tries < 2)
  BY <1>1, <1>4, <1>6, EndAgrees
<1> QED
  BY <1>5, <1>6

LEMMA MonitorEndsAgrees ==
  ASSUME AgreesNow, MonitorSkips \/ PartialStops \/ PartialFails
  PROVE  Agreed'
<1>1. /\ task' = [task EXCEPT !["monitor"] = Idle] /\ "monitor" \in Tasks
      /\ UNCHANGED <<phase, pos, held>>
  BY DEF MonitorSkips, PartialStops, PartialFails, account, Tasks
<1>2. Monitor.pc \in {"fetch", "price", "raised"}
  <2>1. ExecutedOK("monitor") /\ (Monitor.pc = "ok" => Monitor.filled # 0)
    BY <1>1, Now DEF ExecutedOK, Monitor
  <2> QED
    BY <2>1 DEF MonitorSkips, PartialStops, PartialFails
<1> QED
  BY <1>1, <1>2, EndAgrees DEF SamePosition, Executing, Monitor, AgreesNow

(* the monitor goes on from a record that it has read, without an order *)
LEMMA MonitorReadsOn ==
  ASSUME AgreesNow, NEW v \in Shapes("monitor"), task' = [task EXCEPT !["monitor"] = v],
         UNCHANGED <<phase, held>>, SamePosition, Monitor.pc \in {"fetch", "price"},
         v.pc \in {"query", "price"} \/ (v.pc = "order" /\ v.kind = "partial"), v.snap = Monitor.snap
  PROVE  Agreed'
<1>1. Reads("monitor") /\ "monitor" \in Tasks
  BY DEF Monitor, Reads, Follows, Sent, Tasks
<1>2. v.snap.id = pos.id => v.snap.side = pos.side /\ v.snap.amount >= pos.amount
  BY <1>1, Now DEF ReadOK, Monitor
<1>3. task["monitor"].pc \notin Executing /\ v.pc \notin Executing /\ phase' # "starting"
  BY DEF Executing, AgreesNow, Monitor
<1> QED
  BY <1>1, <1>2, <1>3, QuietAgrees, "monitor" # "signal"

LEMMA MonitorDecidesAgrees ==
  ASSUME AgreesNow, MonitorDecides, cause' = "none"
  PROVE  Agreed'
<1> DEFINE p == Monitor.snap
<1>1. /\ Monitor.pc = "fetch" /\ PutBack(p, p) /\ UNCHANGED <<phase, held>> /\ "monitor" \in Tasks
  BY DEF MonitorDecides, account, Tasks
<1>2. p \in OpenRecords
  BY <1>1, Now, ShapeOf DEF Monitor, Fetches
<1>3. SamePosition
  <2>1. p \in Records
    BY <1>2 DEF Records, OpenRecords
  <2> QED
    BY <1>1, <2>1, WrittenBack, Now DEF SamePosition
<1>4. CASE task' = [task EXCEPT !["monitor"] = Idle]
  BY <1>1, <1>3, <1>4, EndAgrees DEF Executing, AgreesNow, Monitor
<1>5. CASE task' = [task EXCEPT !["monitor"] = [pc |-> "query", snap |-> p]]
  <2> DEFINE v == [pc |-> "query", snap |-> p]
  <2>1. v \in Shapes("monitor") /\ v.pc = "query" /\ v.snap = p
    BY <1>2 DEF Shapes, MonitorShapes, Queries
  <2> HIDE DEF v
  <2> QED
    BY <1>1, <1>3, <1>5, <2>1, MonitorReadsOn DEF v
<1>6. CASE /\ p.amount > 1
           /\ \E tp1a \in BOOLEAN :
                task' = [task EXCEPT !["monitor"] = [pc |-> "price", snap |-> p, tp1a |-> tp1a]]
  <2>1. PICK b \in BOOLEAN : task' = [task EXCEPT !["monitor"] = [pc |-> "price", snap |-> p, tp1a |-> b]]
    BY <1>6
  <2> DEFINE v == [pc |-> "price", snap |-> p, tp1a |-> b]
  <2>2. v \in PartsBegun /\ v.pc = "price" /\ v.snap = p
    BY <1>2 DEF PartsBegun
  <2>3. v \in Shapes("monitor") /\ task' = [task EXCEPT !["monitor"] = v]
    BY <1>6, <2>1, <2>2 DEF Shapes, MonitorShapes
  <2> HIDE DEF v
  <2> QED
    BY <1>1, <1>3, <2>2, <2>3, MonitorReadsOn
<1> QED
  BY <1>4, <1>5, <1>6 DEF MonitorDecides

LEMMA PartialTooSmallAgrees ==
  ASSUME AgreesNow, PartialTooSmall, cause' = "none"
  PROVE  Agreed'
<1> DEFINE p == Monitor.snap
           done == [p EXCEPT !.tp1a = TRUE]
<1>1. Monitor.pc = "price" /\ "monitor" \in Tasks /\ UNCHANGED <<phase, held>>
  BY DEF PartialTooSmall, account, Tasks
<1>2. p \in OpenRecords
  BY <1>1, Now, ShapeOf, "monitor" # "signal" DEF Monitor, PartsBegun
<1>3. CASE /\ task' = [task EXCEPT !["monitor"] = [pc |-> "query", snap |-> p]]
           /\ UNCHANGED pos
  <2> DEFINE v == [pc |-> "query", snap |-> p]
  <2>1. v \in Shapes("monitor") /\ v.pc = "query" /\ v.snap = p
    BY <1>2 DEF Shapes, MonitorShapes, Queries
  <2> HIDE DEF v
  <2> QED
    BY <1>1, <1>3, <2>1, MonitorReadsOn DEF v, SamePosition
<1>4. CASE PutBack(done, p) /\ task' = [task EXCEPT !["monitor"] = Idle]
  <2>1. done \in OpenRecords /\ done.id = p.id /\ done.side = p.side /\ done.amount = p.amount
    BY <1>2 DEF OpenRecords
  <2>2. done \in Records /\ IsOpen(p)
    BY <1>2, <2>1 DEF Records, OpenRecords, IsOpen, NoPos
  <2> HIDE DEF done
  <2>3. SamePosition
    BY <1>4, <2>1, <2>2, WrittenBack, Now DEF SamePosition
  <2> QED
    BY <1>1, <1>4, <2>3, EndAgrees DEF Executing, AgreesNow, Monitor
<1> QED
  BY <1>3, <1>4 DEF PartialTooSmall

LEMMA PartialOrdersAgrees ==
  ASSUME AgreesNow, PartialOrders
  PROVE  Agreed'
<1> DEFINE p == Monitor.snap
           v == [pc |-> "order", kind |-> "partial", side |-> p.side, snap |-> p,
                 amount |-> 1, filled |-> 0, tries |-> 0, sends |-> 0, tp1a |-> Monitor.tp1a]
<1>1. /\ task' = [task EXCEPT !["monitor"] = v] /\ "monitor" \in Tasks /\ Monitor.pc = "price"
      /\ UNCHANGED <<phase, pos, held>>
  BY DEF PartialOrders, account, Tasks
<1>2. v \in Shapes("monitor")
  <2>1. Monitor \in PartsBegun /\ p.amount > 1 /\ p \in OpenRecords /\ Monitor.tp1a \in BOOLEAN
    BY <1>1, Now, ShapeOf, "monitor" # "signal" DEF Monitor, PartsBegun
  <2>2. p \in Records /\ IsOpen(p) /\ p.side \in Sides
    BY <2>1 DEF Records, OpenRecords, IsOpen, NoPos
  <2>3. v \in Orders /\ v.kind = "partial"
    BY <2>1, <2>2 DEF Orders, Sent, Kinds
  <2>4. OrderOK(v)
    BY <2>1, <2>2 DEF OrderOK
  <2> HIDE DEF v
  <2> QED
    BY <2>3, <2>4 DEF Shapes, MonitorShapes
<1>3. v.pc = "order" /\ v.kind = "partial" /\ v.snap = p
  OBVIOUS
<1> HIDE DEF v
<1> QED
  BY <1>1, <1>2, <1>3, MonitorReadsOn DEF SamePosition

(* A step of a task that has executed its order, and only goes on. *)
LEMMA AnsweredAgrees ==
  ASSUME AgreesNow, NEW t \in Tasks, NEW v \in Shapes(t), task' = [task EXCEPT ![t] = v],
         UNCHANGED <<phase, pos, held>>, task[t].pc \in {"reply", "ok"}, v.pc \in Executing,
         v.kind = task[t].kind, v.snap = task[t].snap, v.side = task[t].side, v.filled = task[t].filled,
         v.pc = "tier" => v.kind \in {"flip", "exit"}
  PROVE  Agreed'
<1>1. /\ task'[t] = v /\ task'[Beside(t)] = task[Beside(t)]
      /\ Beside(t) \in Tasks /\ Tasks = {t, Beside(t)}
  BY OneTask, Now
<1>2. \A u \in Tasks : ClosedBy(u)' <=> ClosedBy(u)
  BY <1>1 DEF ClosedBy, Executing
<1>3. Unwritten' = Unwritten
  BY <1>1 DEF Unwritten, Executing, Monitor, Beside, Tasks
<1>4. (EntryDone' <=> EntryDone) /\ (EntryDone => Signal'.side = Signal.side /\ Signal'.filled = Signal.filled)
  BY <1>1 DEF EntryDone, Executing, Signal, Beside, Tasks
<1>5. \A s : Recorded(s)' = Recorded(s)
  BY <1>2, <1>3 DEF Recorded
<1>6. Held'
  BY <1>4, <1>5, Now DEF Held
<1>7. EntersOther'
  BY <1>1, Now DEF EntersOther, Signal, Beside, Tasks, Sent, Executing
<1>8. LockOK'
  BY <1>1, Now DEF LockOK, Reads, Signal, Beside, Tasks, Follows, Sent, Executing
<1>9. \A u \in Tasks : ExecutedOK(u)'
  BY <1>1, Now DEF ExecutedOK, Executing
<1>10. \A u \in Tasks : ReadOK(u)'
  BY <1>1, Now DEF ReadOK, Reads, Follows, Sent, Executing
<1> QED
  BY <1>6, <1>7, <1>8, <1>9, <1>10 DEF Agreed, AgreesNow

LEMMA ReplyAgrees ==
  ASSUME AgreesNow, NEW t \in Tasks, Reply(t), cause' = "none"
  PROVE  Agreed'
<1>1. ~Untold(t)
  BY DEF Untold, Because
<1>2. PICK v \in Orders :
           /\ task' = [task EXCEPT ![t] = v] /\ v \in Shapes(t)
           /\ v.snap = task[t].snap /\ v.kind = task[t].kind /\ v.side = task[t].side
           /\ v.pc = "ok" /\ v.filled = task[t].filled
  BY <1>1, Replied, Now
<1>3. UNCHANGED <<phase, pos, held>> /\ task[t].pc = "reply"
  BY DEF Reply
<1> QED
  BY <1>2, <1>3, AnsweredAgrees DEF Executing

LEMMA BookingAgrees ==
  ASSUME AgreesNow, NEW t \in Tasks, ExitIsBooked(t) \/ (t = "signal" /\ FlipClosed)
  PROVE  Agreed'
<1>1. /\ task[t].pc = "ok" /\ task[t].kind \in {"flip", "exit"} /\ Go(t, "tier")
      /\ UNCHANGED <<phase, pos, held>>
  BY DEF ExitIsBooked, FlipClosed, Signal
<1>2. PICK v \in Orders :
           /\ task' = [task EXCEPT ![t] = v] /\ v \in Shapes(t) /\ v.pc = "tier"
           /\ v.snap = task[t].snap /\ v.kind = task[t].kind /\ v.filled = task[t].filled
           /\ v.side = task[t].side
  BY <1>1, GoMoves, Now DEF Sent
<1> QED
  BY <1>1, <1>2, AnsweredAgrees DEF Executing

(* An exit or a flip, under no cause, closes all that is held. *)
LEMMA ClosesAll ==
  ASSUME AgreesNow, NEW t \in Tasks, task[t].pc = "order", task[t].kind \in {"flip", "exit"},
         NEW q \in 1..Fillable(t), SendCause(t, q < Fillable(t)) = "none"
  PROVE  /\ IsOpen(pos) /\ pos.id = task[t].snap.id /\ pos.side = task[t].side
         /\ q = held[pos.side] /\ ~EntryDone
<1> DEFINE o == task[t]
<1>1. o \in Orders /\ OrderOK(o) /\ Reads(t) /\ o.snap \in OpenRecords /\ o.snap.id # 0
  BY Now, ShapeOf, SnapOf DEF Sent, Reads, Follows, OpenRecords
<1>2. pos.id = o.snap.id /\ ~(q < Fillable(t))
  BY DEF SendCause
<1>3. IsOpen(pos) /\ o.snap.side = pos.side /\ o.amount >= held[pos.side] /\ o.side = pos.side
  BY <1>1, <1>2, Now DEF ReadOK, IsOpen, NoPos, OrderOK
<1>4. held[pos.side] \in Nat /\ o.amount \in Nat /\ pos.side \in Sides
  BY <1>1, <1>3, Now DEF Orders
<1>5. Fillable(t) = held[pos.side]
  BY <1>3, <1>4 DEF Fillable, Least
<1>6. q = held[pos.side] /\ held[pos.side] > 0
  BY <1>2, <1>4, <1>5
<1>7. ~EntryDone
  BY <1>3, <1>4, <1>6, HeldSides
<1> QED
  BY <1>2, <1>3, <1>6, <1>7

(* The execution of an order, by what it was for. *)
LEMMA ExecutionAgrees ==
  ASSUME AgreesNow, NEW t \in Tasks, task[t].pc = "order", NEW q \in 1..Fillable(t), Executes(t, q),
         SendCause(t, q < Fillable(t)) = "none", UNCHANGED <<phase, pos>>
  PROVE  Agreed'
<1> DEFINE o == task[t]
<1>1. PICK v \in Orders :
           /\ task' = [task EXCEPT ![t] = v] /\ v \in Shapes(t) /\ v.pc = "reply" /\ v.filled = q
           /\ v.snap = o.snap /\ v.kind = o.kind /\ v.amount = o.amount
           /\ v.side = o.side /\ v.side \in Sides /\ held' \in [Sides -> Nat]
           /\ q \in Nat \ {0}
           /\ v.kind = "entry" => held'[v.side] = held[v.side] + q
           /\ v.kind # "entry" => held'[v.side] = held[v.side] - q /\ q <= held[v.side]
           /\ held'[Other(v.side)] = held[Other(v.side)]
  BY Executed, Now
<1>2. /\ task'[t] = v /\ task'[Beside(t)] = task[Beside(t)]
      /\ Beside(t) \in Tasks /\ Tasks = {t, Beside(t)} /\ Beside(t) # t
  BY <1>1, OneTask, Now
<1>0. Other(v.side) # v.side /\ \A s \in Sides : s = v.side \/ s = Other(v.side)
  BY <1>1, TwoSides
<1>3. o \in Orders /\ OrderOK(o) /\ v.kind \in Kinds /\ OrderOK(v)
      /\ v.kind \in IF t = "signal" THEN {"entry", "flip", "exit"} ELSE {"exit", "partial"}
  BY <1>1, Now, ShapeOf DEF Sent, Orders
<1>4. EntersOther' /\ LockOK'
  BY <1>1, <1>2, Now DEF EntersOther, LockOK, Reads, Follows, Sent, Signal, Beside, Tasks
<1>5. \A u \in Tasks : ExecutedOK(u)'
  BY <1>1, <1>2, Now DEF ExecutedOK
<1>6. IsOpen(pos) => held'[pos.side] <= held[pos.side] /\ held[pos.side] \in Nat /\ held'[pos.side] \in Nat
  <2> SUFFICES ASSUME IsOpen(pos) PROVE held'[pos.side] <= held[pos.side]
    BY <1>1, Now
  <2>1. pos.side \in Sides /\ held[pos.side] \in Nat
    BY Now
  <2>2. v.kind = "entry" => v.side # pos.side
    BY <1>1, <1>3, Now DEF EntersOther, Signal, Sent
  <2>3. pos.side = v.side \/ pos.side = Other(v.side)
    BY <1>1, <2>1, TwoSides
  <2> QED
    BY <1>1, <2>1, <2>2, <2>3
<1>7. ReadOK(Beside(t))'
  <2>1. Reads(Beside(t)) => task[Beside(t)].snap.id # 0 /\ (task[Beside(t)].pc \in Sent => task[Beside(t)].amount \in Nat)
    BY <1>2, SnapOf, ShapeOf, Now DEF Reads, OpenRecords, Orders
  <2>2. pos.id # 0 => IsOpen(pos)
    BY DEF IsOpen, NoPos
  <2>3. ReadOK(Beside(t))
    BY <1>2, Now
  <2> QED
    BY <1>2, <1>6, <2>1, <2>2, <2>3 DEF ReadOK, Reads, Sent
<1>8. ReadOK(t)'
  BY <1>1, <1>2, Now DEF ReadOK, Reads, Follows, Sent
<1>9. Held' => Agreed'
  BY <1>2, <1>4, <1>5, <1>7, <1>8 DEF Agreed, AgreesNow
<1>10. CASE v.kind = "entry"
  <2>1. t = "signal" /\ EntryDone' /\ Signal' = v
    BY <1>1, <1>2, <1>3, <1>10 DEF EntryDone, Signal, Tasks
  <2>2. held[v.side] = 0 /\ held[Other(v.side)] = 0
    <3>1. ~(Sum(held) > 0)
      BY <1>1, <1>10 DEF SendCause
    <3>2. held \in [Sides -> Nat]
      BY Now
    <3>3. held["LONG"] \in Nat /\ held["SHORT"] \in Nat /\ held["LONG"] = 0 /\ held["SHORT"] = 0
      BY <3>1, <3>2 DEF Sum, Sides
    <3> QED
      BY <1>1, <3>3, TwoSides DEF Sides
  <2> QED
    <3>1. \A s \in Sides : held'[s] = IF s = v.side THEN v.filled ELSE 0
      BY <1>0, <1>1, <1>10, <2>2
    <3> QED
      BY <1>9, <2>1, <3>1 DEF Held
<1>11. CASE v.kind \in {"flip", "exit"}
  <2>1. IsOpen(pos) /\ pos.id = v.snap.id /\ pos.side = v.side /\ q = held[pos.side] /\ ~EntryDone
    BY <1>1, <1>11, ClosesAll
  <2>2. ClosedBy(t)' /\ ~EntryDone'
    BY <1>1, <1>2, <1>11, <2>1 DEF ClosedBy, EntryDone, Signal, Beside, Tasks
  <2>3. held'[v.side] = 0 /\ held'[Other(v.side)] = 0
    BY <1>1, <1>11, <2>1, HeldSides, TwoSides
  <2>4. \A s \in Sides : Recorded(s)' = 0
    BY <2>2 DEF Recorded
  <2> QED
    <3>1. \A s \in Sides : held'[s] = Recorded(s)'
      BY <1>0, <2>3, <2>4
    <3> QED
      BY <1>9, <2>2, <3>1 DEF Held
<1>12. CASE v.kind = "partial"
  <2>1. t = "monitor" /\ Monitor' = v /\ Signal' = Signal /\ Monitor.pc = "order"
    BY <1>1, <1>2, <1>3, <1>12 DEF Signal, Monitor, Beside, Tasks
  <2>2. pos.id = v.snap.id /\ q = 1
    <3>1. q <= v.amount /\ v.amount = 1
      BY <1>1, <1>3, <1>12 DEF OrderOK
    <3> QED
      BY <1>1, <1>12, <3>1 DEF SendCause
  <2>3. IsOpen(pos) /\ pos.side = v.side
    <3>1. Reads(t) /\ ReadOK(t) /\ v.snap.id # 0
      BY <1>1, <1>12, Now, SnapOf DEF Reads, Follows, Sent, OpenRecords
    <3> QED
      BY <1>1, <1>3, <1>12, <2>2, <3>1, Now DEF ReadOK, OrderOK, IsOpen, NoPos
  <2>4. Unwritten = 0 /\ Unwritten' = 1
    BY <1>1, <1>12, <2>1, <2>2 DEF Unwritten
  <2>5. held[pos.side] > 0 /\ held[pos.side] \in Nat
    BY <1>1, <1>6, <1>12, <2>2, <2>3
  <2>6. ~EntryDone /\ ~(\E u \in Tasks : ClosedBy(u)) /\ held[pos.side] = pos.amount
    BY <2>3, <2>4, <2>5, HeldSides, Now
  <2>7. ~EntryDone' /\ ~(\E u \in Tasks : ClosedBy(u)')
    BY <1>1, <1>2, <1>12, <2>1, <2>6 DEF EntryDone, ClosedBy
  <2>8. held'[v.side] = pos.amount - 1 /\ held'[Other(v.side)] = 0
    BY <1>1, <1>12, <2>2, <2>3, <2>6, HeldSides, TwoSides
  <2>9. \A s \in Sides : Recorded(s)' = IF s = v.side THEN pos.amount - 1 ELSE 0
    BY <2>3, <2>4, <2>7 DEF Recorded
  <2>10. \A s \in Sides : held'[s] = Recorded(s)'
    BY <1>0, <2>8, <2>9
  <2> QED
    BY <1>9, <2>7, <2>10 DEF Held
<1> QED
  BY <1>3, <1>10, <1>11, <1>12 DEF Kinds

LEMMA SendOrderAgrees ==
  ASSUME AgreesNow, NEW t \in Tasks, SendOrder(t), cause' = "none"
  PROVE  Agreed'
<1>1. task[t].pc = "order" /\ UNCHANGED <<phase, pos>>
  BY DEF SendOrder
<1>2. CASE \E q \in 1..Fillable(t) : Executes(t, q) /\ Because(SendCause(t, q < Fillable(t)))
  <2>1. PICK q \in 1..Fillable(t) : Executes(t, q) /\ Because(SendCause(t, q < Fillable(t)))
    BY <1>2
  <2>2. SendCause(t, q < Fillable(t)) \in Causes /\ cause \in Causes
    BY Books, Now DEF SendCause, Causes
  <2>3. SendCause(t, q < Fillable(t)) = "none"
    BY <2>1, <2>2, CauseIs
  <2> QED
    BY <1>1, <2>1, <2>3, ExecutionAgrees
<1>3. CASE Go(t, "raised") /\ UNCHANGED held
  <2>1. PICK v \in Orders :
           /\ task' = [task EXCEPT ![t] = v] /\ v \in Shapes(t) /\ v.pc = "raised"
           /\ v.snap = task[t].snap /\ v.kind = task[t].kind /\ v.amount = task[t].amount
           /\ v.side = task[t].side
    BY <1>1, <1>3, GoMoves, Now DEF Sent
  <2>2. task[t].pc \notin Executing /\ v.pc \notin Executing /\ phase' # "starting" /\ SamePosition
    BY <1>1, <2>1 DEF Executing, AgreesNow, SamePosition
  <2>3. Follows(v) <=> Reads(t)
    BY <1>1, <2>1 DEF Follows, Reads, Sent
  <2>4. Follows(v) /\ v.snap.id = pos.id =>
            /\ v.snap.side = pos.side /\ v.snap.amount >= pos.amount
            /\ v.kind # "partial" => v.amount >= held[pos.side]
    BY <1>1, <2>1, <2>3, Now DEF ReadOK
  <2>5. t = "signal" /\ IsOpen(pos) =>
            /\ v.kind = "entry" => pos.side # v.side
            /\ Follows(v) => pos.id = v.snap.id
    BY <1>1, <2>1, <2>3, Now DEF EntersOther, LockOK, Signal, Sent
  <2> QED
    BY <1>3, <2>1, <2>2, <2>4, <2>5, QuietAgrees
<1> QED
  BY <1>2, <1>3 DEF SendOrder, account

(* The record of a position that is closed goes. *)
LEMMA RemovalAgrees ==
  ASSUME AgreesNow, NEW t \in Tasks, NEW v, task' = [task EXCEPT ![t] = v], UNCHANGED <<phase, held>>,
         task[t].pc = "tier", task[t].kind \in {"flip", "exit"}, v.pc \in {"done", "entry"}, pos' = NoPos,
         ~IsOpen(pos) \/ pos.id = task[t].snap.id
  PROVE  Agreed'
<1>1. /\ task'[t] = v /\ task'[Beside(t)] = task[Beside(t)]
      /\ Beside(t) \in Tasks /\ Tasks = {t, Beside(t)}
  BY OneTask, Now
<1>2. ~IsOpen(pos') /\ pos'.id = 0 /\ phase' # "starting"
  BY DEF IsOpen, NoPos, AgreesNow
<1>3. \A s \in Sides : Recorded(s)' = 0
  BY <1>2 DEF Recorded
<1>4. IsOpen(pos) => ClosedBy(t)
  BY DEF ClosedBy
<1>5. ~EntryDone => \A s \in Sides : held[s] = 0
  <2>1. \A s \in Sides : Recorded(s) = 0
    BY <1>4 DEF Recorded
  <2> QED
    BY <2>1, Now DEF Held
<1>6. (EntryDone' <=> EntryDone) /\ (EntryDone => Signal' = Signal)
  BY <1>1 DEF EntryDone, Signal, Beside, Tasks
<1>7. Held'
  BY <1>3, <1>5, <1>6, Now DEF Held
<1>8. EntersOther' /\ LockOK'
  BY <1>2 DEF EntersOther, LockOK
<1>9. \A u \in Tasks : ExecutedOK(u)'
  BY <1>1, Now DEF ExecutedOK
<1>10. \A u \in Tasks : ReadOK(u)'
  <2>1. Reads(Beside(t)) => task[Beside(t)].snap.id # 0
    BY <1>1, SnapOf, Now DEF Reads, OpenRecords
  <2> QED
    BY <1>1, <1>2, <2>1 DEF ReadOK, Reads, Follows, Sent
<1> QED
  BY <1>2, <1>7, <1>8, <1>9, <1>10 DEF Agreed

LEMMA FlipRemovesAgrees ==
  ASSUME AgreesNow, FlipRemoves, cause' = "none"
  PROVE  Agreed'
<1> DEFINE v == [pc |-> "entry", side |-> Other(Signal.snap.side)]
<1>1. /\ task' = [task EXCEPT !["signal"] = v] /\ "signal" \in Tasks
      /\ Signal.pc = "tier" /\ Signal.kind = "flip" /\ DropRecord(Signal.snap)
      /\ UNCHANGED <<phase, held>> /\ v.pc = "entry"
  BY DEF FlipRemoves, EntersNext, account, Tasks
<1>2. pos' = NoPos /\ (~IsOpen(pos) \/ pos.id = Signal.snap.id)
  BY <1>1, Dropped, Now
<1> HIDE DEF v
<1> QED
  BY <1>1, <1>2, RemovalAgrees DEF Signal

LEMMA ExitRemovesAgrees ==
  ASSUME AgreesNow, NEW t \in Tasks, ExitRemoves(t), cause' = "none"
  PROVE  Agreed'
<1>1. /\ task' = [task EXCEPT ![t] = Idle] /\ task[t].pc = "tier" /\ task[t].kind = "exit"
      /\ DropRecord(task[t].snap) /\ UNCHANGED <<phase, held>> /\ Idle.pc = "done"
  BY DEF ExitRemoves, account, Idle
<1>2. pos' = NoPos /\ (~IsOpen(pos) \/ pos.id = task[t].snap.id)
  BY <1>1, Dropped, Now
<1> QED
  BY <1>1, <1>2, RemovalAgrees

LEMMA EnteredAgrees ==
  ASSUME AgreesNow, Entered
  PROVE  Agreed'
<1> DEFINE p == NewPos(nextId + 1, Signal.side, Signal.filled)
<1>1. /\ "signal" \in Tasks /\ task' = [task EXCEPT !["signal"] = Idle] /\ Idle.pc = "done"
      /\ Signal.pc = "ok" /\ Signal.kind = "entry" /\ Signal.filled > 0 /\ EntryDone
      /\ pos' = p /\ UNCHANGED <<phase, held>>
  BY DEF Entered, account, Tasks, Idle, EntryDone
<1>2. /\ Signal' = Idle /\ Monitor' = Monitor /\ task'["signal"] = Idle /\ task'["monitor"] = task["monitor"]
      /\ Tasks = {"signal", "monitor"}
  BY <1>1, OneTask, Now DEF Signal, Monitor, Beside, Tasks
<1>3. pos'.id = nextId + 1 /\ pos'.side = Signal.side /\ pos'.amount = Signal.filled /\ Signal.side \in Sides
  BY <1>1, ShapeOf, Now DEF NewPos, Signal, Sent, Orders
<1>4. IsOpen(pos') /\ nextId \in Nat /\ phase' # "starting"
  <2>1. nextId \in Nat
    BY Books, Now
  <2> QED
    BY <1>1, <1>3, <2>1 DEF IsOpen, NoPos, AgreesNow
<1>5. \A u \in Tasks : Follows(task[u]) => task[u].snap.id # nextId + 1
  <2> SUFFICES ASSUME NEW u \in Tasks, Follows(task[u]) PROVE task[u].snap.id # nextId + 1
    OBVIOUS
  <2>1. task[u].snap.id \in Nat /\ task[u].snap.id <= nextId
    BY SnapOf, Books, Now
  <2> QED
    BY <1>4, <2>1
<1>6. ~EntryDone' /\ \A u \in Tasks : ~ClosedBy(u)'
  BY <1>1, <1>2, <1>3, <1>5 DEF EntryDone, ClosedBy, Follows, Sent
<1>7. Unwritten' = 0
  BY <1>2, <1>3, <1>5 DEF Unwritten, Monitor, Follows, Sent
<1>8. Signal.filled \in Nat
  BY <1>1, ShapeOf, Now DEF Signal, Sent, Orders
<1>9. \A s \in Sides : Recorded(s)' = IF s = Signal.side THEN Signal.filled ELSE 0
  BY <1>3, <1>4, <1>6, <1>7, <1>8 DEF Recorded
<1>10. Held'
  <2>1. \A s \in Sides : held'[s] = Recorded(s)'
    BY <1>1, <1>9, Now DEF Held
  <2> QED
    BY <1>6, <2>1 DEF Held
<1>11. EntersOther' /\ LockOK'
  BY <1>1, <1>2 DEF EntersOther, LockOK, Reads, Follows, Sent
<1>12. \A u \in Tasks : ExecutedOK(u)'
  BY <1>1, <1>2, Now DEF ExecutedOK
<1>13. \A u \in Tasks : ReadOK(u)'
  BY <1>1, <1>2, <1>3, <1>5 DEF ReadOK, Reads, Follows
<1> QED
  BY <1>4, <1>10, <1>11, <1>12, <1>13 DEF Agreed

LEMMA PartialIsBookedAgrees ==
  ASSUME AgreesNow, PartialIsBooked, cause' = "none"
  PROVE  Agreed'
<1> DEFINE p == Monitor.snap
           rest == [p EXCEPT !.amount = @ - Monitor.filled, !.tp1a = Monitor.tp1a]
<1>1. /\ Monitor.pc = "ok" /\ Monitor.kind = "partial" /\ Monitor.filled > 0 /\ "monitor" \in Tasks
      /\ PutBack(rest, p) /\ task' = [task EXCEPT !["monitor"] = Idle] /\ Idle.pc = "done"
      /\ UNCHANGED <<phase, held>>
  BY DEF PartialIsBooked, Tasks, Idle
<1>2. /\ Signal' = Signal /\ Monitor' = Idle /\ task'["monitor"] = Idle /\ task'["signal"] = task["signal"]
      /\ Tasks = {"signal", "monitor"}
  BY <1>1, OneTask, Now DEF Signal, Monitor, Beside, Tasks
<1>3. Monitor \in Orders /\ OrderOK(Monitor) /\ p \in OpenRecords
  BY <1>1, Now, ShapeOf, SnapOf DEF Monitor, Follows, Sent
<1>4. p.amount - Monitor.filled \in Nat \ {0} /\ Monitor.tp1a \in BOOLEAN /\ p.amount \in Nat /\ Monitor.filled \in Nat
  BY <1>1, <1>3 DEF OrderOK, Orders, OpenRecords
<1>5. rest \in OpenRecords /\ rest.id = p.id /\ rest.side = p.side /\ rest.amount = p.amount - Monitor.filled
  BY <1>3, <1>4 DEF OpenRecords
<1>6. rest \in Records /\ IsOpen(p) /\ IsOpen(rest)
  BY <1>3, <1>5 DEF Records, OpenRecords, IsOpen, NoPos
<1>7. pos = p /\ pos' = rest
  BY <1>1, <1>6, WrittenBack, Now
<1> HIDE DEF rest
<1>8. Unwritten = Monitor.filled /\ Unwritten' = 0
  BY <1>1, <1>2, <1>7 DEF Unwritten
<1>9. (EntryDone' <=> EntryDone) /\ \A u \in Tasks : ClosedBy(u)' <=> ClosedBy(u)
  BY <1>1, <1>2, <1>5, <1>7 DEF EntryDone, ClosedBy, Monitor
<1>10. \A s \in Sides : Recorded(s)' = Recorded(s)
  BY <1>4, <1>5, <1>6, <1>7, <1>8, <1>9 DEF Recorded
<1>11. Held'
  BY <1>1, <1>2, <1>9, <1>10, Now DEF Held
<1>12. EntersOther' /\ LockOK'
  BY <1>2, <1>5, <1>6, <1>7, Now DEF EntersOther, LockOK, Reads, Signal
<1>13. \A u \in Tasks : ExecutedOK(u)'
  BY <1>1, <1>2, Now DEF ExecutedOK
<1>14. ReadOK("monitor")'
  BY <1>1, <1>2 DEF ReadOK, Reads, Follows
<1>15. ReadOK("signal")'
  <2>1. ReadOK("signal")
    BY Now, <1>2
  <2>2. Reads("signal") => task["signal"].snap.amount \in Nat
    BY SnapOf, Now, <1>2 DEF Reads
  <2> QED
    BY <1>1, <1>2, <1>4, <1>5, <1>7, <2>1, <2>2 DEF ReadOK, Reads
<1>16. phase' # "starting"
  BY <1>1 DEF AgreesNow
<1> QED
  BY <1>2, <1>11, <1>12, <1>13, <1>14, <1>15, <1>16 DEF Agreed

LEMMA StartTickAgrees ==
  ASSUME AgreesNow, StartTick
  PROVE  Agreed'
<1> DEFINE v == IF IsOpen(pos) THEN [pc |-> "fetch", snap |-> pos] ELSE Idle
<1>1. /\ phase = "idle" /\ phase' = "busy" /\ "monitor" \in Tasks
      /\ task' = [task EXCEPT !["monitor"] = v] /\ UNCHANGED <<pos, held>>
  BY DEF StartTick, account, Tasks
<1>2. IsOpen(pos) => pos \in OpenRecords /\ pos.amount \in Nat
  BY Now
<1>3. v \in Shapes("monitor") /\ v.pc \notin Executing /\ v.pc \notin Sent
  BY <1>2 DEF Shapes, MonitorShapes, Fetches, Idle, Executing, Sent
<1>4. Follows(v) => v.snap = pos /\ IsOpen(pos)
  BY DEF Follows, Idle
<1>5. task["monitor"].pc \notin Executing
  BY <1>1 DEF AgreesNow, BookedInv, TypeInv, AtRest, Idle, Executing
<1>6. v.pc \notin {"order", "raised"} /\ SamePosition
  BY <1>1, <1>3 DEF SamePosition, Sent
<1> HIDE DEF v
<1>7. Follows(v) => v.snap.side = pos.side /\ v.snap.amount >= pos.amount
  BY <1>2, <1>4
<1> QED
  BY <1>1, <1>3, <1>5, <1>6, <1>7, QuietAgrees, "monitor" # "signal"

(* Nothing changes of the record, the account and the tasks. *)
LEMMA StillAgrees ==
  ASSUME Agreed, UNCHANGED <<pos, held, task>>, phase' = "starting" <=> phase = "starting"
  PROVE  Agreed'
<1>1. Signal' = Signal /\ Monitor' = Monitor
  BY DEF Signal, Monitor
<1>2. /\ EntryDone' <=> EntryDone
      /\ \A s : Recorded(s)' = Recorded(s)
      /\ Restored' <=> Restored
  BY <1>1 DEF EntryDone, Recorded, ClosedBy, Unwritten, Restored, Known
<1>3. (Held' <=> Held) /\ (EntersOther' <=> EntersOther) /\ (LockOK' <=> LockOK)
  BY <1>1, <1>2 DEF Held, EntersOther, LockOK, Reads
<1>4. \A u \in Tasks : (ReadOK(u)' <=> ReadOK(u)) /\ (ExecutedOK(u)' <=> ExecutedOK(u))
  BY <1>1 DEF ReadOK, Reads, ExecutedOK
<1> QED
  BY <1>2, <1>3, <1>4 DEF Agreed

LEMMA EndTickAgrees ==
  ASSUME Agreed, EndTick
  PROVE  Agreed'
<1>1. UNCHANGED <<pos, held, task>> /\ phase = "busy" /\ phase' = "idle"
  BY DEF EndTick, account
<1> QED
  BY <1>1, StillAgrees

LEMMA IdleAgrees ==
  ASSUME Agreed, (\E a \in Actions : NewSignal(a)) \/ WindowPasses \/ DayPasses \/ UNCHANGED vars
  PROVE  Agreed'
<1>1. UNCHANGED <<phase, pos, held, task>>
  BY DEF NewSignal, WindowPasses, DayPasses, vars, account
<1> QED
  BY <1>1, StillAgrees

LEMMA CrashAgrees ==
  ASSUME BookedInv, Crash, cause' = "none"
  PROVE  Agreed'
<1> DEFINE c == IF \E s \in Sides : held[s] > 0 /\ ~Known(file, s) THEN "unsaved" ELSE "none"
<1>1. phase' = "starting" /\ pos' = Loaded(file) /\ UNCHANGED held
  BY DEF Crash
<1>2. Because(c) /\ c \in Causes
  BY DEF Crash, Causes
<1>3. c = "none"
  BY <1>2, CauseIs, Books
<1>4. \A s \in Sides : held[s] > 0 => Known(file, s)
  BY <1>3
<1>5. \A s \in Sides : Known(file, s) => Known(pos', s)
  <2> SUFFICES ASSUME NEW s \in Sides, Known(file, s) PROVE Known(pos', s)
    OBVIOUS
  <2>1. file \in OpenRecords /\ IsOpen(file) /\ file.side = s
    BY Books, OpenIsRecord DEF Known
  <2>2. pos' = [file EXCEPT !.amount = Least(file.amount, file.initial)]
    BY <1>1, <2>1 DEF Loaded
  <2>3. Least(file.amount, file.initial) \in Nat \ {0}
    BY <2>1 DEF OpenRecords, Least
  <2>4. pos' \in OpenRecords /\ pos'.side = s
    BY <2>1, <2>2, <2>3 DEF OpenRecords
  <2> QED
    BY <2>4 DEF Known, IsOpen, NoPos, OpenRecords
<1>6. Restored'
  BY <1>1, <1>4, <1>5 DEF Restored
<1> QED
  BY <1>1, <1>6 DEF Agreed

(* Nothing is under way at rest: what is held is what the record says. *)
LEMMA RestAgrees ==
  ASSUME phase # "starting", AtRest, held \in [Sides -> Nat], pos \in Records
  PROVE  /\ Agreed <=> Held
         /\ Held <=> \A s \in Sides : held[s] = IF IsOpen(pos) /\ pos.side = s THEN pos.amount ELSE 0
<1>1. /\ \A t \in Tasks : task[t] = Idle /\ ~Reads(t)
      /\ Signal = Idle /\ Monitor = Idle /\ Idle.pc = "done" /\ Tasks = {"signal", "monitor"}
  BY DEF AtRest, Signal, Monitor, Tasks, Idle, Reads, Follows
<1>2. ~EntryDone /\ (\A t \in Tasks : ~ClosedBy(t)) /\ Unwritten = 0
  BY <1>1 DEF EntryDone, ClosedBy, Unwritten
<1>3. IsOpen(pos) => pos.amount \in Nat
  BY OpenIsRecord DEF OpenRecords
<1>4. \A s : Recorded(s) = IF IsOpen(pos) /\ pos.side = s THEN pos.amount ELSE 0
  BY <1>2, <1>3 DEF Recorded
<1>5. EntersOther /\ LockOK /\ \A t \in Tasks : ReadOK(t) /\ ExecutedOK(t)
  BY <1>1 DEF EntersOther, LockOK, ReadOK, ExecutedOK, Sent
<1> QED
  BY <1>2, <1>4, <1>5 DEF Agreed, Held

LEMMA ReconcileAgrees ==
  ASSUME BookedInv, BookedInv', Agreed, Reconcile, cause' = "none"
  PROVE  Agreed'
<1>1. /\ phase = "starting" /\ phase' = "idle" /\ AtRest /\ AtRest'
      /\ UNCHANGED <<task, held>> /\ Restored
  BY DEF Reconcile, account, BookedInv, TypeInv, AtRest, Agreed
<1>2. held \in [Sides -> Nat] /\ pos \in Records /\ pos' \in Records
  BY Books DEF BookedInv, TypeInv, TypeOK
<1>3. SUFFICES \A s \in Sides : held[s] = IF IsOpen(pos') /\ pos'.side = s THEN pos'.amount ELSE 0
  <2>1. phase' # "starting" /\ held' \in [Sides -> Nat]
    BY <1>1, <1>2
  <2>2. /\ \A t \in Tasks : task'[t] = Idle /\ ~Reads(t)'
        /\ Signal' = Idle /\ Monitor' = Idle /\ Idle.pc = "done" /\ Tasks = {"signal", "monitor"}
    BY <1>1 DEF AtRest, Signal, Monitor, Tasks, Idle, Reads, Follows
  <2>3. ~EntryDone' /\ (\A t \in Tasks : ~ClosedBy(t)') /\ Unwritten' = 0
    BY <2>2 DEF EntryDone, ClosedBy, Unwritten
  <2>4. IsOpen(pos') => pos'.amount \in Nat
    BY <1>2, OpenIsRecord DEF OpenRecords
  <2>5. \A s : Recorded(s)' = IF IsOpen(pos') /\ pos'.side = s THEN pos'.amount ELSE 0
    BY <2>3, <2>4 DEF Recorded
  <2>6. Held'
    <3>1. \A s \in Sides : held'[s] = Recorded(s)'
      BY <1>1, <1>3, <2>5
    <3> QED
      BY <2>3, <3>1 DEF Held
  <2>7. EntersOther' /\ LockOK' /\ \A t \in Tasks : ReadOK(t)' /\ ExecutedOK(t)'
    BY <2>2 DEF EntersOther, LockOK, ReadOK, ExecutedOK, Sent
  <2> QED
    BY <2>1, <2>6, <2>7 DEF Agreed
<1>4. CASE ~IsOpen(pos) /\ UNCHANGED pos
  BY <1>1, <1>2, <1>4 DEF Restored, Known
<1>5. CASE IsOpen(pos) /\ Sum(held) = 0 /\ pos' = NoPos
  <2>1. held["LONG"] \in Nat /\ held["SHORT"] \in Nat
    BY <1>2 DEF Sides
  <2>2. \A s \in Sides : held[s] = 0
    BY <1>5, <2>1 DEF Sum, Sides
  <2> QED
    BY <1>5, <2>2 DEF IsOpen
<1>6. CASE IsOpen(pos) /\ \E s \in Sides : held[s] > 0 /\ pos' = [pos EXCEPT !.amount = held[s]]
  <2>1. PICK s \in Sides : held[s] > 0 /\ pos' = [pos EXCEPT !.amount = held[s]]
    BY <1>6
  <2>2. held[s] \in Nat \ {0} /\ pos \in OpenRecords
    BY <1>2, <1>6, <2>1, OpenIsRecord
  <2>3. pos' \in OpenRecords /\ pos'.side = pos.side /\ pos'.amount = held[s]
    BY <2>1, <2>2 DEF OpenRecords
  <2>4. IsOpen(pos')
    BY <2>3 DEF OpenRecords, IsOpen, NoPos
  <2>5. pos.side = s /\ \A x \in Sides : x # s => ~(held[x] > 0)
    BY <1>1, <2>1 DEF Restored, Known
  <2> QED
    BY <1>2, <2>3, <2>4, <2>5
<1>7. CASE Because("unasked")
  BY <1>7 DEF Because
<1> QED
  BY <1>4, <1>5, <1>6, <1>7 DEF Reconcile

LEMMA InitAgrees ==
  ASSUME Init
  PROVE  Agreed
<1>1. phase = "starting" /\ file = pos /\ held = [s \in Sides |-> IF Known(file, s) THEN Qty ELSE 0]
  BY DEF Init
<1>2. Restored
  BY <1>1 DEF Restored
<1> QED
  BY <1>1, <1>2 DEF Agreed

LEMMA TaskAgrees ==
  ASSUME AgreesNow, NEW t \in Tasks, TaskNext(t), cause' = "none"
  PROVE  Agreed'
  BY SendOrderAgrees, ReplyAgrees, ExitQueriesAgrees, ExitRetriesAgrees, BookingAgrees,
     ExitRemovesAgrees DEF TaskNext

(* The first cause stays. *)
LEMMA CauseStays ==
  ASSUME BookedInv, [Next]_vars, cause' = "none"
  PROVE  cause = "none"
<1>1. ASSUME NEW c, Because(c) PROVE cause = "none"
  BY <1>1 DEF Because
<1>2. CASE UNCHANGED cause
  BY <1>2
<1>3. CASE RunNext
  BY <1>1, <1>2, <1>3 DEF RunNext, StartTick, EndTick, Reconcile
<1>4. ASSUME NEW t \in Tasks, TaskNext(t) PROVE cause = "none"
  BY <1>1, <1>2, <1>4 DEF TaskNext, SendOrder, Reply, Untold, ExitQueries, ExitRetries, ExitIsBooked, ExitRemoves, DropRecord
<1>5. CASE SignalNext
  BY <1>1, <1>2, <1>4, <1>5 DEF SignalNext, TakeSignal, FlipCloses, FlipClosed, FlipRemoves, FlipFails,
     EntryIsRejected, EntryOrders, Entered, EntryFails, DropRecord, Tasks
<1>6. CASE MonitorNext
  BY <1>1, <1>2, <1>4, <1>6 DEF MonitorNext, MonitorSkips, MonitorDecides, PartialStops, PartialTooSmall,
     PartialOrders, PartialFails, PartialIsBooked, PutBack, Tasks
<1> QED
  BY <1>1, <1>2, <1>3, <1>5, <1>6 DEF Next, NewSignal, WindowPasses, DayPasses, Crash, vars

LEMMA NextAgrees ==
  ASSUME BooksInv, [Next]_vars
  PROVE  BooksInv'
<1>1. BookedInv'
  BY NextBooked DEF BooksInv
<1>2. SUFFICES ASSUME cause' = "none" PROVE Agreed'
  BY <1>1 DEF BooksInv
<1>3. BookedInv /\ Agreed
  BY <1>2, CauseStays DEF BooksInv
<1>4. phase # "starting" => AgreesNow
  BY <1>3 DEF AgreesNow
<1>5. "signal" \in Tasks /\ "monitor" \in Tasks
  BY DEF Tasks
<1>6. CASE RunNext
  <2>1. CASE StartTick
    BY <1>4, <2>1, StartTickAgrees DEF StartTick
  <2> QED
    BY <1>1, <1>3, <1>6, <2>1, EndTickAgrees, ReconcileAgrees, <1>2 DEF RunNext
<1>7. CASE SignalNext
  <2>1. task["signal"].pc # "done" \/ waiting # <<>>
    BY <1>7 DEF SignalNext, TakeSignal, FlipCloses, FlipClosed, FlipRemoves, FlipFails, EntryIsRejected,
       EntryOrders, Entered, EntryFails, TaskNext, SendOrder, Reply, ExitQueries, ExitRetries, ExitIsBooked,
       ExitRemoves, Signal
  <2>2. AgreesNow
    BY <1>3, <1>4, <1>5, <2>1 DEF BookedInv, TypeInv, AtRest, Idle
  <2> QED
    BY <1>2, <1>5, <1>7, <2>2, TakeSignalAgrees, FlipClosesAgrees, BookingAgrees, FlipRemovesAgrees,
       FlipFailsAgrees, EntryEndsAgrees, EntryOrdersAgrees, EnteredAgrees, TaskAgrees DEF SignalNext
<1>8. CASE MonitorNext
  <2>1. task["monitor"].pc # "done"
    BY <1>8 DEF MonitorNext, MonitorSkips, MonitorDecides, PartialStops, PartialTooSmall, PartialOrders,
       PartialFails, PartialIsBooked, TaskNext, SendOrder, Reply, ExitQueries, ExitRetries, ExitIsBooked,
       ExitRemoves, Monitor
  <2>2. AgreesNow
    BY <1>3, <1>4, <1>5, <2>1 DEF BookedInv, TypeInv, AtRest, Idle
  <2> QED
    BY <1>2, <1>5, <1>8, <2>2, MonitorEndsAgrees, MonitorDecidesAgrees, PartialTooSmallAgrees,
       PartialOrdersAgrees, PartialIsBookedAgrees, TaskAgrees DEF MonitorNext
<1>9. CASE (\E a \in Actions : NewSignal(a)) \/ WindowPasses \/ DayPasses \/ UNCHANGED vars
  BY <1>3, <1>9, IdleAgrees
<1>10. CASE Crash
  BY <1>2, <1>3, <1>10, CrashAgrees
<1> QED
  BY <1>6, <1>7, <1>8, <1>9, <1>10 DEF Next
(* Type correctness of the records, the tasks and the account: whatever   *)
(* raced or failed, no amount is negative and every order still knows what *)
(* it was made for.                                                        *)
THEOREM TypeCorrect == Spec => []TypeOK
<1>1. Init => BookedInv
  BY InitBooked
<1>2. BookedInv /\ [Next]_vars => BookedInv'
  BY NextBooked
<1>3. BookedInv => TypeOK
  BY DEF BookedInv, TypeInv
<1> QED
  BY <1>1, <1>2, <1>3, PTL DEF Spec

(* Every amount that the exchange closed is booked once, for any amount    *)
(* and any number of refused, short or lost orders and of restarts: what   *)
(* _exit_position, the flip and the partial close book is what is filled.  *)
THEOREM ClosesBooked == Spec => []EveryCloseIsBooked
<1>1. Init => BookedInv
  BY InitBooked
<1>2. BookedInv /\ [Next]_vars => BookedInv'
  BY NextBooked
<1>3. BookedInv => EveryCloseIsBooked
  BY DEF BookedInv
<1> QED
  BY <1>1, <1>2, <1>3, PTL DEF Spec

(* The books agree with the account: whatever the order in which signals   *)
(* and the monitor run, between two ticks the record says what is held,    *)
(* unless one of the eight causes has come up.                             *)
THEOREM RecordAgrees == Spec => []BooksAgree
<1>1. Init => BooksInv
  BY InitBooked, InitAgrees DEF BooksInv
<1>2. BooksInv /\ [Next]_vars => BooksInv'
  BY NextAgrees
<1>3. BooksInv => BooksAgree
  <2> SUFFICES ASSUME BooksInv, phase = "idle", cause = "none"
               PROVE  \A s \in Sides : held[s] = IF IsOpen(pos) /\ pos.side = s THEN pos.amount ELSE 0
    BY DEF BooksAgree
  <2>1. AtRest /\ Agreed /\ BookedInv
    BY DEF BooksInv, BookedInv, TypeInv
  <2> QED
    BY <2>1, RestAgrees, Books
<1> QED
  BY <1>1, <1>2, <1>3, PTL DEF Spec
=============================================================================
