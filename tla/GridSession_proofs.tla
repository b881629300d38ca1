------------------------- MODULE GridSession_proofs -------------------------
(***************************************************************************)
(* Proofs about GridSession for every value of its constants: grid, prices,*)
(* number of orders and set of events.                                     *)
(*                                                                         *)
(* 1. Type correctness, with webhook requests, crashes and either exchange.*)
(* 2. Whatever runs beside the loop, on either exchange: of the orders the *)
(*    store shows as final only the remainder of a partial fill rests      *)
(*    there, and an active session forgets none of its open orders.        *)
(* 3. A simulated session that runs by itself (Simulated): a filled order  *)
(*    gets one counter-order.                                              *)
(* 4. The same with the default stop policy (Tidy): the two books agree, a *)
(*    stopped session leaves no order, final records stay as they are.     *)
(* 5. The same without refused placements and dropped lots (Reliable): the *)
(*    inventory is the one the open orders would close.                    *)
(* 6. The same without refused placements (Whole): the ladder of orders    *)
(*    keeps its shape.                                                     *)
(*                                                                         *)
(* The inductive invariants are TypeInv; GoneInv, ListInv and TrackInv of  *)
(* part 2; and OnceInv, BooksInv, StockInv, ShapeInv, each of which rests  *)
(* on TypeInv, GoneInv and the ones before it, but ShapeInv not on         *)
(* StockInv.                                                               *)
(***************************************************************************)
EXTENDS GridSession, FiniteSetTheorems, TLAPS

(* A resting live order has a trade left to make. *)
TradesLeft == \A o \in Id : ord[o].ex = "open" => ord[o].trades < MaxTrades

(* While a fill is being handled, the loop knows which order it is. *)
CurrentFill == pc[Loop] \in {"logging", "closing", "adding"} => fr[Loop].cur \in Id

(* TypeOK in parts: the flags, the rest of the session, what is outside it, *)
(* the orders, and the tasks.                                               *)
FlagsOK ==
    /\ isActive \in BOOLEAN
    /\ cash \in BOOLEAN
    /\ hasFills \in BOOLEAN
    /\ reinvested \in BOOLEAN
SessionOK ==
    /\ centre \in Int \cup {None}
    /\ gridIds \subseteq Id
    /\ rawIds \subseteq Id
    /\ lots \in Int
    /\ lastStop \in {"never", "trending", "other"}
PstOK == pst \in [ids : SUBSET Id, centre : Int \cup {None}, hasFills : BOOLEAN] \cup {None}
OutsideOK == price \in Prices /\ PstOK /\ crashes \in 0..MaxCrashes
OrdersOK == ord \in [Id -> Order] /\ TradesLeft
TasksOK == pc \in [Proc -> Labels] /\ fr \in [Proc -> Frame] /\ CurrentFill

(* TypeOK strengthened until it is inductive. *)
TypeInv == FlagsOK /\ SessionOK /\ OutsideOK /\ OrdersOK /\ TasksOK

LEMMA TypeInvImpliesTypeOK == TypeInv => TypeOK
  BY Zenon DEF TypeInv, TypeOK, FlagsOK, SessionOK, PstOK, OutsideOK, OrdersOK, TasksOK

LEMMA FreeType == Free \in Order
<1>1. 0 \in 0..MaxTrades
  BY ConstantsAssumption
<1> QED
  BY <1>1 DEF Free, Order

LEMMA BlankType == Blank \in Frame
<1>1. [o \in Id |-> 0] \in [Id -> 0..MaxTrades]
  BY ConstantsAssumption
<1> QED
  BY <1>1 DEF Blank, Frame, Reasons

LEMMA PlacedType ==
  ASSUME NEW side \in {"BUY", "SELL"}, NEW at \in Int
  PROVE  Placed(side, at) \in Order /\ Placed(side, at).trades < MaxTrades
<1>1. 0 \in 0..MaxTrades /\ 0 < MaxTrades
  BY ConstantsAssumption
<1> QED
  BY <1>1 DEF Placed, Order

-----------------------------------------------------------------------------
(* What keeps each part when the step leaves the variables alone, or moves  *)
(* one task.                                                                *)

LEMMA SameSession ==
  ASSUME FlagsOK, SessionOK, UNCHANGED session
  PROVE  FlagsOK' /\ SessionOK'
  BY Zenon DEF FlagsOK, SessionOK, session

LEMMA SameOutside ==
  ASSUME OutsideOK, UNCHANGED outside
  PROVE  OutsideOK'
  BY Zenon DEF OutsideOK, PstOK, outside

LEMMA SameOrders ==
  ASSUME OrdersOK, UNCHANGED ord
  PROVE  OrdersOK'
  BY Zenon DEF OrdersOK, TradesLeft

Handling == {"logging", "closing", "adding"}

LEMMA Moved ==
  ASSUME TasksOK, NEW p \in Proc, NEW l \in Labels, Goto(p, l), UNCHANGED fr,
         p = Loop /\ l \in Handling => fr[p].cur \in Id
  PROVE  TasksOK'
  BY DEF TasksOK, CurrentFill, Goto, Handling, Proc

LEMMA MovedLocal ==
  ASSUME TasksOK, NEW p \in Proc, NEW l \in Labels, Goto(p, l),
         NEW f \in Frame, Local(p, f),
         p = Loop /\ l \in Handling => f.cur \in Id
  PROVE  TasksOK'
<1>1. pc' \in [Proc -> Labels] /\ fr' \in [Proc -> Frame]
  BY DEF TasksOK, Goto, Local
<1>2. CurrentFill'
  BY DEF TasksOK, CurrentFill, Goto, Local, Handling, Proc
<1> QED
  BY <1>1, <1>2 DEF TasksOK

LEMMA LocalOnly ==
  ASSUME TasksOK, NEW p \in Proc, UNCHANGED pc,
         NEW f \in Frame, Local(p, f), p = Loop => f.cur = fr[p].cur
  PROVE  TasksOK'
<1>1. pc' \in [Proc -> Labels] /\ fr' \in [Proc -> Frame]
  BY DEF TasksOK, Local
<1>2. CurrentFill'
  BY DEF TasksOK, CurrentFill, Local, Proc
<1> QED
  BY <1>1, <1>2 DEF TasksOK

LEMMA Returned ==
  ASSUME TasksOK, NEW p \in Proc, Return(p)
  PROVE  TasksOK'
<1>1. Goto(p, IF p = Loop THEN "idle" ELSE "done") /\ Local(p, Blank)
  BY DEF Return
<1>2. /\ (IF p = Loop THEN "idle" ELSE "done") \in Labels
      /\ (IF p = Loop THEN "idle" ELSE "done") \notin Handling
  BY DEF Labels, Handling
<1> QED
  BY <1>1, <1>2, BlankType, MovedLocal

LEMMA FrameOf ==
  ASSUME TasksOK, NEW p \in Proc
  PROVE  fr[p] \in Frame
  BY DEF TasksOK

(* one order is replaced *)
LEMMA OneOrder ==
  ASSUME OrdersOK, NEW o \in Id, NEW r \in Order, ord' = [ord EXCEPT ![o] = r],
         r.ex = "open" => r.trades < MaxTrades
  PROVE  OrdersOK'
  BY DEF OrdersOK, TradesLeft

THEOREM TypeInit == Init => TypeInv
<1> SUFFICES ASSUME Init PROVE TypeInv
  OBVIOUS
<1>1. FlagsOK
  BY Zenon DEF Init, FlagsOK
<1>2. SessionOK
  BY DEF Init, SessionOK
<1>3. OutsideOK
  BY ConstantsAssumption DEF Init, OutsideOK, PstOK
<1>4. OrdersOK
  BY FreeType DEF Init, OrdersOK, TradesLeft, Free
<1>5. TasksOK
  <2>1. fr \in [Proc -> Frame]
    BY BlankType DEF Init
  <2>2. pc \in [Proc -> Labels] /\ CurrentFill
    BY DEF Init, Labels, CurrentFill, Proc
  <2> QED
    BY <2>1, <2>2 DEF TasksOK
<1> QED
  BY <1>1, <1>2, <1>3, <1>4, <1>5 DEF TypeInv
-----------------------------------------------------------------------------
(* start() *)

LEMMA SavedType ==
  ASSUME OutsideOK, pst # None
  PROVE  pst.ids \subseteq Id /\ pst.centre \in Int \cup {None} /\ pst.hasFills \in BOOLEAN
  BY DEF OutsideOK, PstOK

LEMMA StartType ==
  ASSUME TypeInv, NEW p \in Proc, NEW saved, saved \in {None, pst}, Start(p, saved)
  PROVE  isActive' = TRUE /\ gridIds' \subseteq Id /\ rawIds' \subseteq Id /\ TasksOK'
<1> USE DEF TypeInv
<1> DEFINE kept == IF saved = None THEN {} ELSE saved.ids
<1>1. kept \subseteq Id
  BY SavedType
<1>2. isActive' = TRUE
  BY DEF Start
<1>3. gridIds' \subseteq Id
  BY <1>1 DEF Start, Recovered, SessionOK, Open
<1>4. rawIds' \subseteq Id
  BY <1>1 DEF Start, SessionOK
<1>5. \/ Goto(p, "quote") /\ UNCHANGED fr
      \/ Goto(p, "guards") /\ UNCHANGED fr
      \/ Return(p)
  BY DEF Start
<1>6. TasksOK'
  BY <1>5, Moved, Returned DEF Labels, Handling
<1> QED
  BY <1>2, <1>3, <1>4, <1>6

LEMMA StartReturnsType ==
  ASSUME TasksOK, NEW p \in Proc, StartReturns(p)
  PROVE  TasksOK'
<1>1. fr[p] \in Frame
  BY FrameOf
<1>2. [fr[p] EXCEPT !.ids = {}] \in Frame
  BY <1>1 DEF Frame
<1>3. CASE Goto(p, "guards") /\ Local(p, [fr[p] EXCEPT !.ids = {}])
  BY <1>2, <1>3, MovedLocal DEF Labels, Handling
<1>4. CASE Return(p)
  BY <1>4, Returned
<1> QED
  BY <1>3, <1>4 DEF StartReturns

LEMMA StartRefusedType ==
  ASSUME TypeInv, NEW p \in Proc, StartRefused(p)
  PROVE  TypeInv'
  BY SameSession, SameOutside, SameOrders, Returned DEF TypeInv, StartRefused

LEMMA StartSessionType ==
  ASSUME TypeInv, NEW p \in Proc, StartSession(p)
  PROVE  TypeInv'
<1>1. isActive' = TRUE /\ gridIds' \subseteq Id /\ rawIds' \subseteq Id /\ TasksOK'
  BY StartType DEF StartSession
<1>2. FlagsOK'
  BY <1>1, Zenon DEF TypeInv, FlagsOK, StartSession
<1>3. SessionOK'
  BY <1>1 DEF TypeInv, SessionOK, StartSession
<1> QED
  BY <1>1, <1>2, <1>3, SameOutside, SameOrders DEF TypeInv, StartSession

LEMMA BootType ==
  ASSUME TypeInv, Boot
  PROVE  TypeInv'
<1>1. isActive' = TRUE /\ gridIds' \subseteq Id /\ rawIds' \subseteq Id /\ TasksOK'
  BY StartType DEF Boot, Proc
<1>2. hasFills' \in BOOLEAN
  <2>1. CASE pst = None
    BY <2>1, Zenon DEF Boot, TypeInv, FlagsOK
  <2>2. CASE pst # None
    BY <2>2, SavedType, Zenon DEF Boot, TypeInv
  <2> QED
    BY <2>1, <2>2
<1>3. FlagsOK'
  BY <1>1, <1>2, Zenon DEF TypeInv, FlagsOK, Boot
<1>4. centre' \in Int \cup {None}
  BY SavedType DEF Boot, TypeInv, SessionOK
<1>5. SessionOK'
  BY <1>1, <1>4 DEF TypeInv, SessionOK, Boot
<1> QED
  BY <1>1, <1>3, <1>5, SameOutside, SameOrders DEF TypeInv, Boot

LEMMA QuoteType ==
  ASSUME TypeInv, NEW p \in Proc, Quote(p)
  PROVE  TypeInv'
<1>1. price \in Int /\ fr[p] \in Frame
  BY ConstantsAssumption, FrameOf DEF TypeInv, OutsideOK
<1>2. [fr[p] EXCEPT !.quote = price] \in Frame
  BY <1>1 DEF Frame
<1>3. TasksOK'
  <2>1. CASE Goto(p, "regime") /\ Local(p, [fr[p] EXCEPT !.quote = price])
    BY <1>2, <2>1, MovedLocal DEF TypeInv, Labels, Handling
  <2>2. CASE StartReturns(p)
    BY <2>2, StartReturnsType DEF TypeInv
  <2> QED
    BY <2>1, <2>2 DEF Quote
<1> QED
  BY <1>3, SameSession, SameOutside, SameOrders DEF TypeInv, Quote

-----------------------------------------------------------------------------
(* deploy_grid() *)

LEMMA LevelsType ==
  ASSUME NEW c \in Int
  PROVE  Levels(c) \subseteq Int
  BY ConstantsAssumption DEF Levels

LEMMA DeployType ==
  ASSUME TypeInv, NEW p \in Proc, NEW c \in Int, Deploy(p, c)
  PROVE  isActive' \in {isActive, FALSE} /\ centre' \in Int /\ TasksOK'
<1>1. fr[p] \in Frame
  BY FrameOf DEF TypeInv
<1>2. [fr[p] EXCEPT !.quote = c, !.ids = {}, !.lvls = Levels(c)] \in Frame
  BY <1>1, LevelsType DEF Frame
<1>3. [fr[p] EXCEPT !.quote = c, !.ids = {}, !.lvls = {}] \in Frame
  BY <1>1 DEF Frame
<1>4. TasksOK'
  BY <1>2, <1>3, MovedLocal DEF Deploy, TypeInv, Labels, Handling
<1> QED
  BY <1>4 DEF Deploy

LEMMA RegimeCheckedType ==
  ASSUME TypeInv, NEW p \in Proc, RegimeChecked(p)
  PROVE  TypeInv'
<1>1. fr[p].quote \in Int
  BY FrameOf DEF TypeInv, Frame
<1>2. CASE Deploy(p, fr[p].quote) /\ UNCHANGED <<gridIds, rawIds, lots, cash, hasFills,
                                                 lastStop, reinvested>>
  <2>1. isActive' \in {isActive, FALSE} /\ centre' \in Int /\ TasksOK'
    BY <1>1, <1>2, DeployType
  <2>2. FlagsOK'
    BY <1>2, <2>1, Zenon DEF TypeInv, FlagsOK
  <2>3. SessionOK'
    BY <1>2, <2>1 DEF TypeInv, SessionOK
  <2> QED
    BY <2>1, <2>2, <2>3, SameOutside, SameOrders DEF TypeInv, RegimeChecked
<1>3. CASE StartReturns(p) /\ UNCHANGED session
  BY <1>3, StartReturnsType, SameSession, SameOutside, SameOrders DEF TypeInv, RegimeChecked
<1> QED
  BY <1>2, <1>3 DEF RegimeChecked

LEMMA PlaceLevelType ==
  ASSUME TypeInv, NEW p \in Proc, NEW l \in fr[p].lvls, PlaceLevel(p, l)
  PROVE  TypeInv'
<1> USE DEF TypeInv
<1>1. FlagsOK' /\ SessionOK' /\ OutsideOK'
  BY SameSession, SameOutside DEF PlaceLevel
<1>2. fr[p] \in Frame /\ l \in Int
  BY FrameOf DEF Frame
<1>3. OrdersOK' /\ TasksOK'
  <2>1. CASE Local(p, [fr[p] EXCEPT !.lvls = @ \ {l}]) /\ UNCHANGED <<ord, pc>>
    <3>1. [fr[p] EXCEPT !.lvls = @ \ {l}] \in Frame
      BY <1>2 DEF Frame
    <3> QED
      BY <1>2, <2>1, <3>1, SameOrders, LocalOnly DEF Frame
  <2>2. ASSUME NEW n \in Id, ord' = [ord EXCEPT ![n] = Placed(SideOf(p, l), l)],
               Local(p, [fr[p] EXCEPT !.lvls = @ \ {l}, !.ids = @ \cup {n}]), UNCHANGED pc
        PROVE OrdersOK' /\ TasksOK'
    <3>1. Placed(SideOf(p, l), l) \in Order /\ Placed(SideOf(p, l), l).trades < MaxTrades
      BY <1>2, PlacedType DEF SideOf
    <3>2. OrdersOK'
      BY <2>2, <3>1, OneOrder
    <3>3. [fr[p] EXCEPT !.lvls = @ \ {l}, !.ids = @ \cup {n}] \in Frame
      BY <1>2 DEF Frame
    <3>4. TasksOK'
      BY <1>2, <2>2, <3>3, LocalOnly DEF Frame
    <3> QED
      BY <3>2, <3>4
  <2> QED
    BY <2>1, <2>2 DEF PlaceLevel, Fresh
<1> QED
  BY <1>1, <1>3
LEMMA RecordLevelType ==
  ASSUME TypeInv, NEW p \in Proc, NEW o \in Id, RecordLevel(p, o)
  PROVE  TypeInv'
<1>1. ord[o] \in Order /\ (ord[o].ex = "open" => ord[o].trades < MaxTrades)
  BY DEF TypeInv, OrdersOK, TradesLeft
<1>2. [ord[o] EXCEPT !.st = "OPEN"] \in Order
  BY <1>1 DEF Order
<1>3. OrdersOK'
  BY <1>1, <1>2, OneOrder DEF RecordLevel, TypeInv, Order
<1>4. TasksOK'
  BY Zenon DEF RecordLevel, TypeInv, TasksOK, CurrentFill
<1> QED
  BY <1>3, <1>4, SameSession, SameOutside DEF TypeInv, RecordLevel

LEMMA DeployDoneType ==
  ASSUME TypeInv, NEW p \in Proc, DeployDone(p)
  PROVE  TypeInv'
<1>1. fr[p].ids \subseteq Id
  BY FrameOf DEF TypeInv, Frame
<1>2. TasksOK'
  <2>1. CASE Goto(p, "starting") /\ Local(p, Blank)
    BY <2>1, BlankType, MovedLocal DEF TypeInv, Labels, Handling
  <2>2. CASE StartReturns(p)
    BY <2>2, StartReturnsType DEF TypeInv
  <2> QED
    BY <2>1, <2>2 DEF DeployDone
<1>3. FlagsOK'
  BY Zenon DEF TypeInv, FlagsOK, DeployDone
<1>4. SessionOK'
  BY <1>1 DEF TypeInv, SessionOK, DeployDone
<1> QED
  BY <1>2, <1>3, <1>4, SameOutside, SameOrders DEF TypeInv, DeployDone

-----------------------------------------------------------------------------
(* stop() and _bank_and_reinvest() *)

LEMMA StopType ==
  ASSUME TasksOK, NEW p \in Proc, NEW why \in Reasons,
         NEW then \in {"idle", "guards", "starting", "requote", "recentre", "off"},
         Stop(p, why, then)
  PROVE  TasksOK'
<1>1. fr[p] \in Frame
  BY FrameOf
<1>2. [fr[p] EXCEPT !.why = why, !.then = then] \in Frame
  BY <1>1 DEF Frame, Reasons
<1> QED
  BY <1>2, MovedLocal DEF Stop, Labels, Handling

LEMMA OnDiskType ==
  ASSUME FlagsOK, SessionOK
  PROVE  OnDisk([ids |-> gridIds, centre |-> centre, hasFills |-> hasFills])
           \in [ids : SUBSET Id, centre : Int \cup {None}, hasFills : BOOLEAN] \cup {None}
<1>1. hasFills \in BOOLEAN
  BY DEF FlagsOK
<1>2. gridIds \in SUBSET Id /\ centre \in Int \cup {None}
  BY DEF SessionOK
<1>3. [ids |-> gridIds, centre |-> centre, hasFills |-> hasFills]
        \in [ids : SUBSET Id, centre : Int \cup {None}, hasFills : BOOLEAN]
  BY <1>1, <1>2
<1> QED
  BY <1>3, Zenon DEF OnDisk

LEMMA ToCancelType == ToCancel \subseteq Id
  BY DEF ToCancel, Open

LEMMA StopPersistsType ==
  ASSUME TypeInv, NEW p \in Proc, StopPersists(p)
  PROVE  TypeInv'
<1>1. OutsideOK'
  BY OnDiskType, Zenon DEF TypeInv, OutsideOK, PstOK, StopPersists
<1>2. [fr[p] EXCEPT !.ids = ToCancel] \in Frame
  BY FrameOf, ToCancelType DEF TypeInv, Frame
<1>3. TasksOK'
  BY <1>2, MovedLocal DEF StopPersists, TypeInv, Labels, Handling
<1> QED
  BY <1>1, <1>3, SameSession, SameOrders DEF TypeInv, StopPersists

(* a cancel touches one order and one task's list of them *)
LEMMA CancelledType ==
  ASSUME OrdersOK, NEW o \in Id, ord' = Cancelled(o)
  PROVE  OrdersOK'
<1>1. ord[o] \in Order /\ (ord[o].ex = "open" => ord[o].trades < MaxTrades)
  BY DEF OrdersOK, TradesLeft
<1>2. [ord[o] EXCEPT !.st = "CANCELLED"] \in Order
  BY <1>1 DEF Order
<1> QED
  BY <1>1, <1>2, OneOrder DEF Cancelled, Order

SameLocals(f, g) == g.cur = f.cur /\ g.fills = f.fills /\ g.then = f.then /\ g.known = f.known

LEMMA CancelFrames ==
  ASSUME NEW f \in Frame, NEW o \in Id,
         NEW g, \/ g = [f EXCEPT !.ids = @ \ {o}]
                \/ g = [f EXCEPT !.acked = @ \cup {o}]
                \/ g = [f EXCEPT !.ids = @ \ {o}, !.acked = @ \ {o}]
  PROVE  g \in Frame /\ SameLocals(f, g) /\ g.acked \subseteq f.acked \cup {o}
<1>1. ASSUME NEW s \in SUBSET Id, NEW t \in SUBSET Id
      PROVE  /\ [f EXCEPT !.ids = s] \in Frame
             /\ SameLocals(f, [f EXCEPT !.ids = s])
             /\ [f EXCEPT !.ids = s].acked = f.acked
             /\ [f EXCEPT !.acked = t] \in Frame
             /\ SameLocals(f, [f EXCEPT !.acked = t])
             /\ [f EXCEPT !.acked = t].acked = t
             /\ [f EXCEPT !.ids = s, !.acked = t] \in Frame
             /\ SameLocals(f, [f EXCEPT !.ids = s, !.acked = t])
             /\ [f EXCEPT !.ids = s, !.acked = t].acked = t
  BY DEF Frame, SameLocals
<1> DEFINE s == f.ids \ {o}
           t == f.acked \ {o}
           u == f.acked \cup {o}
<1>2. s \in SUBSET Id /\ t \in SUBSET Id /\ u \in SUBSET Id
  BY DEF Frame
<1>3. t \subseteq u /\ f.acked \subseteq u
  OBVIOUS
<1>4. \/ g = [f EXCEPT !.ids = s]
      \/ g = [f EXCEPT !.acked = u]
      \/ g = [f EXCEPT !.ids = s, !.acked = t]
  OBVIOUS
<1> HIDE DEF s, t
<1>5. CASE g = [f EXCEPT !.ids = s]
  BY <1>1, <1>2, <1>3, <1>5
<1>6. CASE g = [f EXCEPT !.acked = u]
  <2> HIDE DEF u
  <2>1. g \in Frame /\ SameLocals(f, g) /\ g.acked = u
    BY <1>1, <1>2, <1>6
  <2> QED
    BY <2>1 DEF u
<1>7. CASE g = [f EXCEPT !.ids = s, !.acked = t]
  <2>1. g \in Frame /\ SameLocals(f, g) /\ g.acked = t
    BY <1>1, <1>2, <1>7
  <2> QED
    BY <1>3, <2>1
<1> QED
  BY <1>4, <1>5, <1>6, <1>7

LEMMA CancelOneType ==
  ASSUME TypeInv, NEW p \in Proc, NEW o \in Id, CancelOne(p, o) \/ RecordCancel(p, o)
  PROVE  TypeInv'
<1>1. fr[p] \in Frame /\ ord[o] \in Order
  BY FrameOf DEF TypeInv, OrdersOK
<1>2. OrdersOK'
  <2>1. CASE ord' = [ord EXCEPT ![o].ex = "cancelled"]
    <3>1. [ord[o] EXCEPT !.ex = "cancelled"] \in Order
      BY <1>1 DEF Order
    <3> QED
      BY <1>1, <2>1, <3>1, OneOrder DEF TypeInv, Order
  <2> QED
    BY <2>1, CancelledType, SameOrders DEF TypeInv, CancelOne, RecordCancel
<1>3. PICK g : /\ Local(p, g)
               /\ \/ g = [fr[p] EXCEPT !.ids = @ \ {o}]
                  \/ g = [fr[p] EXCEPT !.acked = @ \cup {o}]
                  \/ g = [fr[p] EXCEPT !.ids = @ \ {o}, !.acked = @ \ {o}]
  BY DEF CancelOne, RecordCancel, CancelFailed
<1>4. g \in Frame /\ g.cur = fr[p].cur
  BY <1>1, <1>3, CancelFrames DEF SameLocals
<1>5. TasksOK'
  BY <1>3, <1>4, LocalOnly DEF CancelOne, RecordCancel, TypeInv
<1> QED
  BY <1>2, <1>5, SameSession, SameOutside DEF TypeInv, CancelOne, RecordCancel

LEMMA StopDoneType ==
  ASSUME TypeInv, NEW p \in Proc, StopDone(p)
  PROVE  TypeInv'
<1>1. fr[p] \in Frame /\ fr[p].px \in Int
  BY FrameOf DEF TypeInv, Frame
<1>2. FlagsOK'
  BY Zenon DEF TypeInv, FlagsOK, StopDone
<1>3. SessionOK'
  BY <1>1 DEF TypeInv, SessionOK, StopDone
<1>4. TasksOK'
  <2>1. CASE fr[p].then = "recentre"
    <3>1. [fr[p] EXCEPT !.quote = fr[p].px, !.lvls = Levels(fr[p].px)] \in Frame
      BY <1>1, LevelsType DEF Frame
    <3>2. Goto(p, "place")
      BY <2>1 DEF StopDone
    <3>3. CASE Local(p, [fr[p] EXCEPT !.quote = fr[p].px, !.lvls = Levels(fr[p].px)])
      BY <3>1, <3>2, <3>3, MovedLocal DEF TypeInv, Labels, Handling
    <3>4. CASE UNCHANGED fr
      BY <3>2, <3>4, Moved DEF TypeInv, Labels, Handling
    <3> QED
      BY <2>1, <3>3, <3>4 DEF StopDone
  <2>2. CASE fr[p].then # "recentre"
    <3>1. CASE Goto(p, "off") /\ Local(p, Blank)
      BY <3>1, BlankType, MovedLocal DEF TypeInv, Labels, Handling
    <3>2. CASE Return(p)
      BY <3>2, Returned DEF TypeInv
    <3> QED
      BY <2>2, <3>1, <3>2 DEF StopDone
  <2> QED
    BY <2>1, <2>2
<1> QED
  BY <1>2, <1>3, <1>4, SameOutside, SameOrders DEF TypeInv, StopDone

LEMMA ReinvestCancelsType ==
  ASSUME TypeInv, NEW p \in Proc, ReinvestCancels(p)
  PROVE  TypeInv'
<1>1. [fr[p] EXCEPT !.ids = ToCancel] \in Frame
  BY FrameOf, ToCancelType DEF TypeInv, Frame
<1>2. TasksOK'
  BY <1>1, MovedLocal DEF ReinvestCancels, TypeInv, Labels, Handling
<1> QED
  BY <1>2, SameSession, SameOutside, SameOrders DEF TypeInv, ReinvestCancels

LEMMA ReinvestResetsType ==
  ASSUME TypeInv, NEW p \in Proc, ReinvestResets(p)
  PROVE  TypeInv'
<1>1. FlagsOK'
  BY Zenon DEF TypeInv, FlagsOK, ReinvestResets
<1>2. SessionOK'
  BY DEF TypeInv, SessionOK, ReinvestResets
<1>3. TasksOK'
  BY Moved DEF TypeInv, ReinvestResets, Labels, Handling
<1> QED
  BY <1>1, <1>2, <1>3, SameOutside, SameOrders DEF TypeInv, ReinvestResets

LEMMA ReinvestDeploysType ==
  ASSUME TypeInv, NEW p \in Proc, ReinvestDeploys(p)
  PROVE  TypeInv'
<1>1. isActive' \in {isActive, FALSE} /\ centre' \in Int \cup {None} /\ TasksOK'
  <2>1. CASE Deploy(p, price)
    BY <2>1, DeployType, ConstantsAssumption DEF TypeInv, OutsideOK
  <2>2. CASE isActive' = FALSE /\ Return(p) /\ UNCHANGED centre
    BY <2>2, Returned DEF TypeInv, SessionOK
  <2> QED
    BY <2>1, <2>2 DEF ReinvestDeploys
<1>2. FlagsOK'
  BY <1>1, Zenon DEF TypeInv, FlagsOK, ReinvestDeploys
<1>3. SessionOK'
  BY <1>1 DEF TypeInv, SessionOK, ReinvestDeploys
<1> QED
  BY <1>1, <1>2, <1>3, SameOutside, SameOrders DEF TypeInv, ReinvestDeploys

-----------------------------------------------------------------------------
(* handle_fill() *)

LEMMA LoopIsTask == Loop \in Proc
  BY DEF Proc

LEMMA AfterFillType ==
  ASSUME OrdersOK, NEW o, ord' = AfterFill(o)
  PROVE  OrdersOK'
<1>1. CASE o \in Id /\ ord' = [ord EXCEPT ![o].st = "FILLED"]
  <2>1. ord[o] \in Order /\ (ord[o].ex = "open" => ord[o].trades < MaxTrades)
    BY <1>1 DEF OrdersOK, TradesLeft
  <2>2. [ord[o] EXCEPT !.st = "FILLED"] \in Order
    BY <2>1 DEF Order
  <2> QED
    BY <1>1, <2>1, <2>2, OneOrder DEF Order
<1>2. CASE o \notin Id \/ ord' = ord
  <2>1. ord' = ord
    BY <1>2 DEF AfterFill, OrdersOK
  <2> QED
    BY <2>1, SameOrders
<1> QED
  BY <1>1, <1>2 DEF AfterFill

LEMMA HandleFillType ==
  ASSUME TypeInv, NEW o \in Id, HandleFill(o)
  PROVE  TypeInv'
<1>1. fr[Loop] \in Frame
  BY FrameOf, LoopIsTask DEF TypeInv
<1>2. fr[Loop].fills[o] - 1 \in 0..MaxTrades
  <2>1. fr[Loop].fills[o] > 0
    BY DEF HandleFill, Pending
  <2>2. fr[Loop].fills[o] \in 0..MaxTrades
    BY <1>1 DEF Frame
  <2> QED
    BY <2>1, <2>2, ConstantsAssumption
<1>3. [fr[Loop] EXCEPT !.cur = o, !.fills[o] = @ - 1] \in Frame
  BY <1>1, <1>2 DEF Frame
<1>4. TasksOK'
  <2>1. [fr[Loop] EXCEPT !.cur = o, !.fills[o] = @ - 1].cur = o
    BY <1>1 DEF Frame
  <2> QED
    BY <1>3, <2>1, LoopIsTask, MovedLocal DEF HandleFill, TypeInv, Labels
<1> QED
  BY <1>4, SameSession, SameOutside, SameOrders DEF TypeInv, HandleFill

LEMMA IgnoreFillType ==
  ASSUME TypeInv, NEW o \in Id, IgnoreFill(o)
  PROVE  TypeInv'
<1>1. fr[Loop] \in Frame
  BY FrameOf, LoopIsTask DEF TypeInv
<1>2. fr[Loop].fills[o] - 1 \in 0..MaxTrades
  <2>1. fr[Loop].fills[o] > 0
    BY DEF IgnoreFill, Pending
  <2>2. fr[Loop].fills[o] \in 0..MaxTrades
    BY <1>1 DEF Frame
  <2> QED
    BY <2>1, <2>2, ConstantsAssumption
<1>3. [fr[Loop] EXCEPT !.fills[o] = @ - 1] \in Frame
  BY <1>1, <1>2 DEF Frame
<1>4. TasksOK'
  <2>1. [fr[Loop] EXCEPT !.fills[o] = @ - 1].cur = fr[Loop].cur
    BY <1>1 DEF Frame
  <2> QED
    BY <1>3, <2>1, LoopIsTask, LocalOnly DEF IgnoreFill, TypeInv
<1> QED
  BY <1>4, AfterFillType, SameSession, SameOutside DEF TypeInv, IgnoreFill

LEMMA AbortTickType ==
  ASSUME TypeInv, NEW o \in Id, AbortTick(o)
  PROVE  TypeInv'
  BY LoopIsTask, SameSession, SameOutside, SameOrders, Returned DEF TypeInv, AbortTick

LEMMA BookFillType ==
  ASSUME TypeInv, BookFill
  PROVE  TypeInv'
<1>1. FlagsOK'
  BY Zenon DEF TypeInv, FlagsOK, BookFill
<1>2. SessionOK'
  BY DEF TypeInv, SessionOK, BookFill, Paired
<1>3. fr[Loop].cur \in Id
  BY DEF TypeInv, TasksOK, CurrentFill, BookFill
<1>4. TasksOK'
  BY <1>3, LoopIsTask, Moved DEF TypeInv, BookFill, Labels
<1> QED
  BY <1>1, <1>2, <1>4, SameOutside, SameOrders DEF TypeInv, BookFill

LEMMA CounterType ==
  ASSUME OrdersOK, NEW o \in Id
  PROVE  CounterOf(o) \in Order /\ CounterOf(o).trades < MaxTrades
<1>1. ord[o] \in Order
  BY DEF OrdersOK
<1>2. CounterPrice(o) \in Int
  BY <1>1, ConstantsAssumption DEF CounterPrice, Order
<1>3. Opposite(ord[o].side) \in {"BUY", "SELL"}
  BY DEF Opposite
<1> QED
  BY <1>2, <1>3, PlacedType DEF CounterOf

(* the counter-order appears and its parent has one counter-order more *)
LEMMA CounterPlacedType ==
  ASSUME OrdersOK, NEW o \in Id, NEW n \in Id,
         ord' = [ord EXCEPT ![n] = CounterOf(o), ![o].kids = MoreKids(@)]
  PROVE  OrdersOK'
<1>1. CounterOf(o) \in Order /\ CounterOf(o).trades < MaxTrades
  BY CounterType
<1>2. PICK r \in Order : /\ r.ex = "open" => r.trades < MaxTrades
                         /\ ord' = [ord EXCEPT ![n] = CounterOf(o),
                                               ![o] = [r EXCEPT !.kids = MoreKids(@)]]
  <2>1. CASE o = n
    BY <1>1, <2>1 DEF OrdersOK
  <2>2. CASE o # n
    BY <2>2 DEF OrdersOK, TradesLeft
  <2> QED
    BY <2>1, <2>2
<1>3. [r EXCEPT !.kids = MoreKids(@)] \in Order
  BY DEF Order, MoreKids
<1>4. ord' \in [Id -> Order]
  BY <1>1, <1>2, <1>3 DEF OrdersOK
<1>5. TradesLeft'
  BY <1>1, <1>2, <1>3 DEF OrdersOK, TradesLeft, Order
<1> QED
  BY <1>4, <1>5 DEF OrdersOK

LEMMA PlaceCounterType ==
  ASSUME TypeInv, PlaceCounter
  PROVE  TypeInv'
<1>1. fr[Loop] \in Frame /\ fr[Loop].cur \in Id
  BY FrameOf, LoopIsTask DEF TypeInv, TasksOK, CurrentFill, PlaceCounter
<1>2. PICK n \in Id : /\ ord' = [ord EXCEPT ![n] = CounterOf(fr[Loop].cur),
                                            ![fr[Loop].cur].kids = MoreKids(@)]
                      /\ Local(Loop, [fr[Loop] EXCEPT !.new = n])
  BY DEF PlaceCounter, Fresh
<1>3. OrdersOK'
  BY <1>1, <1>2, CounterPlacedType DEF TypeInv
<1>4. [fr[Loop] EXCEPT !.new = n] \in Frame /\ [fr[Loop] EXCEPT !.new = n].cur \in Id
  BY <1>1 DEF Frame
<1>5. TasksOK'
  BY <1>2, <1>4, LoopIsTask, MovedLocal DEF PlaceCounter, TypeInv, Labels
<1> QED
  BY <1>3, <1>5, SameSession, SameOutside DEF TypeInv, PlaceCounter

LEMMA RecordCounterType ==
  ASSUME TypeInv, RecordCounter
  PROVE  TypeInv'
<1> DEFINE n == fr[Loop].new
<1>1. n \in Id
  BY FrameOf, LoopIsTask DEF TypeInv, Frame, RecordCounter
<1>2. ord[n] \in Order /\ (ord[n].ex = "open" => ord[n].trades < MaxTrades)
  BY <1>1 DEF TypeInv, OrdersOK, TradesLeft
<1>3. [ord[n] EXCEPT !.st = "OPEN"] \in Order
  BY <1>2 DEF Order
<1>4. OrdersOK'
  BY <1>1, <1>2, <1>3, OneOrder DEF RecordCounter, TypeInv, Order
<1>5. TasksOK'
  BY Zenon DEF RecordCounter, TypeInv, TasksOK, CurrentFill
<1> QED
  BY <1>4, <1>5, SameSession, SameOutside DEF TypeInv, RecordCounter

LEMMA CounterFailsType ==
  ASSUME TypeInv, CounterFails
  PROVE  TypeInv'
<1>1. fr[Loop].cur \in Id
  BY DEF TypeInv, TasksOK, CurrentFill, CounterFails
<1>2. TasksOK'
  BY <1>1, LoopIsTask, Moved DEF TypeInv, CounterFails, Labels
<1> QED
  BY <1>2, SameSession, SameOutside, SameOrders DEF TypeInv, CounterFails

LEMMA FillDoneType ==
  ASSUME TypeInv, FillDone
  PROVE  TypeInv'
<1>1. fr[Loop] \in Frame
  BY FrameOf, LoopIsTask DEF TypeInv
<1>2. Added(fr[Loop].new) \subseteq Id
  BY <1>1 DEF Added, Frame
<1>3. FlagsOK'
  BY Zenon DEF TypeInv, FlagsOK, FillDone
<1>4. SessionOK'
  BY <1>2 DEF TypeInv, SessionOK, FillDone
<1>5. OrdersOK'
  BY AfterFillType DEF TypeInv, FillDone
<1>6. [fr[Loop] EXCEPT !.cur = None, !.new = None] \in Frame
  BY <1>1 DEF Frame
<1>7. TasksOK'
  BY <1>6, LoopIsTask, MovedLocal DEF FillDone, TypeInv, Labels, Handling
<1> QED
  BY <1>3, <1>4, <1>5, <1>7, SameOutside DEF TypeInv, FillDone

-----------------------------------------------------------------------------
(* The tick *)

LEMMA FillsType ==
  ASSUME OrdersOK, NEW px \in Int
  PROVE  /\ NoFills \in [Id -> 0..MaxTrades]
         /\ SimFills(px) \in [Id -> 0..MaxTrades]
         /\ Trades \in [Id -> 0..MaxTrades]
<1>1. 0 \in 0..MaxTrades /\ 1 \in 0..MaxTrades
  BY ConstantsAssumption
<1>2. \A o \in Id : ord[o].trades \in 0..MaxTrades
  BY DEF OrdersOK, Order
<1> QED
  BY <1>1, <1>2 DEF NoFills, SimFills, Trades

LEMMA BotTickType ==
  ASSUME TypeInv, BotTick
  PROVE  TypeInv'
<1>1. fr[Loop] \in Frame
  BY FrameOf, LoopIsTask DEF TypeInv
<1>2. [fr[Loop] EXCEPT !.then = "guards"] \in Frame
  BY <1>1 DEF Frame
<1>3. TasksOK'
  BY <1>2, LoopIsTask, MovedLocal DEF BotTick, TypeInv, Labels, Handling
<1> QED
  BY <1>3, SameSession, SameOutside, SameOrders DEF TypeInv, BotTick

LEMMA CandlesArriveType ==
  ASSUME TypeInv, CandlesArrive
  PROVE  TypeInv'
<1>1. fr[Loop] \in Frame /\ price \in Int
  BY ConstantsAssumption, FrameOf, LoopIsTask DEF TypeInv, OutsideOK
<1> DEFINE fills == IF Live THEN NoFills ELSE SimFills(price)
           f == [fr[Loop] EXCEPT !.px = price, !.known = Open, !.fills = fills]
           next == IF Live THEN "trades" ELSE "next"
<1>2. fills \in [Id -> 0..MaxTrades] /\ Open \in SUBSET Id
  BY <1>1, FillsType DEF TypeInv, Open
<1> HIDE DEF fills
<1>3. f \in Frame
  BY <1>1, <1>2 DEF Frame
<1>4. next \in Labels /\ next \notin Handling
  BY DEF Labels, Handling
<1>5. TasksOK'
  <2>1. CASE Local(Loop, f) /\ Goto(Loop, next)
    BY <1>3, <1>4, <2>1, LoopIsTask, MovedLocal DEF TypeInv
  <2>2. CASE Return(Loop)
    BY <2>2, LoopIsTask, Returned DEF TypeInv
  <2> QED
    BY <2>1, <2>2 DEF CandlesArrive, fills
<1> QED
  BY <1>5, SameSession, SameOutside, SameOrders DEF TypeInv, CandlesArrive

LEMMA TradesArriveType ==
  ASSUME TypeInv, TradesArrive
  PROVE  TypeInv'
<1>1. fr[Loop] \in Frame
  BY FrameOf, LoopIsTask DEF TypeInv
<1>2. NoFills \in [Id -> 0..MaxTrades] /\ Trades \in [Id -> 0..MaxTrades]
  BY FillsType DEF TypeInv
<1>3. /\ [fr[Loop] EXCEPT !.fills = Trades] \in Frame
      /\ [fr[Loop] EXCEPT !.fills = NoFills] \in Frame
  BY <1>1, <1>2 DEF Frame
<1>4. TasksOK'
  BY <1>3, LoopIsTask, MovedLocal DEF TradesArrive, TypeInv, Labels, Handling
<1> QED
  BY <1>4, SameSession, SameOutside, SameOrders DEF TypeInv, TradesArrive

LEMMA TickStoppedType ==
  ASSUME TypeInv, TickStopped
  PROVE  TypeInv'
<1>1. CASE Return(Loop) /\ UNCHANGED session
  BY <1>1, LoopIsTask, Returned, SameSession, SameOutside, SameOrders DEF TypeInv, TickStopped
<1>2. CASE Start(Loop, None) /\ UNCHANGED <<centre, lots, cash, hasFills, lastStop, reinvested>>
  <2>1. isActive' = TRUE /\ gridIds' \subseteq Id /\ rawIds' \subseteq Id /\ TasksOK'
    BY <1>2, LoopIsTask, StartType
  <2>2. FlagsOK'
    BY <1>2, <2>1, Zenon DEF TypeInv, FlagsOK
  <2>3. SessionOK'
    BY <1>2, <2>1 DEF TypeInv, SessionOK
  <2> QED
    BY <2>1, <2>2, <2>3, SameOutside, SameOrders DEF TypeInv, TickStopped
<1>3. CASE Goto(Loop, "guards") /\ UNCHANGED <<session, fr>>
  <2>1. TasksOK'
    BY <1>3, LoopIsTask, Moved DEF TypeInv, Labels, Handling
  <2> QED
    BY <1>3, <2>1, SameSession, SameOutside, SameOrders DEF TypeInv, TickStopped
<1> QED
  BY <1>1, <1>2, <1>3 DEF TickStopped, session

LEMMA LotsLeftType == lots \in Int => LotsLeft \subseteq Int
  BY DEF LotsLeft

(* what the guards of tick() share: the session but its lots stays *)
LEMMA GuardType ==
  ASSUME TypeInv, lots' \in Int, TasksOK',
         UNCHANGED <<isActive, centre, gridIds, rawIds, cash, hasFills,
                     lastStop, reinvested, ord, outside>>
  PROVE  TypeInv'
<1>1. FlagsOK'
  BY Zenon DEF TypeInv, FlagsOK
<1>2. SessionOK'
  BY DEF TypeInv, SessionOK
<1> QED
  BY <1>1, <1>2, SameOutside, SameOrders DEF TypeInv

LEMMA TickHoldingType ==
  ASSUME TypeInv, TickHolding
  PROVE  TypeInv'
<1>1. lots' \in Int
  BY LotsLeftType DEF TickHolding, TypeInv, SessionOK
<1>2. TasksOK'
  BY LoopIsTask, Returned DEF TickHolding, TypeInv
<1> QED
  BY <1>1, <1>2, GuardType DEF TickHolding

LEMMA TickTakesProfitType ==
  ASSUME TypeInv, TickTakesProfit
  PROVE  TypeInv'
<1>1. TasksOK'
  BY LoopIsTask, StopType DEF TickTakesProfit, TypeInv, Reasons
<1> QED
  BY <1>1, GuardType DEF TickTakesProfit

LEMMA TickTrendingType ==
  ASSUME TypeInv, TickTrending
  PROVE  TypeInv'
<1>1. TasksOK'
  BY LoopIsTask, StopType DEF TickTrending, TypeInv, Reasons
<1> QED
  BY <1>1, GuardType DEF TickTrending

LEMMA SecondPassType ==
  ASSUME TypeInv, SecondPass
  PROVE  TypeInv'
<1>1. fr[Loop] \in Frame /\ fr[Loop].px \in Int
  BY FrameOf, LoopIsTask DEF TypeInv, Frame
<1> DEFINE fills == IF Live THEN NoFills ELSE SimFills(fr[Loop].px)
           f == [fr[Loop] EXCEPT !.pass = 2, !.known = {}, !.fills = fills]
           next == IF Live THEN "trades" ELSE "next"
<1>2. fills \in [Id -> 0..MaxTrades]
  BY <1>1, FillsType DEF TypeInv
<1> HIDE DEF fills
<1>3. f \in Frame
  BY <1>1, <1>2 DEF Frame
<1>4. next \in Labels /\ next \notin Handling
  BY DEF Labels, Handling
<1>5. Local(Loop, f) /\ Goto(Loop, next)
  BY DEF SecondPass, fills
<1>6. TasksOK'
  BY <1>3, <1>4, <1>5, LoopIsTask, MovedLocal DEF TypeInv
<1> QED
  BY <1>6, GuardType DEF SecondPass

LEMMA TickDriftType ==
  ASSUME TypeInv, TickDrift
  PROVE  TypeInv'
<1>1. Stop(Loop, "recentre", "recentre") \/ Return(Loop)
  BY DEF TickDrift
<1>2. TasksOK'
  BY <1>1, LoopIsTask, StopType, Returned DEF TypeInv, Reasons
<1> QED
  BY <1>2, SameSession, SameOutside, SameOrders DEF TypeInv, TickDrift

-----------------------------------------------------------------------------
(* The rest of the loop, the webhook, the market and the machine *)

LEMMA SameTasks ==
  ASSUME TasksOK, UNCHANGED <<pc, fr>>
  PROVE  TasksOK'
  BY Zenon DEF TasksOK, CurrentFill

LEMMA PersistStateType ==
  ASSUME TypeInv, PersistState
  PROVE  TypeInv'
<1>1. OutsideOK'
  BY OnDiskType, Zenon DEF TypeInv, OutsideOK, PstOK, PersistState
<1> QED
  BY <1>1, SameSession, SameOrders, SameTasks DEF TypeInv, PersistState

LEMMA PortfolioHaltType ==
  ASSUME TypeInv, PortfolioHalt
  PROVE  TypeInv'
<1>1. Stop(Loop, "halt", "off") \/ (Goto(Loop, "off") /\ UNCHANGED fr)
  BY DEF PortfolioHalt
<1>2. TasksOK'
  BY <1>1, LoopIsTask, StopType, Moved DEF TypeInv, Reasons, Labels, Handling
<1> QED
  BY <1>2, SameSession, SameOutside, SameOrders DEF TypeInv, PortfolioHalt

(* what a reconciliation does to the loop's frame *)
LEMMA ReconcileFrames ==
  ASSUME NEW f \in Frame, NEW s \in SUBSET Id,
         NEW g \in {[f EXCEPT !.known = s], [f EXCEPT !.ids = s]}
  PROVE  /\ g \in Frame
         /\ g.cur = f.cur /\ g.fills = f.fills /\ g.then = f.then /\ g.acked = f.acked
  BY DEF Frame

LEMMA ReconcileType ==
  ASSUME TypeInv, NEW o \in Id, Reconcile(o)
  PROVE  TypeInv'
<1>1. ord[o] \in Order /\ (ord[o].ex = "open" => ord[o].trades < MaxTrades)
  BY DEF TypeInv, OrdersOK, TradesLeft
<1>2. PICK st \in Verdicts(o) : ord' = [ord EXCEPT ![o].st = st]
  BY DEF Reconcile
<1>3. st \in {"free", "sent", "OPEN", "FILLED", "CANCELLED", "STALE"}
  BY <1>1 DEF Verdicts, Order
<1>4. [ord[o] EXCEPT !.st = st] \in Order
  BY <1>1, <1>3 DEF Order
<1>5. OrdersOK'
  BY <1>1, <1>2, <1>4, OneOrder DEF TypeInv, Order
<1>6. fr[Loop] \in Frame /\ fr[Loop].known \ {o} \in SUBSET Id
  BY FrameOf, LoopIsTask DEF TypeInv, Frame
<1> DEFINE g == [fr[Loop] EXCEPT !.known = fr[Loop].known \ {o}]
<1>7. g \in Frame /\ g.cur = fr[Loop].cur /\ Local(Loop, g)
  BY <1>6, ReconcileFrames DEF Reconcile
<1> HIDE DEF g
<1>8. TasksOK'
  BY <1>7, LoopIsTask, LocalOnly DEF TypeInv, Reconcile
<1> QED
  BY <1>5, <1>8, SameSession, SameOutside DEF TypeInv, Reconcile

LEMMA ReconciliationType ==
  ASSUME TypeInv, Reconciliation
  PROVE  TypeInv'
<1>1. fr[Loop] \in Frame /\ Open \in SUBSET Id /\ {o \in Id : ord[o].ex = "open"} \in SUBSET Id
  BY FrameOf, LoopIsTask DEF TypeInv, Open
<1>2. {"listing", "verifying"} \subseteq Labels \ Handling
  BY DEF Labels, Handling
<1>3. CASE ReconcileStarts
  BY <1>1, <1>2, <1>3, ReconcileFrames, LoopIsTask, MovedLocal, SameSession, SameOutside, SameOrders
  DEF ReconcileStarts, TypeInv
<1>4. CASE ReconcileLists
  BY <1>1, <1>2, <1>4, ReconcileFrames, LoopIsTask, MovedLocal, Moved, SameSession, SameOutside,
     SameOrders
  DEF ReconcileLists, TypeInv
<1>5. CASE ReconcileDone
  BY <1>5, LoopIsTask, Returned, SameSession, SameOutside, SameOrders DEF ReconcileDone, TypeInv
<1> QED
  BY <1>3, <1>4, <1>5, ReconcileType DEF Reconciliation

LEMMA PruneArchiveType ==
  ASSUME TypeInv, PruneArchive
  PROVE  TypeInv'
<1>1. OrdersOK'
  BY FreeType DEF PruneArchive, TypeInv, OrdersOK, TradesLeft, Free
<1> QED
  BY <1>1, SameSession, SameOutside, SameTasks DEF TypeInv, PruneArchive

LEMMA WebType ==
  ASSUME TypeInv, NEW w \in Webs, WebStart(w) \/ WebStop(w)
  PROVE  TypeInv'
<1>1. w \in Proc /\ w # Loop
  BY ConstantsAssumption DEF Proc
<1>2. TasksOK'
  <2>1. CASE WebStart(w)
    BY <1>1, <2>1, Moved DEF WebStart, TypeInv, Labels
  <2>2. CASE WebStop(w)
    BY <1>1, <2>2, StopType DEF WebStop, TypeInv, Reasons
  <2> QED
    BY <2>1, <2>2
<1> QED
  BY <1>2, SameSession, SameOutside, SameOrders DEF TypeInv, WebStart, WebStop

LEMMA MarketMovesType ==
  ASSUME TypeInv, NEW q \in Prices, MarketMoves(q)
  PROVE  TypeInv'
<1>1. OutsideOK'
  BY DEF TypeInv, OutsideOK, PstOK, MarketMoves
<1> QED
  BY <1>1, SameSession, SameOrders, SameTasks DEF TypeInv, MarketMoves

LEMMA ExchangeTradesType ==
  ASSUME TypeInv, NEW o \in Id, ExchangeTrades(o)
  PROVE  TypeInv'
<1>1. ord[o] \in Order /\ ord[o].trades < MaxTrades
  BY DEF TypeInv, OrdersOK, TradesLeft, ExchangeTrades
<1>2. PICK last \in BOOLEAN :
          /\ ord[o].trades + 1 = MaxTrades => last
          /\ ord' = [ord EXCEPT ![o].trades = @ + 1,
                                ![o].ex = IF last THEN "filled" ELSE "open"]
  BY DEF ExchangeTrades
<1> DEFINE ex == IF last THEN "filled" ELSE "open"
           r == [ord[o] EXCEPT !.trades = @ + 1, !.ex = ex]
<1>3. ex \in {"filled", "open"} /\ (ex = "open" => ~last)
  OBVIOUS
<1>4. ord[o].trades + 1 \in 0..MaxTrades /\ (ex = "open" => ord[o].trades + 1 < MaxTrades)
  <2>1. ex = "open" => ord[o].trades + 1 # MaxTrades
    BY <1>2, <1>3, Zenon
  <2> HIDE DEF ex
  <2> QED
    BY <1>1, <2>1, ConstantsAssumption DEF Order
<1>5. ord' = [ord EXCEPT ![o] = r]
  BY <1>1, <1>2 DEF TypeInv, OrdersOK, Order
<1> HIDE DEF ex
<1>6. r \in Order /\ (r.ex = "open" => r.trades < MaxTrades)
  BY <1>1, <1>3, <1>4 DEF Order
<1>7. OrdersOK'
  BY <1>5, <1>6, OneOrder DEF TypeInv
<1> QED
  BY <1>7, SameSession, SameOutside, SameTasks DEF TypeInv, ExchangeTrades

LEMMA LevelReplyLostType ==
  ASSUME TypeInv, NEW p \in Proc, NEW l \in fr[p].lvls, LevelReplyLost(p, l)
  PROVE  TypeInv'
<1>1. l \in Int
  BY FrameOf DEF TypeInv, Frame
<1>2. Placed(SideOf(p, l), l) \in Order /\ Placed(SideOf(p, l), l).trades < MaxTrades
  BY <1>1, PlacedType DEF SideOf
<1>3. PICK n \in Id : ord' = [ord EXCEPT ![n] = Placed(SideOf(p, l), l)]
  BY DEF LevelReplyLost, Fresh
<1>4. OrdersOK'
  BY <1>2, <1>3, OneOrder DEF TypeInv
<1> QED
  BY <1>4, SameSession, SameOutside, SameTasks DEF TypeInv, LevelReplyLost

LEMMA CounterReplyLostType ==
  ASSUME TypeInv, CounterReplyLost
  PROVE  TypeInv'
<1>1. fr[Loop].cur \in Id
  BY DEF TypeInv, TasksOK, CurrentFill, CounterReplyLost
<1>2. PICK n \in Id : ord' = [ord EXCEPT ![n] = CounterOf(fr[Loop].cur),
                                         ![fr[Loop].cur].kids = MoreKids(@)]
  BY DEF CounterReplyLost, Fresh
<1>3. OrdersOK'
  BY <1>1, <1>2, CounterPlacedType DEF TypeInv
<1> QED
  BY <1>3, SameSession, SameOutside, SameTasks DEF TypeInv, CounterReplyLost

LEMMA CrashType ==
  ASSUME TypeInv, Crash
  PROVE  TypeInv'
<1>1. FlagsOK'
  BY Zenon DEF FlagsOK, Crash
<1>2. SessionOK'
  BY DEF SessionOK, Crash
<1>3. OutsideOK'
  <2>1. crashes' \in 0..MaxCrashes
    BY ConstantsAssumption DEF TypeInv, OutsideOK, Crash
  <2> QED
    BY <2>1 DEF TypeInv, OutsideOK, PstOK, Crash
<1>4. TasksOK'
  <2>1. fr' \in [Proc -> Frame]
    BY BlankType DEF Crash
  <2>2. pc' \in [Proc -> Labels] /\ CurrentFill'
    BY DEF Crash, Labels, CurrentFill, Proc
  <2> QED
    BY <2>1, <2>2 DEF TasksOK
<1> QED
  BY <1>1, <1>2, <1>3, <1>4, SameOrders DEF TypeInv, Crash

-----------------------------------------------------------------------------
LEMMA LifecycleType ==
  ASSUME TypeInv, NEW p \in Proc, Lifecycle(p)
  PROVE  TypeInv'
  BY StartRefusedType, StartSessionType, QuoteType, RegimeCheckedType, PlaceLevelType,
     RecordLevelType, DeployDoneType, StopPersistsType, CancelOneType, StopDoneType,
     ReinvestCancelsType, ReinvestResetsType, ReinvestDeploysType
  DEF Lifecycle

LEMMA TickType ==
  ASSUME TypeInv, Tick
  PROVE  TypeInv'
  BY BootType, BotTickType, CandlesArriveType, TradesArriveType, HandleFillType,
     IgnoreFillType, AbortTickType, BookFillType, PlaceCounterType, RecordCounterType,
     CounterFailsType, FillDoneType, TickStoppedType, TickHoldingType,
     TickTakesProfitType, TickTrendingType, SecondPassType, TickDriftType
  DEF Tick

LEMMA TypeNext ==
  ASSUME TypeInv, [Next]_vars
  PROVE  TypeInv'
<1>1. CASE UNCHANGED vars
  <2>1. UNCHANGED session /\ UNCHANGED outside /\ UNCHANGED ord /\ UNCHANGED <<pc, fr>>
    BY <1>1 DEF vars, outside
  <2> QED
    BY <2>1, SameSession, SameOutside, SameOrders, SameTasks DEF TypeInv
<1>2. CASE Environment
  BY <1>2, MarketMovesType, ExchangeTradesType, LevelReplyLostType, CounterReplyLostType,
     CrashType
  DEF Environment
<1> QED
  BY <1>1, <1>2, TickType, LifecycleType, PersistStateType, PortfolioHaltType,
     ReconciliationType, PruneArchiveType, WebType
  DEF Next

(* Type correctness of the grid session, for every grid, exchange, number   *)
(* of concurrent webhook commands and number of crashes.                    *)
THEOREM TypeCorrect == Spec => []TypeOK
<1>1. Spec => []TypeInv
  BY TypeInit, TypeNext, PTL DEF Spec
<1> QED
  BY <1>1, TypeInvImpliesTypeOK, PTL

-----------------------------------------------------------------------------
(* What the exchange has done with an order.  A fill the loop has noted     *)
(* down is one of an order that has traded or rests no longer, and a cancel *)
(* that was confirmed one of an order that is cancelled there.              *)

Touched(r) == r.st # "free" /\ (r.ex = "open" => r.trades > 0)
Confirmed(r) == r.st # "free" /\ r.ex = "cancelled"

(* a record not in use, or final, rests nowhere, but for the remainder of a *)
(* fill                                                                     *)
Proper(r) ==
    /\ r.st \in {"free", "CANCELLED"} => r.ex # "open"
    /\ r.st = "FILLED" /\ r.ex = "open" => r.trades > 0
    /\ r.st = "free" => r.trades = 0
    /\ Live \/ r.ex \notin {"open", "cancelled"}

Noted(o) == fr[Loop].fills[o] > 0

GoneInv ==
    /\ \A o \in Id : Proper(ord[o])
    /\ \A o \in Id : Noted(o) => Touched(ord[o])
    /\ pc[Loop] \in Handling => Touched(ord[fr[Loop].cur])
    /\ pc[Loop] = "idle" => \A o \in Id : ~Noted(o)
    /\ \A p \in Proc : \A o \in fr[p].acked : Confirmed(ord[o])

(* a step on the orders: what is touched or confirmed stays so *)
Keeping ==
    \A o \in Id : /\ Proper(ord'[o])
                  /\ Touched(ord[o]) => Touched(ord'[o])
                  /\ Confirmed(ord[o]) => Confirmed(ord'[o])

(* a step on the tasks: the loop notes only what is touched *)
OnlyTouched ==
    /\ \A o \in Id : Noted(o)' => Touched(ord[o])
    /\ pc'[Loop] \in Handling => Touched(ord[fr'[Loop].cur])
    /\ pc'[Loop] = "idle" => \A o \in Id : ~Noted(o)'
    /\ \A p \in Proc : \A o \in fr'[p].acked : o \in fr[p].acked \/ Confirmed(ord'[o])

LEMMA GoneStep ==
  ASSUME GoneInv, TypeInv', Keeping, OnlyTouched
  PROVE  GoneInv'
<1>1. pc'[Loop] \in Handling => fr'[Loop].cur \in Id
  BY DEF TypeInv, TasksOK, CurrentFill, Handling
<1>2. \A p \in Proc : fr'[p].acked \subseteq Id
  BY DEF TypeInv, TasksOK, Frame
<1>3. \A p \in Proc : \A o \in fr'[p].acked : Confirmed(ord'[o])
  BY <1>2 DEF GoneInv, Keeping, OnlyTouched
<1> QED
  BY <1>1, <1>3 DEF GoneInv, Keeping, OnlyTouched

LEMMA GoneInit == Init => GoneInv
<1> SUFFICES ASSUME Init PROVE GoneInv
  OBVIOUS
<1>1. \A o \in Id : ord[o] = Free
  BY DEF Init
<1>2. fr[Loop] = Blank /\ pc[Loop] = "boot"
  BY LoopIsTask DEF Init
<1>3. \A o \in Id : ~Noted(o)
  BY <1>2 DEF Noted, Blank
<1>4. \A p \in Proc : fr[p].acked = {}
  BY DEF Init, Blank
<1> QED
  BY <1>1, <1>2, <1>3, <1>4 DEF GoneInv, Proper, Free, Handling

LEMMA SameTouched ==
  ASSUME GoneInv, UNCHANGED ord
  PROVE  Keeping
  BY DEF GoneInv, Keeping

LEMMA SameNoted ==
  ASSUME GoneInv, UNCHANGED <<pc, fr>>
  PROVE  OnlyTouched
  BY DEF GoneInv, OnlyTouched, Noted

(* a task moves to a place outside the handling of a fill *)
LEMMA MovesNoted ==
  ASSUME GoneInv, TypeInv, NEW p \in Proc, NEW l \in Labels, Goto(p, l),
         l \notin Handling \cup {"idle"},
         \/ UNCHANGED fr
         \/ \E f \in Frame : Local(p, f) /\ ((f.fills = fr[p].fills /\ f.acked = fr[p].acked) \/ f = Blank)
  PROVE  OnlyTouched
<1>1. p # Loop => pc'[Loop] = pc[Loop] /\ fr'[Loop] = fr[Loop]
  BY LoopIsTask DEF TypeInv, TasksOK, Goto, Local
<1>2. p = Loop => pc'[Loop] = l
  BY DEF TypeInv, TasksOK, Goto
<1>3. p = Loop => fr'[Loop].fills = fr[Loop].fills \/ fr'[Loop] = Blank
  BY DEF TypeInv, TasksOK, Local
<1>4. \A o \in Id : Noted(o)' => Noted(o)
  BY <1>1, <1>3 DEF Noted, Blank
<1>5. \A q \in Proc : fr'[q].acked \subseteq fr[q].acked
  BY DEF TypeInv, TasksOK, Local, Blank
<1> QED
  BY <1>1, <1>2, <1>4, <1>5 DEF GoneInv, OnlyTouched

LEMMA ReturnNoted ==
  ASSUME GoneInv, TypeInv, NEW p \in Proc, Return(p)
  PROVE  OnlyTouched
<1>1. p # Loop => pc'[Loop] = pc[Loop] /\ fr'[Loop] = fr[Loop]
  BY LoopIsTask DEF TypeInv, TasksOK, Return, Goto, Local
<1>2. p = Loop => pc'[Loop] = "idle" /\ fr'[Loop] = Blank
  BY DEF TypeInv, TasksOK, Return, Goto, Local
<1>5. \A q \in Proc : fr'[q].acked \subseteq fr[q].acked
  BY DEF TypeInv, TasksOK, Return, Local, Blank
<1>3. CASE p = Loop
  BY <1>2, <1>3, <1>5 DEF OnlyTouched, Noted, Blank, Handling
<1>4. CASE p # Loop
  BY <1>1, <1>4, <1>5 DEF GoneInv, OnlyTouched, Noted
<1> QED
  BY <1>3, <1>4

(* a task goes on where it is *)
LEMMA StaysNoted ==
  ASSUME GoneInv, TypeInv, NEW p \in Proc, UNCHANGED pc,
         NEW f \in Frame, Local(p, f), f.fills = fr[p].fills, f.acked = fr[p].acked, f.cur = fr[p].cur
  PROVE  OnlyTouched
<1>1. fr'[Loop].fills = fr[Loop].fills /\ fr'[Loop].cur = fr[Loop].cur
  BY LoopIsTask DEF TypeInv, TasksOK, Local
<1>2. \A q \in Proc : fr'[q].acked = fr[q].acked
  BY DEF TypeInv, TasksOK, Local
<1> QED
  BY <1>1, <1>2 DEF GoneInv, OnlyTouched, Noted

(* the same, when it may also be told of a confirmed cancel *)
LEMMA SameLocalNoted ==
  ASSUME GoneInv, TypeInv, NEW p \in Proc, UNCHANGED pc,
         NEW f \in Frame, Local(p, f), f.fills = fr[p].fills, f.cur = fr[p].cur,
         \A q \in Proc : \A o \in fr'[q].acked : o \in fr[q].acked \/ Confirmed(ord'[o])
  PROVE  OnlyTouched
<1>1. fr'[Loop].fills = fr[Loop].fills /\ fr'[Loop].cur = fr[Loop].cur
  BY LoopIsTask DEF TypeInv, TasksOK, Local
<1> QED
  BY <1>1 DEF GoneInv, OnlyTouched, Noted

LEMMA StartReturnsNoted ==
  ASSUME GoneInv, TypeInv, NEW p \in Proc, StartReturns(p)
  PROVE  OnlyTouched
<1>1. fr[p] \in Frame
  BY FrameOf DEF TypeInv
<1>2. [fr[p] EXCEPT !.ids = {}] \in Frame /\ [fr[p] EXCEPT !.ids = {}].fills = fr[p].fills
                                          /\ [fr[p] EXCEPT !.ids = {}].acked = fr[p].acked
  BY <1>1 DEF Frame
<1>3. CASE Goto(p, "guards") /\ Local(p, [fr[p] EXCEPT !.ids = {}])
  BY <1>2, <1>3, MovesNoted DEF Labels, Handling
<1> QED
  BY <1>3, ReturnNoted DEF StartReturns

LEMMA StartNoted ==
  ASSUME GoneInv, TypeInv, NEW p \in Proc, NEW saved, Start(p, saved)
  PROVE  OnlyTouched
<1>1. \/ Goto(p, "quote") /\ UNCHANGED fr
      \/ Goto(p, "guards") /\ UNCHANGED fr
      \/ Return(p)
  BY DEF Start
<1> QED
  BY <1>1, MovesNoted, ReturnNoted DEF Labels, Handling

LEMMA StopNoted ==
  ASSUME GoneInv, TypeInv, NEW p \in Proc, NEW why \in Reasons,
         NEW then \in {"idle", "guards", "starting", "requote", "recentre", "off"},
         Stop(p, why, then)
  PROVE  OnlyTouched
<1>1. fr[p] \in Frame
  BY FrameOf DEF TypeInv
<1> DEFINE f == [fr[p] EXCEPT !.why = why, !.then = then]
<1>2. f \in Frame /\ f.fills = fr[p].fills /\ f.acked = fr[p].acked
  BY <1>1 DEF Frame, Reasons
<1>3. Local(p, f) /\ Goto(p, "banking")
  BY DEF Stop
<1> HIDE DEF f
<1> QED
  BY <1>2, <1>3, MovesNoted DEF Labels, Handling

LEMMA DeployNoted ==
  ASSUME GoneInv, TypeInv, NEW p \in Proc, NEW c \in Int, Deploy(p, c)
  PROVE  OnlyTouched
<1>1. fr[p] \in Frame
  BY FrameOf DEF TypeInv
<1>2. PICK f \in Frame : Local(p, f) /\ f.fills = fr[p].fills /\ f.acked = fr[p].acked
  <2>1. /\ [fr[p] EXCEPT !.quote = c, !.ids = {}, !.lvls = Levels(c)] \in Frame
        /\ [fr[p] EXCEPT !.quote = c, !.ids = {}, !.lvls = Levels(c)].fills = fr[p].fills
        /\ [fr[p] EXCEPT !.quote = c, !.ids = {}, !.lvls = Levels(c)].acked = fr[p].acked
    BY <1>1, LevelsType DEF Frame
  <2>2. /\ [fr[p] EXCEPT !.quote = c, !.ids = {}, !.lvls = {}] \in Frame
        /\ [fr[p] EXCEPT !.quote = c, !.ids = {}, !.lvls = {}].fills = fr[p].fills
        /\ [fr[p] EXCEPT !.quote = c, !.ids = {}, !.lvls = {}].acked = fr[p].acked
    BY <1>1 DEF Frame
  <2> QED
    BY <2>1, <2>2 DEF Deploy
<1>3. Goto(p, "place")
  BY DEF Deploy
<1> QED
  BY <1>2, <1>3, MovesNoted DEF Labels, Handling

(* a new order takes a free id, which no settled order has *)
LEMMA PlacedKeeping ==
  ASSUME GoneInv, TypeInv, NEW side \in {"BUY", "SELL"}, NEW at \in Int, Fresh # {},
         ord' = [ord EXCEPT ![CHOOSE o \in Fresh : TRUE] = Placed(side, at)]
  PROVE  Keeping
<1> DEFINE n == CHOOSE o \in Fresh : TRUE
<1>1. n \in Id /\ ord[n].st = "free"
  BY DEF Fresh
<1> HIDE DEF n
<1>2. \A o \in Id : ord'[o] = IF o = n THEN Placed(side, at) ELSE ord[o]
  BY <1>1 DEF n, TypeInv, OrdersOK
<1>3. Proper(Placed(side, at))
  BY DEF Proper, Placed
<1> QED
  BY <1>1, <1>2, <1>3 DEF GoneInv, Keeping, Touched, Confirmed

(* one record gets another status *)
LEMMA StatusKeeping ==
  ASSUME GoneInv, TypeInv, NEW o \in Id, NEW r \in Order, ord' = [ord EXCEPT ![o] = r],
         Proper(r), Touched(ord[o]) => Touched(r), Confirmed(ord[o]) => Confirmed(r)
  PROVE  Keeping
  BY DEF GoneInv, Keeping, TypeInv, OrdersOK

LEMMA PlaceLevelGone ==
  ASSUME GoneInv, TypeInv, NEW p \in Proc, NEW l \in fr[p].lvls, PlaceLevel(p, l)
  PROVE  Keeping /\ OnlyTouched
<1>1. fr[p] \in Frame /\ l \in Int
  BY FrameOf DEF TypeInv, Frame
<1>2. Keeping
  <2>1. SideOf(p, l) \in {"BUY", "SELL"}
    BY DEF SideOf
  <2>2. CASE Fresh # {} /\ ord' = [ord EXCEPT ![CHOOSE o \in Fresh : TRUE] = Placed(SideOf(p, l), l)]
    BY <1>1, <2>1, <2>2, PlacedKeeping
  <2> QED
    BY <2>2, SameTouched DEF PlaceLevel
<1>3. PICK f \in Frame : Local(p, f) /\ f.fills = fr[p].fills /\ f.acked = fr[p].acked /\ f.cur = fr[p].cur
  <2> DEFINE f == [fr[p] EXCEPT !.lvls = @ \ {l}]
             g(n) == [fr[p] EXCEPT !.lvls = @ \ {l}, !.ids = @ \cup {n}]
  <2>1. f \in Frame /\ f.fills = fr[p].fills /\ f.acked = fr[p].acked /\ f.cur = fr[p].cur
    BY <1>1 DEF Frame
  <2>2. ASSUME NEW n \in Id PROVE g(n) \in Frame /\ g(n).fills = fr[p].fills /\ g(n).acked = fr[p].acked /\ g(n).cur = fr[p].cur
    BY <1>1 DEF Frame
  <2>3. Local(p, f) \/ \E n \in Id : Local(p, g(n))
    BY DEF PlaceLevel, Fresh
  <2> HIDE DEF f, g
  <2> QED
    BY <2>1, <2>2, <2>3
<1> QED
  BY <1>2, <1>3, StaysNoted DEF PlaceLevel

LEMMA RecordLevelGone ==
  ASSUME GoneInv, TypeInv, NEW p \in Proc, NEW o \in Id, RecordLevel(p, o)
  PROVE  Keeping /\ OnlyTouched
<1> DEFINE r == [ord[o] EXCEPT !.st = "OPEN"]
<1>1. ord[o] \in Order /\ Proper(ord[o])
  BY DEF TypeInv, OrdersOK, GoneInv
<1>2. r \in Order /\ Proper(r) /\ (Touched(ord[o]) => Touched(r))
         /\ (Confirmed(ord[o]) => Confirmed(r))
  BY <1>1 DEF Order, Proper, Touched, Confirmed
<1>3. ord' = [ord EXCEPT ![o] = r]
  BY DEF RecordLevel
<1> HIDE DEF r
<1> QED
  BY <1>2, <1>3, StatusKeeping, SameNoted DEF RecordLevel

LEMMA CancelOneGone ==
  ASSUME GoneInv, TypeInv, NEW p \in Proc, NEW o \in Id, CancelOne(p, o) \/ RecordCancel(p, o)
  PROVE  Keeping /\ OnlyTouched
<1>1. fr[p] \in Frame /\ ord[o] \in Order /\ Proper(ord[o])
  BY FrameOf DEF TypeInv, OrdersOK, GoneInv
<1>2. PICK g : /\ Local(p, g)
               /\ \/ g = [fr[p] EXCEPT !.ids = @ \ {o}]
                  \/ g = [fr[p] EXCEPT !.acked = @ \cup {o}]
                  \/ g = [fr[p] EXCEPT !.ids = @ \ {o}, !.acked = @ \ {o}]
               /\ \/ g.acked \subseteq fr[p].acked
                  \/ Live /\ ord[o].ex = "open" /\ ord' = [ord EXCEPT ![o].ex = "cancelled"]
  <2>1. \A t \in {fr[p].ids \ {o}} : [fr[p] EXCEPT !.ids = t].acked = fr[p].acked
    BY <1>1 DEF Frame
  <2>2. [fr[p] EXCEPT !.ids = @ \ {o}, !.acked = @ \ {o}].acked = fr[p].acked \ {o}
    BY <1>1 DEF Frame
  <2> QED
    BY <2>1, <2>2 DEF CancelOne, RecordCancel, CancelFailed
<1>3. g \in Frame /\ SameLocals(fr[p], g) /\ g.acked \subseteq fr[p].acked \cup {o}
  BY <1>1, <1>2, CancelFrames
<1> DEFINE r == [ord[o] EXCEPT !.st = "CANCELLED"]
           c == [ord[o] EXCEPT !.ex = "cancelled"]
<1>4. CASE Live /\ ord[o].ex = "open" /\ ord' = [ord EXCEPT ![o].ex = "cancelled"]
  <2>1. c \in Order /\ Proper(c) /\ Touched(c) /\ Confirmed(c)
    BY <1>1, <1>4 DEF Order, Proper, Touched, Confirmed
  <2>2. ord' = [ord EXCEPT ![o] = c]
    BY <1>4
  <2> HIDE DEF c
  <2>3. Keeping
    BY <2>1, <2>2, StatusKeeping
  <2>4. Confirmed(ord'[o])
    BY <2>1, <2>2 DEF TypeInv, OrdersOK
  <2>5. \A q \in Proc : \A i \in fr'[q].acked : i \in fr[q].acked \/ Confirmed(ord'[i])
    BY <1>2, <1>3, <2>4 DEF Local, TypeInv, TasksOK
  <2> QED
    BY <1>2, <1>3, <2>3, <2>5, SameLocalNoted DEF SameLocals, CancelOne, RecordCancel
<1>5. CASE ord' = ord \/ (ord' = [ord EXCEPT ![o].st = "CANCELLED"] /\ (~Live \/ o \in fr[p].acked))
  <2>1. g.acked \subseteq fr[p].acked
    <3>1. ord' # [ord EXCEPT ![o].ex = "cancelled"] \/ ord[o].ex # "open"
      <4>1. ASSUME ord[o].ex = "open" PROVE [ord EXCEPT ![o].ex = "cancelled"][o].ex = "cancelled"
        BY <1>1 DEF TypeInv, OrdersOK, Order
      <4>2. ord[o].ex = "open" => ord'[o].ex = "open"
        BY <1>1, <1>5 DEF TypeInv, OrdersOK, Order
      <4> QED
        BY <4>1, <4>2
    <3> QED
      BY <1>2, <3>1
  <2>2. Keeping
    <3>1. ~Live \/ o \in fr[p].acked => /\ r \in Order /\ Proper(r)
                                        /\ Touched(ord[o]) => Touched(r)
                                        /\ Confirmed(ord[o]) => Confirmed(r)
      BY <1>1 DEF Order, Proper, Touched, Confirmed, GoneInv
    <3> HIDE DEF r
    <3>2. ord' = ord \/ (ord' = [ord EXCEPT ![o] = r] /\ (~Live \/ o \in fr[p].acked))
      BY <1>5 DEF r
    <3> QED
      BY <3>1, <3>2, StatusKeeping, SameTouched
  <2>3. \A q \in Proc : \A i \in fr'[q].acked : i \in fr[q].acked
    BY <1>2, <2>1 DEF Local, TypeInv, TasksOK
  <2> QED
    BY <1>2, <1>3, <2>2, <2>3, SameLocalNoted DEF SameLocals, CancelOne, RecordCancel
<1> QED
  BY <1>4, <1>5 DEF CancelOne, RecordCancel, Cancelled

LEMMA StopDoneGone ==
  ASSUME GoneInv, TypeInv, NEW p \in Proc, StopDone(p)
  PROVE  Keeping /\ OnlyTouched
<1>1. fr[p] \in Frame /\ fr[p].px \in Int
  BY FrameOf DEF TypeInv, Frame
<1>2. /\ [fr[p] EXCEPT !.quote = fr[p].px, !.lvls = Levels(fr[p].px)] \in Frame
      /\ [fr[p] EXCEPT !.quote = fr[p].px, !.lvls = Levels(fr[p].px)].fills = fr[p].fills
      /\ [fr[p] EXCEPT !.quote = fr[p].px, !.lvls = Levels(fr[p].px)].acked = fr[p].acked
  BY <1>1, LevelsType DEF Frame
<1>3. \/ /\ Goto(p, "place")
         /\ \/ Local(p, [fr[p] EXCEPT !.quote = fr[p].px, !.lvls = Levels(fr[p].px)])
            \/ UNCHANGED fr
      \/ Goto(p, "off") /\ Local(p, Blank)
      \/ Return(p)
  BY DEF StopDone
<1>4. OnlyTouched
  BY <1>2, <1>3, BlankType, MovesNoted, ReturnNoted DEF Labels, Handling
<1> QED
  BY <1>4, SameTouched DEF StopDone

LEMMA LifecycleGone ==
  ASSUME GoneInv, TypeInv, NEW p \in Proc, Lifecycle(p)
  PROVE  Keeping /\ OnlyTouched
<1>1. fr[p] \in Frame /\ fr[p].quote \in Int /\ price \in Int
  BY FrameOf, ConstantsAssumption DEF TypeInv, Frame, OutsideOK
<1>2. ASSUME Quote(p) PROVE Keeping /\ OnlyTouched
  <2>1. /\ [fr[p] EXCEPT !.quote = price] \in Frame
        /\ [fr[p] EXCEPT !.quote = price].fills = fr[p].fills
        /\ [fr[p] EXCEPT !.quote = price].acked = fr[p].acked
    BY <1>1 DEF Frame
  <2>2. CASE Goto(p, "regime") /\ Local(p, [fr[p] EXCEPT !.quote = price])
    BY <1>2, <2>1, <2>2, MovesNoted, SameTouched DEF Labels, Handling, Quote
  <2> QED
    BY <1>2, <2>2, StartReturnsNoted, SameTouched DEF Quote
<1>3. ASSUME StopPersists(p) \/ ReinvestCancels(p) PROVE Keeping /\ OnlyTouched
  <2>1. /\ [fr[p] EXCEPT !.ids = ToCancel] \in Frame
        /\ [fr[p] EXCEPT !.ids = ToCancel].fills = fr[p].fills
        /\ [fr[p] EXCEPT !.ids = ToCancel].acked = fr[p].acked
    BY <1>1, ToCancelType DEF Frame
  <2> QED
    BY <1>3, <2>1, MovesNoted, SameTouched DEF Labels, Handling, StopPersists, ReinvestCancels
<1>4. ASSUME StartRefused(p) \/ StartSession(p) PROVE Keeping /\ OnlyTouched
  BY <1>4, ReturnNoted, StartNoted, SameTouched DEF StartRefused, StartSession
<1>5. ASSUME RegimeChecked(p) PROVE Keeping /\ OnlyTouched
  BY <1>1, <1>5, DeployNoted, StartReturnsNoted, SameTouched DEF RegimeChecked
<1>6. ASSUME DeployDone(p) PROVE Keeping /\ OnlyTouched
  <2>1. (Goto(p, "starting") /\ Local(p, Blank)) \/ StartReturns(p)
    BY <1>6 DEF DeployDone
  <2> QED
    BY <1>6, <2>1, BlankType, MovesNoted, StartReturnsNoted, SameTouched
    DEF DeployDone, Labels, Handling
<1>7. ASSUME ReinvestResets(p) PROVE Keeping /\ OnlyTouched
  BY <1>7, MovesNoted, SameTouched DEF ReinvestResets, Labels, Handling
<1>8. ASSUME ReinvestDeploys(p) PROVE Keeping /\ OnlyTouched
  BY <1>1, <1>8, DeployNoted, ReturnNoted, SameTouched DEF ReinvestDeploys
<1> QED
  BY <1>2, <1>3, <1>4, <1>5, <1>6, <1>7, <1>8, PlaceLevelGone, RecordLevelGone, CancelOneGone,
     StopDoneGone DEF Lifecycle

(* a counter-order takes a free id; its parent, just handled, has another *)
LEMMA CounterKeeping ==
  ASSUME GoneInv, TypeInv, pc[Loop] \in Handling, Fresh # {},
         ord' = [ord EXCEPT ![CHOOSE f \in Fresh : TRUE] = CounterOf(fr[Loop].cur),
                            ![fr[Loop].cur].kids = MoreKids(@)]
  PROVE  Keeping
<1> DEFINE n == CHOOSE f \in Fresh : TRUE
           o == fr[Loop].cur
<1>1. n \in Id /\ ord[n].st = "free"
  BY DEF Fresh
<1>2. o \in Id /\ Touched(ord[o])
  BY DEF GoneInv, TypeInv, TasksOK, CurrentFill, Handling
<1> HIDE DEF n, o
<1>3. n # o
  BY <1>1, <1>2 DEF Touched
<1>4. \A i \in Id : ord'[i] = IF i = n THEN CounterOf(o)
                              ELSE IF i = o THEN [ord[o] EXCEPT !.kids = MoreKids(@)] ELSE ord[i]
  BY <1>1, <1>2, <1>3 DEF n, o, TypeInv, OrdersOK
<1>5. Proper(CounterOf(o))
  BY DEF Proper, CounterOf, Placed
<1>6. Proper(ord[o]) /\ ord[o] \in Order
  BY <1>2 DEF GoneInv, TypeInv, OrdersOK
<1>7. /\ Proper([ord[o] EXCEPT !.kids = MoreKids(@)])
      /\ Touched([ord[o] EXCEPT !.kids = MoreKids(@)])
      /\ Confirmed(ord[o]) => Confirmed([ord[o] EXCEPT !.kids = MoreKids(@)])
  BY <1>2, <1>6 DEF Proper, Touched, Confirmed, Order
<1> QED
  BY <1>1, <1>4, <1>5, <1>7 DEF GoneInv, Keeping, Touched, Confirmed

LEMMA AfterFillKeeping ==
  ASSUME GoneInv, TypeInv, NEW o \in Id, Touched(ord[o]), ord' = AfterFill(o)
  PROVE  Keeping
<1> DEFINE r == [ord[o] EXCEPT !.st = "FILLED"]
<1>1. ord[o] \in Order /\ Proper(ord[o])
  BY DEF TypeInv, OrdersOK, GoneInv
<1>2. r \in Order /\ Proper(r) /\ Touched(r) /\ (Confirmed(ord[o]) => Confirmed(r))
  BY <1>1 DEF Order, Proper, Touched, Confirmed
<1>3. ord' = [ord EXCEPT ![o] = r] \/ ord' = ord
  BY DEF AfterFill
<1> HIDE DEF r
<1> QED
  BY <1>2, <1>3, StatusKeeping, SameTouched

LEMMA HandleFillGone ==
  ASSUME GoneInv, TypeInv, NEW o \in Id, HandleFill(o) \/ IgnoreFill(o) \/ AbortTick(o)
  PROVE  Keeping /\ OnlyTouched
<1>1. fr[Loop] \in Frame /\ Touched(ord[o]) /\ fr[Loop].fills \in [Id -> 0..MaxTrades]
  BY FrameOf, LoopIsTask DEF TypeInv, GoneInv, HandleFill, IgnoreFill, AbortTick, Pending, Noted, Frame
<1>2. ASSUME NEW i \in Id, ([fr[Loop].fills EXCEPT ![o] = @ - 1])[i] > 0
      PROVE  Touched(ord[i])
  <2>1. i = o \/ fr[Loop].fills[i] > 0
    BY <1>1, <1>2
  <2> QED
    BY <1>1, <2>1 DEF GoneInv, Noted
<1>3. CASE HandleFill(o)
  <2>1. /\ fr'[Loop].fills = [fr[Loop].fills EXCEPT ![o] = @ - 1]
        /\ fr'[Loop].cur = o
        /\ pc'[Loop] = "logging"
        /\ \A p \in Proc : fr'[p].acked = fr[p].acked
    BY <1>1, <1>3, LoopIsTask DEF HandleFill, Local, Goto, TypeInv, TasksOK, Frame
  <2>2. \A i \in Id : Noted(i)' => Touched(ord[i])
    BY <1>2, <2>1 DEF Noted
  <2> QED
    BY <1>1, <1>3, <2>1, <2>2, SameTouched DEF OnlyTouched, HandleFill
<1>4. CASE IgnoreFill(o)
  <2>1. /\ fr'[Loop].fills = [fr[Loop].fills EXCEPT ![o] = @ - 1]
        /\ pc'[Loop] = "next"
        /\ \A p \in Proc : fr'[p].acked = fr[p].acked
    BY <1>1, <1>4, LoopIsTask DEF IgnoreFill, Local, TypeInv, TasksOK, Frame
  <2>2. \A i \in Id : Noted(i)' => Touched(ord[i])
    BY <1>2, <2>1 DEF Noted
  <2> QED
    BY <1>1, <1>4, <2>1, <2>2, AfterFillKeeping DEF OnlyTouched, IgnoreFill, Handling
<1>5. CASE AbortTick(o)
  BY <1>5, LoopIsTask, ReturnNoted, SameTouched DEF AbortTick
<1> QED
  BY <1>3, <1>4, <1>5

(* the rest of handle_fill() *)
LEMMA HandlingGone ==
  ASSUME GoneInv, TypeInv,
         BookFill \/ PlaceCounter \/ RecordCounter \/ CounterFails \/ FillDone
  PROVE  Keeping /\ OnlyTouched
<1>1. fr[Loop] \in Frame
  BY FrameOf, LoopIsTask DEF TypeInv
<1>2. CASE BookFill \/ CounterFails
  <2>1. fr' = fr /\ pc'[Loop] \in Handling /\ pc[Loop] \in Handling
    BY <1>2, LoopIsTask DEF BookFill, CounterFails, Goto, TypeInv, TasksOK, Handling
  <2>2. OnlyTouched
    BY <2>1 DEF GoneInv, OnlyTouched, Noted, Handling
  <2> QED
    BY <1>2, <2>2, SameTouched DEF BookFill, CounterFails
<1>3. CASE PlaceCounter
  <2>1. /\ fr'[Loop].fills = fr[Loop].fills /\ fr'[Loop].cur = fr[Loop].cur
        /\ pc'[Loop] = "adding" /\ pc[Loop] \in Handling
        /\ \A p \in Proc : fr'[p].acked = fr[p].acked
    BY <1>1, <1>3, LoopIsTask DEF PlaceCounter, Goto, Local, TypeInv, TasksOK, Handling, Frame
  <2>2. OnlyTouched
    BY <2>1 DEF GoneInv, OnlyTouched, Noted
  <2>3. Keeping
    BY <1>3, <2>1, CounterKeeping DEF PlaceCounter
  <2> QED
    BY <2>2, <2>3
<1>4. CASE RecordCounter
  <2> DEFINE o == fr[Loop].new
             r == [ord[o] EXCEPT !.st = "OPEN"]
  <2>1. o \in Id /\ ord[o] \in Order /\ Proper(ord[o])
    BY <1>1, <1>4 DEF RecordCounter, Frame, TypeInv, OrdersOK, GoneInv
  <2>2. r \in Order /\ Proper(r) /\ (Touched(ord[o]) => Touched(r))
         /\ (Confirmed(ord[o]) => Confirmed(r))
    BY <2>1 DEF Order, Proper, Touched, Confirmed
  <2>3. ord' = [ord EXCEPT ![o] = r]
    BY <1>4 DEF RecordCounter
  <2> HIDE DEF r, o
  <2>4. Keeping
    BY <2>1, <2>2, <2>3, StatusKeeping
  <2> QED
    BY <1>4, <2>4, SameNoted DEF RecordCounter
<1>5. CASE FillDone
  <2>1. fr[Loop].cur \in Id /\ Touched(ord[fr[Loop].cur])
    BY <1>5 DEF FillDone, GoneInv, TypeInv, TasksOK, CurrentFill, Handling
  <2>2. Keeping
    BY <1>5, <2>1, AfterFillKeeping DEF FillDone
  <2>3. /\ [fr[Loop] EXCEPT !.cur = None, !.new = None] \in Frame
        /\ [fr[Loop] EXCEPT !.cur = None, !.new = None].fills = fr[Loop].fills
        /\ [fr[Loop] EXCEPT !.cur = None, !.new = None].acked = fr[Loop].acked
    BY <1>1 DEF Frame
  <2>4. OnlyTouched
    BY <1>5, <2>3, LoopIsTask, MovesNoted DEF FillDone, Labels, Handling
  <2> QED
    BY <2>2, <2>4
<1> QED
  BY <1>2, <1>3, <1>4, <1>5

(* the loop looks for fills: none, the crossed ones of a simulation, or the *)
(* orders that have traded                                                  *)
LEMMA LooksGone ==
  ASSUME GoneInv, TypeInv, NEW fills, NEW px \in Int,
         fills \in {NoFills, Trades} \/ (~Live /\ fills = SimFills(px)),
         NEW f \in Frame, f.fills = fills, f.acked = fr[Loop].acked, Local(Loop, f),
         NEW l \in Labels \ (Handling \cup {"idle"}), pc'[Loop] = l
  PROVE  OnlyTouched
<1>1. \A o \in Id : fills[o] > 0 => Touched(ord[o])
  <2> SUFFICES ASSUME NEW o \in Id, fills[o] > 0 PROVE Touched(ord[o])
    OBVIOUS
  <2>1. Proper(ord[o])
    BY DEF GoneInv
  <2>2. CASE fills = NoFills
    BY <2>2 DEF NoFills
  <2>3. CASE fills = Trades
    <3>1. ord[o].trades > 0
      BY <2>3 DEF Trades
    <3> QED
      BY <2>1, <3>1 DEF Proper, Touched
  <2>4. CASE ~Live /\ fills = SimFills(px)
    <3>1. o \in Open
      BY <2>4 DEF SimFills
    <3> QED
      BY <2>1, <2>4, <3>1 DEF Open, Proper, Touched
  <2> QED
    BY <2>2, <2>3, <2>4
<1>2. fr'[Loop].fills = fills /\ \A p \in Proc : fr'[p].acked = fr[p].acked
  BY LoopIsTask DEF Local, TypeInv, TasksOK
<1> QED
  BY <1>1, <1>2 DEF OnlyTouched, Noted

LEMMA PassGone ==
  ASSUME GoneInv, TypeInv, CandlesArrive \/ TradesArrive \/ SecondPass
  PROVE  Keeping /\ OnlyTouched
<1>1. fr[Loop] \in Frame /\ fr[Loop].px \in Int /\ price \in Int /\ Open \subseteq Id
  BY FrameOf, LoopIsTask, ConstantsAssumption DEF TypeInv, Frame, OutsideOK, Open
<1>2. Keeping
  BY SameTouched DEF CandlesArrive, TradesArrive, SecondPass
<1>3. \A px \in Int : {NoFills, SimFills(px), Trades} \subseteq [Id -> 0..MaxTrades]
  BY FillsType DEF TypeInv
<1>4. \A l \in Labels : Goto(Loop, l) => pc'[Loop] = l
  BY LoopIsTask DEF Goto, TypeInv, TasksOK
<1>5. {"trades", "next"} \subseteq Labels \ (Handling \cup {"idle"})
  BY DEF Labels, Handling
<1>6. CASE CandlesArrive
  <2>1. CASE Return(Loop)
    BY <1>2, <2>1, LoopIsTask, ReturnNoted
  <2>2. CASE ~Return(Loop)
    <3> DEFINE fills == IF Live THEN NoFills ELSE SimFills(price)
               f == [fr[Loop] EXCEPT !.px = price, !.known = Open, !.fills = fills]
               l == IF Live THEN "trades" ELSE "next"
    <3>1. Local(Loop, f) /\ Goto(Loop, l)
      BY <1>6, <2>2 DEF CandlesArrive
    <3>2. fills \in {NoFills, Trades} \/ (~Live /\ fills = SimFills(price))
      OBVIOUS
    <3>3. fills \in [Id -> 0..MaxTrades]
      BY <1>1, <1>3
    <3>4. l \in Labels \ (Handling \cup {"idle"})
      BY <1>5
    <3> HIDE DEF fills, l
    <3>5. f \in Frame /\ f.fills = fills /\ f.acked = fr[Loop].acked
      BY <1>1, <3>3 DEF Frame
    <3> HIDE DEF f
    <3> QED
      BY <1>1, <1>2, <1>4, <3>1, <3>2, <3>4, <3>5, LooksGone
  <2> QED
    BY <2>1, <2>2
<1>7. CASE TradesArrive
  <2>1. \A g \in [Id -> 0..MaxTrades] : /\ [fr[Loop] EXCEPT !.fills = g] \in Frame
                                        /\ [fr[Loop] EXCEPT !.fills = g].fills = g
                                        /\ [fr[Loop] EXCEPT !.fills = g].acked = fr[Loop].acked
    BY <1>1 DEF Frame
  <2>2. PICK g \in {NoFills, Trades} : Local(Loop, [fr[Loop] EXCEPT !.fills = g])
    BY <1>7 DEF TradesArrive
  <2>3. pc'[Loop] = "next"
    BY <1>4, <1>5, <1>7 DEF TradesArrive
  <2>4. g \in [Id -> 0..MaxTrades]
    BY <1>1, <1>3
  <2> DEFINE f == [fr[Loop] EXCEPT !.fills = g]
  <2>5. f \in Frame /\ f.fills = g /\ f.acked = fr[Loop].acked /\ Local(Loop, f)
    BY <2>1, <2>2, <2>4
  <2> HIDE DEF f
  <2> QED
    BY <1>1, <1>2, <1>5, <2>2, <2>3, <2>5, LooksGone
<1>8. CASE SecondPass
  <2> DEFINE fills == IF Live THEN NoFills ELSE SimFills(fr[Loop].px)
             f == [fr[Loop] EXCEPT !.pass = 2, !.known = {}, !.fills = fills]
             l == IF Live THEN "trades" ELSE "next"
  <2>1. Local(Loop, f) /\ Goto(Loop, l)
    BY <1>8 DEF SecondPass
  <2>2. fills \in {NoFills, Trades} \/ (~Live /\ fills = SimFills(fr[Loop].px))
    OBVIOUS
  <2>3. fills \in [Id -> 0..MaxTrades]
    BY <1>1, <1>3
  <2>4. l \in Labels \ (Handling \cup {"idle"})
    BY <1>5
  <2> HIDE DEF fills, l
  <2>5. f \in Frame /\ f.fills = fills /\ f.acked = fr[Loop].acked
    BY <1>1, <2>3 DEF Frame
  <2> HIDE DEF f
  <2> QED
    BY <1>1, <1>2, <1>4, <2>1, <2>2, <2>4, <2>5, LooksGone
<1> QED
  BY <1>6, <1>7, <1>8

LEMMA TickGone ==
  ASSUME GoneInv, TypeInv, Tick
  PROVE  Keeping /\ OnlyTouched
<1>1. fr[Loop] \in Frame
  BY FrameOf, LoopIsTask DEF TypeInv
<1>2. ASSUME BotTick PROVE Keeping /\ OnlyTouched
  <2>1. /\ [fr[Loop] EXCEPT !.then = "guards"] \in Frame
        /\ [fr[Loop] EXCEPT !.then = "guards"].fills = fr[Loop].fills
        /\ [fr[Loop] EXCEPT !.then = "guards"].acked = fr[Loop].acked
    BY <1>1 DEF Frame
  <2> QED
    BY <1>2, <2>1, LoopIsTask, MovesNoted, SameTouched DEF BotTick, Labels, Handling
<1>3. ASSUME Boot \/ TickStopped PROVE Keeping /\ OnlyTouched
  <2>1. Keeping
    BY <1>3, SameTouched DEF Boot, TickStopped
  <2>2. \/ \E saved \in {None, pst} : Start(Loop, saved)
        \/ Return(Loop)
        \/ Goto(Loop, "guards") /\ UNCHANGED fr
    BY <1>3 DEF Boot, TickStopped
  <2> QED
    BY <2>1, <2>2, LoopIsTask, StartNoted, ReturnNoted, MovesNoted DEF Labels, Handling
<1>4. ASSUME TickHolding \/ TickTakesProfit \/ TickTrending \/ TickDrift
      PROVE Keeping /\ OnlyTouched
  <2>1. Keeping
    BY <1>4, SameTouched DEF TickHolding, TickTakesProfit, TickTrending, TickDrift
  <2>2. \/ Return(Loop)
        \/ \E why \in Reasons, then \in {"idle", "requote", "recentre"} : Stop(Loop, why, then)
    BY <1>4 DEF TickHolding, TickTakesProfit, TickTrending, TickDrift, Reasons
  <2> QED
    BY <2>1, <2>2, LoopIsTask, ReturnNoted, StopNoted
<1> QED
  BY <1>2, <1>3, <1>4, PassGone, HandleFillGone, HandlingGone DEF Tick

LEMMA EnvironmentGone ==
  ASSUME GoneInv, TypeInv, Environment
  PROVE  Keeping /\ OnlyTouched
<1>1. ASSUME NEW o \in Id, ExchangeTrades(o) PROVE Keeping /\ OnlyTouched
  <2>1. /\ ord[o] \in Order /\ Proper(ord[o]) /\ ord[o].ex = "open" /\ Live
        /\ ord[o].trades + 1 \in 0..MaxTrades
    BY <1>1, ConstantsAssumption DEF TypeInv, OrdersOK, TradesLeft, GoneInv, ExchangeTrades, Order
  <2>2. PICK ex \in {"filled", "open"} : ord' = [ord EXCEPT ![o].trades = @ + 1, ![o].ex = ex]
    BY <1>1 DEF ExchangeTrades
  <2> DEFINE r == [ord[o] EXCEPT !.trades = @ + 1, !.ex = ex]
  <2>3. ord' = [ord EXCEPT ![o] = r]
    BY <2>1, <2>2 DEF TypeInv, OrdersOK, Order
  <2>4. r \in Order
    BY <2>1 DEF Order
  <2>5. r.st = ord[o].st /\ r.trades > 0
    BY <2>1 DEF Order
  <2>6. ord[o].st # "free" /\ ord[o].st # "CANCELLED"
    BY <2>1 DEF Proper
  <2> HIDE DEF r
  <2>7. Proper(r) /\ Touched(r) /\ ~Confirmed(ord[o])
    BY <2>1, <2>5, <2>6 DEF Proper, Touched, Confirmed
  <2> QED
    BY <1>1, <2>3, <2>4, <2>7, StatusKeeping, SameNoted DEF ExchangeTrades
<1>2. ASSUME NEW p \in Proc, NEW l \in fr[p].lvls, LevelReplyLost(p, l)
      PROVE  Keeping /\ OnlyTouched
  <2>1. l \in Int /\ SideOf(p, l) \in {"BUY", "SELL"}
    BY FrameOf DEF TypeInv, Frame, SideOf
  <2> QED
    BY <1>2, <2>1, PlacedKeeping, SameNoted DEF LevelReplyLost
<1>3. ASSUME CounterReplyLost PROVE Keeping /\ OnlyTouched
  BY <1>3, CounterKeeping, SameNoted DEF CounterReplyLost, Handling
<1>4. ASSUME Crash PROVE Keeping /\ OnlyTouched
  <2>1. fr'[Loop] = Blank /\ pc'[Loop] = "boot"
    BY <1>4, LoopIsTask DEF Crash
  <2>3. \A p \in Proc : fr'[p].acked = {}
    BY <1>4 DEF Crash, Blank
  <2>2. OnlyTouched
    BY <2>1, <2>3 DEF OnlyTouched, Noted, Blank, Handling
  <2> QED
    BY <1>4, <2>2, SameTouched DEF Crash
<1>5. ASSUME NEW q \in Prices, MarketMoves(q) PROVE Keeping /\ OnlyTouched
  BY <1>5, SameTouched, SameNoted DEF MarketMoves
<1> QED
  BY <1>1, <1>2, <1>3, <1>4, <1>5 DEF Environment

LEMMA ReconcileGone ==
  ASSUME GoneInv, TypeInv, NEW o \in Id, Reconcile(o)
  PROVE  Keeping /\ OnlyTouched
<1>1. ord[o] \in Order /\ Proper(ord[o])
  BY DEF TypeInv, OrdersOK, GoneInv
<1>2. PICK st \in Verdicts(o) : ord' = [ord EXCEPT ![o].st = st]
  BY DEF Reconcile
<1> DEFINE r == [ord[o] EXCEPT !.st = st]
<1>3. \/ st = ord[o].st
      \/ st \in {"OPEN", "STALE"}
      \/ st = "FILLED" /\ ord[o].ex = "filled"
      \/ st = "CANCELLED" /\ ord[o].ex = "cancelled"
  BY <1>2 DEF Verdicts
<1>4. r \in Order /\ r.st = st /\ r.ex = ord[o].ex /\ r.trades = ord[o].trades
  BY <1>1, <1>3 DEF Order
<1>5. ord' = [ord EXCEPT ![o] = r]
  BY <1>2
<1> HIDE DEF r
<1>6. /\ Proper(r)
      /\ Touched(ord[o]) => Touched(r)
      /\ Confirmed(ord[o]) => Confirmed(r)
  BY <1>1, <1>3, <1>4 DEF Proper, Touched, Confirmed
<1>7. Keeping
  BY <1>4, <1>5, <1>6, StatusKeeping
<1>8. fr[Loop] \in Frame /\ fr[Loop].known \ {o} \in SUBSET Id
  BY FrameOf, LoopIsTask DEF TypeInv, Frame
<1> DEFINE g == [fr[Loop] EXCEPT !.known = fr[Loop].known \ {o}]
<1>9. g \in Frame /\ g.fills = fr[Loop].fills /\ g.acked = fr[Loop].acked /\ g.cur = fr[Loop].cur
  BY <1>8, ReconcileFrames
<1>10. Local(Loop, g)
  BY DEF Reconcile
<1> HIDE DEF g
<1> QED
  BY <1>7, <1>9, <1>10, LoopIsTask, StaysNoted DEF Reconcile

LEMMA ReconciliationGone ==
  ASSUME GoneInv, TypeInv, Reconciliation
  PROVE  Keeping /\ OnlyTouched
<1>1. fr[Loop] \in Frame /\ Open \in SUBSET Id /\ {o \in Id : ord[o].ex = "open"} \in SUBSET Id
  BY FrameOf, LoopIsTask DEF TypeInv, Open
<1>2. {"listing", "verifying"} \subseteq Labels /\ {"listing", "verifying"} \cap (Handling \cup {"idle"}) = {}
  BY DEF Labels, Handling
<1>3. CASE ReconcileStarts
  BY <1>1, <1>2, <1>3, ReconcileFrames, LoopIsTask, MovesNoted, SameTouched DEF ReconcileStarts
<1>4. CASE ReconcileLists
  BY <1>1, <1>2, <1>4, ReconcileFrames, LoopIsTask, MovesNoted, SameTouched DEF ReconcileLists
<1>5. CASE ReconcileDone
  BY <1>5, LoopIsTask, ReturnNoted, SameTouched DEF ReconcileDone
<1> QED
  BY <1>3, <1>4, <1>5, ReconcileGone DEF Reconciliation

(* ids are freed only when the loop rests, with no fill noted *)
LEMMA PruneArchiveGone ==
  ASSUME GoneInv, TypeInv, PruneArchive
  PROVE  GoneInv'
<1>1. \A o \in Id : ord'[o] = Free \/ ord'[o] = ord[o]
  BY DEF PruneArchive
<1>2. pc' = pc /\ fr' = fr /\ pc[Loop] = "idle" /\ \A o \in Id : ~Noted(o)
  BY DEF PruneArchive, GoneInv
<1>3. Proper(Free)
  BY DEF Proper, Free
<1>4. \A o \in Id : Proper(ord'[o]) /\ ~Noted(o)'
  BY <1>1, <1>2, <1>3 DEF GoneInv, Noted
<1>5. \A p \in Proc : \A o \in fr[p].acked : o \in Id /\ ord'[o] = ord[o]
  BY DEF PruneArchive, Dead, TypeInv, TasksOK, Frame
<1> QED
  BY <1>2, <1>4, <1>5 DEF GoneInv, Handling

LEMMA GoneNext ==
  ASSUME GoneInv, TypeInv, [Next]_vars
  PROVE  GoneInv'
<1>1. TypeInv'
  BY TypeNext
<1>2. CASE PruneArchive
  BY <1>2, PruneArchiveGone
<1>3. ASSUME PersistState \/ UNCHANGED vars PROVE Keeping /\ OnlyTouched
  BY <1>3, SameTouched, SameNoted DEF PersistState, vars
<1>4. ASSUME PortfolioHalt PROVE Keeping /\ OnlyTouched
  <2>1. Stop(Loop, "halt", "off") \/ (Goto(Loop, "off") /\ UNCHANGED fr)
    BY <1>4 DEF PortfolioHalt
  <2> QED
    BY <1>4, <2>1, LoopIsTask, StopNoted, MovesNoted, SameTouched
    DEF PortfolioHalt, Reasons, Labels, Handling
<1>5. ASSUME NEW w \in Webs, WebStart(w) \/ WebStop(w) PROVE Keeping /\ OnlyTouched
  BY <1>5, StopNoted, MovesNoted, SameTouched
  DEF WebStart, WebStop, Proc, Reasons, Labels, Handling
<1> QED
  BY <1>1, <1>2, <1>3, <1>4, <1>5, GoneStep, TickGone, LifecycleGone, EnvironmentGone,
     ReconciliationGone
  DEF Next

(* Of the orders the store shows as final only the remainder of a partial   *)
(* fill rests on the exchange: cancels refused, executed without a reply or *)
(* answered late, lost replies, crashes, reconciliation and commands beside *)
(* the tick included, and whatever the number of trades that fill an order. *)
THEOREM NothingElseRests == Spec => []OnlyRemaindersRest
<1>1. Init => TypeInv /\ GoneInv
  BY TypeInit, GoneInit
<1>2. TypeInv /\ GoneInv /\ [Next]_vars => TypeInv' /\ GoneInv'
  BY TypeNext, GoneNext
<1>3. GoneInv => OnlyRemaindersRest
  BY DEF GoneInv, Proper, OnlyRemaindersRest
<1> QED
  BY <1>1, <1>2, <1>3, PTL DEF Spec

-----------------------------------------------------------------------------
(* What an active session still knows.  An order the store holds open is    *)
(* the grid's, or a task is about to make it so; a fill being handled takes *)
(* its order out of the grid until it has its counter-order.                *)

(* no placement is refused, and no take profit re-invests beside a command: *)
(* _bank_and_reinvest() forgets the grid without stopping the session       *)
Remembering == "place" \notin Events /\ (Reinvest => "session" \notin Events)

OpenAlone(o) == ord[o].st = "OPEN" /\ ord[o].kids = 0 /\ ord[o].ex # "cancelled"

(* what a task is placing or handling *)
InHand(o) ==
    \/ \E p \in Proc : pc[p] = "place" /\ o \in fr[p].ids
    \/ pc[Loop] = "closing" /\ o = fr[Loop].cur
    \/ pc[Loop] = "adding" /\ o = fr[Loop].new

TrackInv ==
    /\ isActive => \A o \in Id : OpenAlone(o) => o \in gridIds \/ InHand(o)
    /\ \A p \in Proc : fr[p].then # "requote" /\ pc[p] # "requote"

(* While the loop reconciles, an order it took up as open is so still, or a *)
(* command's cancel of it was confirmed.                                    *)
Listing(l) == l \in {"listing", "verifying"}
Known(o) == ord[o].st = "OPEN" \/ Confirmed(ord[o])
ListInv == Listing(pc[Loop]) => Live /\ \A o \in fr[Loop].known : Known(o)

(* no task but p takes the step *)
OnlyMoves(p) == \A q \in Proc \ {p} : pc'[q] = pc[q] /\ fr'[q] = fr[q]

(* and p is not sent to requote *)
NoRequote(p) == fr'[p].then # "requote" /\ pc'[p] # "requote"

LEMMA MovesOnly ==
  ASSUME TypeInv, NEW p \in Proc, UNCHANGED pc \/ (\E l : Goto(p, l)),
         UNCHANGED fr \/ (\E f : Local(p, f))
  PROVE  OnlyMoves(p)
  BY DEF OnlyMoves, Goto, Local, TypeInv, TasksOK

LEMMA CarriedInHand ==
  ASSUME NEW p \in Proc, OnlyMoves(p), pc[p] \notin {"place", "closing", "adding"}
  PROVE  \A o \in Id : InHand(o) => InHand(o)'
  BY LoopIsTask DEF OnlyMoves, InHand

LEMMA TrackStep ==
  ASSUME TrackInv, NEW p \in Proc, OnlyMoves(p), NoRequote(p),
         isActive' => \A o \in Id : OpenAlone(o)' => (o \in gridIds \/ InHand(o))'
  PROVE  TrackInv'
<1>1. \A q \in Proc : fr'[q].then # "requote" /\ pc'[q] # "requote"
  BY DEF TrackInv, OnlyMoves, NoRequote
<1> QED
  BY <1>1 DEF TrackInv

(* a task moves, and the session and the orders lose nothing *)
LEMMA TaskMoves ==
  ASSUME TrackInv, NEW p \in Proc, OnlyMoves(p), NoRequote(p),
         pc[p] \notin {"place", "closing", "adding"},
         isActive' => isActive, isActive' => gridIds \subseteq gridIds',
         \A o \in Id : OpenAlone(o)' => OpenAlone(o)
  PROVE  TrackInv'
<1>1. \A o \in Id : InHand(o) => InHand(o)'
  BY CarriedInHand
<1> QED
  BY <1>1, TrackStep DEF TrackInv

LEMMA SameAlone ==
  ASSUME UNCHANGED ord
  PROVE  \A o \in Id : OpenAlone(o)' => OpenAlone(o)
  BY DEF OpenAlone

LEMMA TrackInit == Init => TrackInv
  BY DEF Init, TrackInv, Blank

(* where a task can be sent, without re-investing *)
LEMMA ToReturn ==
  ASSUME TypeInv, NEW p \in Proc, Return(p)
  PROVE  OnlyMoves(p) /\ NoRequote(p)
<1>1. fr'[p] = Blank /\ pc'[p] \in {"idle", "done"}
  BY DEF Return, Goto, Local, TypeInv, TasksOK
<1>2. NoRequote(p)
  BY <1>1 DEF NoRequote, Blank
<1> QED
  BY <1>2, MovesOnly DEF Return

LEMMA ToLabel ==
  ASSUME TrackInv, TypeInv, NEW p \in Proc, NEW l \in Labels \ {"requote"}, Goto(p, l),
         \/ UNCHANGED fr
         \/ \E f \in Frame : Local(p, f) /\ f.then # "requote"
  PROVE  OnlyMoves(p) /\ NoRequote(p)
<1>1. NoRequote(p)
  BY DEF NoRequote, TrackInv, Goto, Local, TypeInv, TasksOK
<1> QED
  BY <1>1, MovesOnly

LEMMA ToStartReturns ==
  ASSUME TrackInv, TypeInv, NEW p \in Proc, StartReturns(p)
  PROVE  OnlyMoves(p) /\ NoRequote(p)
<1>1. fr[p] \in Frame
  BY FrameOf DEF TypeInv
<1>2. [fr[p] EXCEPT !.ids = {}] \in Frame /\ [fr[p] EXCEPT !.ids = {}].then = fr[p].then
  BY <1>1 DEF Frame
<1>3. CASE Goto(p, "guards") /\ Local(p, [fr[p] EXCEPT !.ids = {}])
  BY <1>2, <1>3, ToLabel DEF Labels, TrackInv
<1> QED
  BY <1>3, ToReturn DEF StartReturns

LEMMA ToStart ==
  ASSUME TrackInv, TypeInv, NEW p \in Proc, NEW saved, Start(p, saved), UNCHANGED ord
  PROVE  TrackInv'
<1>1. \/ Goto(p, "quote") /\ UNCHANGED fr
      \/ Goto(p, "guards") /\ UNCHANGED fr
      \/ Return(p)
  BY DEF Start
<1>2. OnlyMoves(p) /\ NoRequote(p)
  BY <1>1, ToLabel, ToReturn DEF Labels
<1>3. Open \subseteq gridIds'
  BY DEF Start, Recovered
<1>4. \A o \in Id : OpenAlone(o)' => o \in gridIds'
  BY <1>3 DEF OpenAlone, Open
<1> QED
  BY <1>2, <1>4, TrackStep

LEMMA ToStop ==
  ASSUME TrackInv, TypeInv, NEW p \in Proc, NEW why, NEW then, Stop(p, why, then),
         then # "requote"
  PROVE  OnlyMoves(p) /\ NoRequote(p)
<1>1. fr'[p].then = then /\ pc'[p] = "banking"
  <2>1. fr[p] \in Frame
    BY FrameOf DEF TypeInv
  <2>2. fr'[p] = [fr[p] EXCEPT !.why = why, !.then = then] /\ pc'[p] = "banking"
    BY DEF Stop, Goto, Local, TypeInv, TasksOK
  <2> QED
    BY <2>1, <2>2 DEF Frame
<1> QED
  BY <1>1, MovesOnly DEF Stop, NoRequote

LEMMA ToDeploy ==
  ASSUME TrackInv, TypeInv, NEW p \in Proc, NEW c \in Int, Deploy(p, c)
  PROVE  OnlyMoves(p) /\ NoRequote(p)
<1>1. fr[p] \in Frame /\ fr[p].then # "requote"
  BY FrameOf DEF TypeInv, TrackInv
<1>2. PICK f \in Frame : Local(p, f) /\ f.then # "requote"
  <2>1. /\ [fr[p] EXCEPT !.quote = c, !.ids = {}, !.lvls = Levels(c)] \in Frame
        /\ [fr[p] EXCEPT !.quote = c, !.ids = {}, !.lvls = Levels(c)].then = fr[p].then
    BY <1>1, LevelsType DEF Frame
  <2>2. /\ [fr[p] EXCEPT !.quote = c, !.ids = {}, !.lvls = {}] \in Frame
        /\ [fr[p] EXCEPT !.quote = c, !.ids = {}, !.lvls = {}].then = fr[p].then
    BY <1>1 DEF Frame
  <2> QED
    BY <1>1, <2>1, <2>2 DEF Deploy
<1>3. Goto(p, "place")
  BY DEF Deploy
<1> QED
  BY <1>2, <1>3, ToLabel DEF Labels

(* the placements of a deployment *)
LEMMA PlaceLevelTrack ==
  ASSUME TrackInv, TypeInv, NEW p \in Proc, NEW l \in fr[p].lvls, PlaceLevel(p, l)
  PROVE  TrackInv'
<1>1. fr[p] \in Frame /\ fr[p].then # "requote" /\ pc' = pc /\ gridIds' = gridIds /\ isActive' = isActive
  BY FrameOf DEF TypeInv, TrackInv, PlaceLevel, session
<1> DEFINE f == [fr[p] EXCEPT !.lvls = @ \ {l}]
           g(n) == [fr[p] EXCEPT !.lvls = @ \ {l}, !.ids = @ \cup {n}]
<1>2. /\ f.then = fr[p].then /\ f.ids = fr[p].ids
      /\ f.cur = fr[p].cur /\ f.new = fr[p].new
  BY <1>1 DEF Frame
<1>3. ASSUME NEW n \in Id
      PROVE  /\ g(n).then = fr[p].then /\ g(n).ids = fr[p].ids \cup {n}
             /\ g(n).cur = fr[p].cur /\ g(n).new = fr[p].new
  BY <1>1 DEF Frame
<1>4. \A h : Local(p, h) => fr'[p] = h
  BY DEF Local, TypeInv, TasksOK
<1>5. \/ UNCHANGED ord /\ Local(p, f)
      \/ \E n \in Id : Local(p, g(n)) /\ \A o \in Id : o # n => ord'[o] = ord[o]
  <2>1. CASE UNCHANGED ord /\ Local(p, f)
    BY <2>1
  <2>2. CASE Fresh # {} /\ LET n == CHOOSE o \in Fresh : TRUE
                           IN  /\ ord' = [ord EXCEPT ![n] = Placed(SideOf(p, l), l)]
                               /\ Local(p, g(n))
    <3> DEFINE n == CHOOSE o \in Fresh : TRUE
    <3>1. n \in Id
      BY <2>2 DEF Fresh
    <3>2. Local(p, g(n)) /\ \A o \in Id : o # n => ord'[o] = ord[o]
      BY <2>2 DEF TypeInv, OrdersOK
    <3> HIDE DEF n
    <3> QED
      BY <3>1, <3>2
  <2> QED
    BY <2>1, <2>2 DEF PlaceLevel
<1> HIDE DEF f, g
<1>6. OnlyMoves(p) /\ fr'[p].then = fr[p].then /\ fr[p].ids \subseteq fr'[p].ids
      /\ fr'[p].cur = fr[p].cur /\ fr'[p].new = fr[p].new
  BY <1>1, <1>2, <1>3, <1>4, <1>5, MovesOnly
<1>7. \A o \in Id : InHand(o) => InHand(o)'
  BY <1>1, <1>6, LoopIsTask DEF InHand, OnlyMoves
<1>8. \A o \in Id : OpenAlone(o)' => OpenAlone(o) \/ InHand(o)'
  <2>1. CASE UNCHANGED ord
    BY <2>1, SameAlone
  <2>2. ASSUME NEW n \in Id, Local(p, g(n)), \A o \in Id : o # n => ord'[o] = ord[o],
               NEW o \in Id, OpenAlone(o)'
        PROVE  OpenAlone(o) \/ InHand(o)'
    <3>1. CASE o # n
      BY <2>2, <3>1 DEF OpenAlone
    <3>2. CASE o = n
      <4>1. pc'[p] = "place" /\ o \in fr'[p].ids
        BY <1>1, <1>3, <1>4, <2>2, <3>2 DEF PlaceLevel
      <4> QED
        BY <4>1 DEF InHand
    <3> QED
      BY <3>1, <3>2
  <2> QED
    BY <1>5, <2>1, <2>2
<1>9. NoRequote(p)
  BY <1>1, <1>6 DEF NoRequote, TrackInv
<1> QED
  BY <1>1, <1>6, <1>7, <1>8, <1>9, TrackStep DEF TrackInv

LEMMA RecordLevelTrack ==
  ASSUME TrackInv, TypeInv, NEW p \in Proc, NEW o \in Id, RecordLevel(p, o)
  PROVE  TrackInv'
<1>1. pc' = pc /\ fr' = fr /\ gridIds' = gridIds /\ isActive' = isActive
  BY DEF RecordLevel, session
<1>2. \A i \in Id : InHand(i)' = InHand(i)
  BY <1>1 DEF InHand
<1>3. InHand(o)
  BY DEF RecordLevel, InHand
<1>4. \A i \in Id : i # o => ord'[i] = ord[i]
  BY DEF RecordLevel, TypeInv, OrdersOK
<1> QED
  BY <1>1, <1>2, <1>3, <1>4 DEF TrackInv, OpenAlone

(* the placed orders become the grid's *)
LEMMA DeployDoneTrack ==
  ASSUME TrackInv, TypeInv, NEW p \in Proc, DeployDone(p)
  PROVE  TrackInv'
<1>1. OnlyMoves(p) /\ NoRequote(p)
  <2>1. CASE Goto(p, "starting") /\ Local(p, Blank)
    BY <2>1, BlankType, ToLabel DEF Labels, Blank
  <2>2. CASE StartReturns(p)
    BY <2>2, ToStartReturns
  <2> QED
    BY <2>1, <2>2 DEF DeployDone
<1>2. isActive' = isActive /\ gridIds' = gridIds \cup fr[p].ids /\ pc[p] = "place"
  BY DEF DeployDone
<1>3. \A o \in Id : InHand(o) => o \in gridIds' \/ InHand(o)'
  BY <1>1, <1>2, LoopIsTask DEF InHand, OnlyMoves
<1>4. \A o \in Id : OpenAlone(o)' => OpenAlone(o)
  BY SameAlone DEF DeployDone
<1> QED
  BY <1>1, <1>2, <1>3, <1>4, TrackStep DEF TrackInv

LEMMA StopDoneTrack ==
  ASSUME TrackInv, TypeInv, NEW p \in Proc, StopDone(p)
  PROVE  TrackInv'
<1>1. fr[p] \in Frame /\ fr[p].px \in Int /\ fr[p].then # "requote"
  BY FrameOf DEF TypeInv, Frame, TrackInv
<1>2. /\ [fr[p] EXCEPT !.quote = fr[p].px, !.lvls = Levels(fr[p].px)] \in Frame
      /\ [fr[p] EXCEPT !.quote = fr[p].px, !.lvls = Levels(fr[p].px)].then = fr[p].then
  BY <1>1, LevelsType DEF Frame
<1>3. \/ /\ Goto(p, "place")
         /\ \/ Local(p, [fr[p] EXCEPT !.quote = fr[p].px, !.lvls = Levels(fr[p].px)])
            \/ UNCHANGED fr
      \/ Goto(p, "off") /\ Local(p, Blank)
      \/ Return(p)
  BY DEF StopDone
<1>4. Blank.then # "requote"
  BY DEF Blank
<1>5. OnlyMoves(p) /\ NoRequote(p)
  BY <1>1, <1>2, <1>3, <1>4, BlankType, ToLabel, ToReturn DEF Labels
<1>6. isActive' = FALSE
  BY DEF StopDone
<1> QED
  BY <1>5, <1>6, TrackStep

LEMMA CancelOneTrack ==
  ASSUME TrackInv, TypeInv, NEW p \in Proc, NEW o \in Id, CancelOne(p, o) \/ RecordCancel(p, o)
  PROVE  TrackInv'
<1>1. fr[p] \in Frame /\ fr[p].then # "requote"
  BY FrameOf DEF TypeInv, TrackInv
<1>2. PICK g : /\ Local(p, g)
               /\ \/ g = [fr[p] EXCEPT !.ids = @ \ {o}]
                  \/ g = [fr[p] EXCEPT !.acked = @ \cup {o}]
                  \/ g = [fr[p] EXCEPT !.ids = @ \ {o}, !.acked = @ \ {o}]
  BY DEF CancelOne, RecordCancel, CancelFailed
<1>3. g.then = fr[p].then
  <2>1. SameLocals(fr[p], g)
    BY <1>1, <1>2, CancelFrames
  <2> QED
    BY <2>1 DEF SameLocals
<1>4. fr'[p].then # "requote" /\ pc' = pc
  BY <1>1, <1>2, <1>3 DEF CancelOne, RecordCancel, Local, TypeInv, TasksOK
<1>5. OnlyMoves(p) /\ NoRequote(p)
  BY <1>2, <1>4, MovesOnly DEF NoRequote, TrackInv
<1>6. \A i \in Id : OpenAlone(i)' => OpenAlone(i)
  <2>1. \A i \in Id : i # o => ord'[i] = ord[i]
    BY DEF CancelOne, RecordCancel, Cancelled, TypeInv, OrdersOK
  <2>2. ord'[o] = ord[o] \/ ord'[o].st = "CANCELLED" \/ ord'[o].ex = "cancelled"
    BY DEF CancelOne, RecordCancel, Cancelled, TypeInv, OrdersOK, Order
  <2> QED
    BY <2>1, <2>2 DEF OpenAlone
<1> QED
  BY <1>5, <1>6, TaskMoves DEF CancelOne, RecordCancel, session

LEMMA LifecycleTrack ==
  ASSUME TrackInv, TypeInv, NEW p \in Proc, Lifecycle(p)
  PROVE  TrackInv'
<1>1. fr[p] \in Frame /\ fr[p].quote \in Int /\ fr[p].then # "requote" /\ pc[p] # "requote"
  BY FrameOf DEF TypeInv, Frame, TrackInv
<1>2. ASSUME Quote(p) PROVE TrackInv'
  <2>1. price \in Int
    BY ConstantsAssumption DEF TypeInv, OutsideOK
  <2>2. /\ [fr[p] EXCEPT !.quote = price] \in Frame
        /\ [fr[p] EXCEPT !.quote = price].then = fr[p].then
    BY <1>1, <2>1 DEF Frame
  <2>3. OnlyMoves(p) /\ NoRequote(p)
    <3>1. CASE Goto(p, "regime") /\ Local(p, [fr[p] EXCEPT !.quote = price])
      BY <1>1, <2>2, <3>1, ToLabel DEF Labels
    <3> QED
      BY <1>2, <3>1, ToStartReturns DEF Quote
  <2> QED
    BY <1>2, <2>3, TaskMoves, SameAlone DEF Quote, session
<1>3. ASSUME StopPersists(p) PROVE TrackInv'
  <2>1. /\ [fr[p] EXCEPT !.ids = ToCancel] \in Frame
        /\ [fr[p] EXCEPT !.ids = ToCancel].then = fr[p].then
    BY <1>1, ToCancelType DEF Frame
  <2>2. OnlyMoves(p) /\ NoRequote(p)
    BY <1>1, <1>3, <2>1, ToLabel DEF Labels, StopPersists
  <2> QED
    BY <1>3, <2>2, TaskMoves, SameAlone DEF StopPersists, session
<1>4. ASSUME StartRefused(p) PROVE TrackInv'
  BY <1>4, ToReturn, TaskMoves, SameAlone DEF StartRefused, session
<1>5. ASSUME StartSession(p) PROVE TrackInv'
  BY <1>5, ToStart DEF StartSession
<1>6. ASSUME RegimeChecked(p) PROVE TrackInv'
  <2>1. OnlyMoves(p) /\ NoRequote(p)
    BY <1>1, <1>6, ToDeploy, ToStartReturns DEF RegimeChecked
  <2>2. gridIds' = gridIds /\ (isActive' => isActive) /\ pc[p] = "regime" /\ UNCHANGED ord
    BY <1>6 DEF RegimeChecked, Deploy, session
  <2> QED
    BY <2>1, <2>2, TaskMoves, SameAlone
<1>7. ~ReinvestCancels(p) /\ ~ReinvestResets(p) /\ ~ReinvestDeploys(p)
  BY <1>1 DEF ReinvestCancels, ReinvestResets, ReinvestDeploys
<1> QED
  BY <1>2, <1>3, <1>4, <1>5, <1>6, <1>7, PlaceLevelTrack, RecordLevelTrack, DeployDoneTrack,
     CancelOneTrack, StopDoneTrack DEF Lifecycle

(* handle_fill(): the order being handled, then its counter-order *)
LEMMA HandlingTrack ==
  ASSUME TrackInv, TypeInv, Remembering,
         BookFill \/ PlaceCounter \/ RecordCounter \/ CounterFails \/ FillDone
  PROVE  TrackInv'
<1>1. fr[Loop] \in Frame /\ fr[Loop].then # "requote"
  BY FrameOf, LoopIsTask DEF TypeInv, TrackInv
<1>2. CASE BookFill
  <2>1. /\ OnlyMoves(Loop) /\ NoRequote(Loop)
        /\ pc'[Loop] = "closing" /\ fr' = fr /\ pc[Loop] = "logging"
    BY <1>2, LoopIsTask, ToLabel DEF BookFill, Labels, Goto, TypeInv, TasksOK
  <2>2. \A o \in Id : InHand(o) => InHand(o)'
    BY <2>1, LoopIsTask, CarriedInHand
  <2>3. \A o \in Id : o = fr[Loop].cur => InHand(o)'
    BY <2>1 DEF InHand
  <2>4. gridIds' = gridIds \ {fr[Loop].cur} /\ isActive' = isActive /\ UNCHANGED ord
    BY <1>2 DEF BookFill
  <2>5. \A o \in Id : OpenAlone(o)' => OpenAlone(o)
    BY <2>4, SameAlone
  <2> QED
    BY <2>1, <2>2, <2>3, <2>4, <2>5, LoopIsTask, TrackStep DEF TrackInv
<1>3. CASE PlaceCounter
  <2> DEFINE n == CHOOSE f \in Fresh : TRUE
             o == fr[Loop].cur
  <2>1. n \in Id /\ o \in Id
    BY <1>3 DEF PlaceCounter, Fresh, TypeInv, TasksOK, CurrentFill
  <2>2. /\ ord' = [ord EXCEPT ![n] = CounterOf(o), ![o].kids = MoreKids(@)]
        /\ Local(Loop, [fr[Loop] EXCEPT !.new = n]) /\ Goto(Loop, "adding")
        /\ pc[Loop] = "closing" /\ isActive' = isActive /\ gridIds' = gridIds
    BY <1>3 DEF PlaceCounter, session
  <2> HIDE DEF n, o
  <2>3. [fr[Loop] EXCEPT !.new = n] \in Frame /\ [fr[Loop] EXCEPT !.new = n].then = fr[Loop].then
        /\ [fr[Loop] EXCEPT !.new = n].new = n
    BY <1>1, <2>1 DEF Frame
  <2>4. OnlyMoves(Loop) /\ NoRequote(Loop)
    BY <1>1, <2>2, <2>3, LoopIsTask, ToLabel DEF Labels
  <2>5. pc'[Loop] = "adding" /\ fr'[Loop].new = n
    BY <2>2, <2>3, LoopIsTask DEF Goto, Local, TypeInv, TasksOK
  <2>6. \A i \in Id : i # n /\ i # o => ord'[i] = ord[i]
    BY <2>2 DEF TypeInv, OrdersOK
  <2>7. o # n => ord'[o].kids # 0
    <3>1. o # n => ord'[o] = [ord[o] EXCEPT !.kids = MoreKids(@)]
      BY <2>1, <2>2 DEF TypeInv, OrdersOK
    <3>2. ord[o] \in Order
      BY <2>1 DEF TypeInv, OrdersOK
    <3>3. [ord[o] EXCEPT !.kids = MoreKids(@)].kids # 0
      BY <3>2 DEF Order, MoreKids
    <3> QED
      BY <3>1, <3>3
  <2>8. \A i \in Id : InHand(i) => i = o \/ InHand(i)'
    BY <2>2, <2>4, <2>5, LoopIsTask DEF InHand, OnlyMoves, o
  <2>9. \A i \in Id : i = n => InHand(i)'
    BY <2>5 DEF InHand
  <2>10. ASSUME NEW i \in Id, OpenAlone(i)', isActive' PROVE (i \in gridIds \/ InHand(i))'
    <3>1. CASE i = n
      BY <2>9, <3>1
    <3>2. CASE i # n
      BY <2>2, <2>6, <2>7, <2>8, <2>10, <3>2 DEF TrackInv, OpenAlone
    <3> QED
      BY <3>1, <3>2
  <2> QED
    BY <2>4, <2>10, LoopIsTask, TrackStep
<1>4. CASE RecordCounter
  <2> DEFINE n == fr[Loop].new
  <2>1. /\ pc' = pc /\ fr' = fr /\ gridIds' = gridIds /\ isActive' = isActive
        /\ InHand(n)
    BY <1>4 DEF RecordCounter, session, InHand
  <2>2. \A i \in Id : InHand(i)' = InHand(i)
    BY <2>1 DEF InHand
  <2>3. \A i \in Id : i # n => ord'[i] = ord[i]
    BY <1>4 DEF RecordCounter, TypeInv, OrdersOK
  <2> HIDE DEF n
  <2>4. \A i \in Id : OpenAlone(i)' => OpenAlone(i) \/ InHand(i)
    BY <2>1, <2>3 DEF OpenAlone
  <2> QED
    BY <2>1, <2>2, <2>4 DEF TrackInv
<1>5. CASE FillDone
  <2>1. /\ [fr[Loop] EXCEPT !.cur = None, !.new = None] \in Frame
        /\ [fr[Loop] EXCEPT !.cur = None, !.new = None].then = fr[Loop].then
    BY <1>1 DEF Frame
  <2>2. /\ Local(Loop, [fr[Loop] EXCEPT !.cur = None, !.new = None]) /\ Goto(Loop, "next")
        /\ pc[Loop] = "adding" /\ isActive' = isActive
        /\ gridIds' = gridIds \cup Added(fr[Loop].new) /\ ord' = AfterFill(fr[Loop].cur)
    BY <1>5 DEF FillDone
  <2>3. OnlyMoves(Loop) /\ NoRequote(Loop)
    BY <1>1, <2>1, <2>2, LoopIsTask, ToLabel DEF Labels
  <2>4. \A o \in Id : InHand(o) => o \in gridIds' \/ InHand(o)'
    <3>1. \A o \in Id : o = fr[Loop].new => o \in gridIds'
      BY <2>2, ConstantsAssumption DEF Added
    <3> QED
      BY <2>2, <2>3, <3>1, LoopIsTask DEF InHand, OnlyMoves
  <2>5. \A o \in Id : OpenAlone(o)' => OpenAlone(o)
    <3>1. \A o \in Id : ord'[o] = ord[o] \/ ord'[o].st = "FILLED"
      BY <2>2 DEF AfterFill, TypeInv, OrdersOK, Order
    <3> QED
      BY <3>1 DEF OpenAlone
  <2> QED
    BY <2>2, <2>3, <2>4, <2>5, LoopIsTask, TrackStep DEF TrackInv
<1>6. ~CounterFails
  BY DEF CounterFails, Remembering
<1> QED
  BY <1>2, <1>3, <1>4, <1>5, <1>6

LEMMA FillsTrack ==
  ASSUME TrackInv, TypeInv, NEW o \in Id, HandleFill(o) \/ IgnoreFill(o) \/ AbortTick(o)
  PROVE  TrackInv'
<1>1. fr[Loop] \in Frame /\ fr[Loop].then # "requote" /\ pc[Loop] = "next"
  BY FrameOf, LoopIsTask DEF TypeInv, TrackInv, HandleFill, IgnoreFill, AbortTick
<1>2. /\ [fr[Loop] EXCEPT !.cur = o, !.fills[o] = @ - 1].then = fr[Loop].then
      /\ [fr[Loop] EXCEPT !.fills[o] = @ - 1].then = fr[Loop].then
  BY <1>1 DEF Frame
<1>3. OnlyMoves(Loop) /\ NoRequote(Loop)
  <2>1. CASE HandleFill(o)
    <3>1. fr'[Loop].then = fr[Loop].then /\ pc'[Loop] = "logging"
      BY <1>2, <2>1, LoopIsTask DEF HandleFill, Goto, Local, TypeInv, TasksOK
    <3> QED
      BY <1>1, <2>1, <3>1, LoopIsTask, MovesOnly DEF HandleFill, NoRequote
  <2>2. CASE IgnoreFill(o)
    <3>1. fr'[Loop].then = fr[Loop].then /\ pc' = pc
      BY <1>2, <2>2, LoopIsTask DEF IgnoreFill, Local, TypeInv, TasksOK
    <3> QED
      BY <1>1, <2>2, <3>1, LoopIsTask, MovesOnly DEF IgnoreFill, NoRequote
  <2>3. CASE AbortTick(o)
    BY <2>3, LoopIsTask, ToReturn DEF AbortTick
  <2> QED
    BY <2>1, <2>2, <2>3
<1>4. \A i \in Id : OpenAlone(i)' => OpenAlone(i)
  <2>1. CASE IgnoreFill(o)
    <3>1. \A i \in Id : ord'[i] = ord[i] \/ ord'[i].st = "FILLED"
      BY <2>1 DEF IgnoreFill, AfterFill, TypeInv, OrdersOK, Order
    <3> QED
      BY <3>1 DEF OpenAlone
  <2> QED
    BY <2>1, SameAlone DEF HandleFill, AbortTick
<1> QED
  BY <1>1, <1>3, <1>4, LoopIsTask, TaskMoves DEF HandleFill, IgnoreFill, AbortTick, session

(* the rest of a tick leaves the orders alone *)
LEMMA TickTrack ==
  ASSUME TrackInv, TypeInv, Remembering, Tick
  PROVE  TrackInv'
<1>1. fr[Loop] \in Frame /\ fr[Loop].then # "requote" /\ fr[Loop].px \in Int
      /\ price \in Int /\ Open \subseteq Id
  BY FrameOf, LoopIsTask, ConstantsAssumption DEF TypeInv, TrackInv, Frame, OutsideOK, Open
<1>2. ASSUME BotTick \/ CandlesArrive \/ TradesArrive \/ SecondPass \/ TickDrift
             \/ TickHolding \/ TickTakesProfit \/ TickTrending
      PROVE  OnlyMoves(Loop) /\ NoRequote(Loop)
  <2>1. \A px \in Int : {NoFills, SimFills(px), Trades} \subseteq [Id -> 0..MaxTrades]
    BY FillsType DEF TypeInv
  <2>2. \A l \in {"candles", "trades", "next"} : l \in Labels \ {"requote"}
    BY DEF Labels
  <2>3. CASE BotTick
    <3>1. /\ [fr[Loop] EXCEPT !.then = "guards"] \in Frame
          /\ [fr[Loop] EXCEPT !.then = "guards"].then = "guards"
      BY <1>1 DEF Frame
    <3> QED
      BY <2>2, <2>3, <3>1, LoopIsTask, ToLabel DEF BotTick
  <2>4. CASE CandlesArrive
    <3> DEFINE fills == IF Live THEN NoFills ELSE SimFills(price)
               f == [fr[Loop] EXCEPT !.px = price, !.known = Open, !.fills = fills]
               l == IF Live THEN "trades" ELSE "next"
    <3>1. (Local(Loop, f) /\ Goto(Loop, l)) \/ Return(Loop)
      BY <2>4 DEF CandlesArrive
    <3>2. fills \in [Id -> 0..MaxTrades] /\ l \in Labels \ {"requote"}
      BY <1>1, <2>1, <2>2
    <3> HIDE DEF fills, l
    <3>3. f \in Frame /\ f.then = fr[Loop].then
      BY <1>1, <3>2 DEF Frame
    <3> HIDE DEF f
    <3> QED
      BY <1>1, <3>1, <3>2, <3>3, LoopIsTask, ToLabel, ToReturn
  <2>5. CASE TradesArrive
    <3>1. \A g \in [Id -> 0..MaxTrades] : /\ [fr[Loop] EXCEPT !.fills = g] \in Frame
                                          /\ [fr[Loop] EXCEPT !.fills = g].then = fr[Loop].then
      BY <1>1 DEF Frame
    <3>2. {NoFills, Trades} \subseteq [Id -> 0..MaxTrades]
      BY <1>1, <2>1
    <3>3. \E f \in Frame : Local(Loop, f) /\ f.then # "requote"
      BY <1>1, <2>5, <3>1, <3>2 DEF TradesArrive
    <3> QED
      BY <2>2, <2>5, <3>3, LoopIsTask, ToLabel DEF TradesArrive
  <2>6. CASE SecondPass
    <3> DEFINE fills == IF Live THEN NoFills ELSE SimFills(fr[Loop].px)
               f == [fr[Loop] EXCEPT !.pass = 2, !.known = {}, !.fills = fills]
               l == IF Live THEN "trades" ELSE "next"
    <3>1. Local(Loop, f) /\ Goto(Loop, l)
      BY <2>6 DEF SecondPass
    <3>2. fills \in [Id -> 0..MaxTrades] /\ l \in Labels \ {"requote"}
      BY <1>1, <2>1, <2>2
    <3> HIDE DEF fills, l
    <3>3. f \in Frame /\ f.then = fr[Loop].then
      BY <1>1, <3>2 DEF Frame
    <3> HIDE DEF f
    <3> QED
      BY <1>1, <3>1, <3>2, <3>3, LoopIsTask, ToLabel
  <2>7. CASE TickDrift \/ TickHolding \/ TickTakesProfit \/ TickTrending
    <3>1. Return(Loop) \/ \E why, then : Stop(Loop, why, then) /\ then # "requote"
      BY <2>7 DEF TickDrift, TickHolding, TickTakesProfit, TickTrending, Remembering
    <3> QED
      BY <3>1, LoopIsTask, ToReturn, ToStop
  <2> QED
    BY <1>2, <2>3, <2>4, <2>5, <2>6, <2>7
<1>3. ASSUME BotTick \/ CandlesArrive \/ TradesArrive \/ SecondPass \/ TickDrift
             \/ TickHolding \/ TickTakesProfit \/ TickTrending
      PROVE  TrackInv'
  <2>1. isActive' = isActive /\ gridIds' = gridIds /\ UNCHANGED ord
    BY <1>3 DEF BotTick, CandlesArrive, TradesArrive, SecondPass, TickDrift, TickHolding,
       TickTakesProfit, TickTrending, session
  <2>2. pc[Loop] \notin {"place", "closing", "adding"}
    BY <1>3 DEF BotTick, CandlesArrive, TradesArrive, SecondPass, TickDrift, TickHolding,
       TickTakesProfit, TickTrending, AtGuards, TickEntered
  <2> QED
    BY <1>2, <1>3, <2>1, <2>2, LoopIsTask, TaskMoves, SameAlone
<1>4. ASSUME Boot PROVE TrackInv'
  BY <1>4, LoopIsTask, ToStart DEF Boot
<1>5. ASSUME TickStopped PROVE TrackInv'
  <2>1. CASE Start(Loop, None)
    BY <1>5, <2>1, LoopIsTask, ToStart DEF TickStopped
  <2>2. CASE ~Start(Loop, None)
    <3>1. Return(Loop) \/ (Goto(Loop, "guards") /\ UNCHANGED fr)
      BY <1>5, <2>2 DEF TickStopped
    <3>2. OnlyMoves(Loop) /\ NoRequote(Loop)
      BY <3>1, LoopIsTask, ToReturn, ToLabel DEF Labels
    <3>3. isActive' = isActive /\ gridIds' = gridIds /\ UNCHANGED ord /\ pc[Loop] = "next"
      BY <1>5, <2>2 DEF TickStopped, TickEntered, session
    <3> QED
      BY <3>2, <3>3, LoopIsTask, TaskMoves, SameAlone
  <2> QED
    BY <2>1, <2>2
<1> QED
  BY <1>3, <1>4, <1>5, FillsTrack, HandlingTrack DEF Tick

LEMMA EnvironmentTrack ==
  ASSUME TrackInv, TypeInv, Environment \/ PruneArchive \/ PersistState \/ UNCHANGED vars
  PROVE  TrackInv'
<1>1. ASSUME Crash PROVE TrackInv'
  <2>1. \A p \in Proc : fr'[p] = Blank /\ pc'[p] \in {"boot", "done"}
    BY <1>1 DEF Crash
  <2> QED
    BY <1>1, <2>1 DEF TrackInv, Crash, Blank
<1>2. ASSUME UNCHANGED <<pc, fr>>, isActive' = isActive, gridIds' = gridIds,
             \A o \in Id : OpenAlone(o)' => OpenAlone(o)
      PROVE  TrackInv'
  <2>1. \A o \in Id : InHand(o)' = InHand(o)
    BY <1>2 DEF InHand
  <2> QED
    BY <1>2, <2>1 DEF TrackInv
<1>4. ASSUME NEW p \in Proc, NEW l \in fr[p].lvls, LevelReplyLost(p, l) PROVE TrackInv'
  <2> DEFINE n == CHOOSE f \in Fresh : TRUE
  <2>1. n \in Id
    BY <1>4 DEF LevelReplyLost, Fresh
  <2>2. ord'[n].st = "sent" /\ \A o \in Id : o # n => ord'[o] = ord[o]
    BY <1>4, <2>1 DEF LevelReplyLost, Placed, TypeInv, OrdersOK
  <2> HIDE DEF n
  <2>3. \A o \in Id : OpenAlone(o)' => OpenAlone(o)
    BY <2>2 DEF OpenAlone
  <2> QED
    BY <1>2, <1>4, <2>3 DEF LevelReplyLost, session
<1>5. ASSUME CounterReplyLost PROVE TrackInv'
  <2> DEFINE n == CHOOSE f \in Fresh : TRUE
             o == fr[Loop].cur
  <2>1. n \in Id /\ o \in Id
    BY <1>5 DEF CounterReplyLost, Fresh, TypeInv, TasksOK, CurrentFill
  <2>2. ord' = [ord EXCEPT ![n] = CounterOf(o), ![o].kids = MoreKids(@)] /\ Live
    BY <1>5 DEF CounterReplyLost
  <2> HIDE DEF n, o
  <2>3. CounterOf(o).st = "sent" /\ CounterOf(o) \in Order /\ ord[o] \in Order
    BY <2>1, <2>2, CounterType DEF CounterOf, Placed, TypeInv, OrdersOK
  <2>4. \A i \in Id : i # n /\ i # o => ord'[i] = ord[i]
    BY <2>2 DEF TypeInv, OrdersOK
  <2>5. ord'[n].st = "sent"
    BY <2>1, <2>2, <2>3 DEF TypeInv, OrdersOK, Order
  <2>6. o # n => ord'[o].kids # 0
    <3>1. o # n => ord'[o] = [ord[o] EXCEPT !.kids = MoreKids(@)]
      BY <2>1, <2>2 DEF TypeInv, OrdersOK
    <3>2. [ord[o] EXCEPT !.kids = MoreKids(@)].kids # 0
      BY <2>3 DEF Order, MoreKids
    <3> QED
      BY <3>1, <3>2
  <2>7. \A i \in Id : OpenAlone(i)' => OpenAlone(i)
    BY <2>4, <2>5, <2>6 DEF OpenAlone
  <2> QED
    BY <1>2, <1>5, <2>7 DEF CounterReplyLost, session
<1>6. ASSUME NEW o \in Id, ExchangeTrades(o) PROVE TrackInv'
  <2>1. \A i \in Id : ord'[i].st = ord[i].st /\ ord'[i].kids = ord[i].kids
                      /\ (ord'[i].ex = ord[i].ex \/ ord[i].ex = "open")
    BY <1>6 DEF ExchangeTrades, TypeInv, OrdersOK, Order
  <2> QED
    BY <1>2, <1>6, <2>1 DEF ExchangeTrades, OpenAlone, session
<1>8. ASSUME PruneArchive PROVE TrackInv'
  <2>1. \A i \in Id : ord'[i] = ord[i] \/ ord'[i].st = "free"
    BY <1>8 DEF PruneArchive, Free
  <2> QED
    BY <1>2, <1>8, <2>1 DEF PruneArchive, OpenAlone, session
<1>9. ASSUME PersistState \/ UNCHANGED vars \/ (\E q \in Prices : MarketMoves(q)) PROVE TrackInv'
  <2>1. UNCHANGED ord /\ UNCHANGED <<pc, fr>> /\ isActive' = isActive /\ gridIds' = gridIds
    BY <1>9 DEF PersistState, vars, MarketMoves, session
  <2> QED
    BY <1>2, <2>1, SameAlone
<1> QED
  BY <1>1, <1>4, <1>5, <1>6, <1>8, <1>9 DEF Environment

(* the verdict of a reconciliation opens no record anew, but that of an     *)
(* order whose cancel was confirmed                                         *)
LEMMA ReconcileTrack ==
  ASSUME TrackInv, ListInv, TypeInv, NEW o \in Id, Reconcile(o)
  PROVE  TrackInv'
<1>1. fr[Loop] \in Frame /\ fr[Loop].known \ {o} \in SUBSET Id /\ fr[Loop].then # "requote"
  BY FrameOf, LoopIsTask DEF TypeInv, Frame, TrackInv
<1> DEFINE g == [fr[Loop] EXCEPT !.known = fr[Loop].known \ {o}]
<1>2. g \in Frame /\ g.then = fr[Loop].then /\ Local(Loop, g)
  BY <1>1, ReconcileFrames DEF Reconcile
<1> HIDE DEF g
<1>3. OnlyMoves(Loop) /\ NoRequote(Loop)
  <2>1. fr'[Loop] = g /\ pc' = pc
    BY <1>2, LoopIsTask DEF Reconcile, Local, TypeInv, TasksOK
  <2> QED
    BY <1>1, <1>2, <2>1, LoopIsTask, MovesOnly DEF Reconcile, NoRequote, TrackInv
<1>4. Known(o) /\ ord[o] \in Order
  BY DEF ListInv, Listing, Reconcile, TypeInv, OrdersOK
<1>5. \A i \in Id : OpenAlone(i)' => OpenAlone(i)
  <2>1. \A i \in Id : i # o => ord'[i] = ord[i]
    BY DEF Reconcile, TypeInv, OrdersOK
  <2>2. ord'[o].ex = ord[o].ex /\ ord'[o].kids = ord[o].kids
    BY <1>4 DEF Reconcile, TypeInv, OrdersOK, Order
  <2> QED
    BY <1>4, <2>1, <2>2 DEF OpenAlone, Known, Confirmed
<1> QED
  BY <1>3, <1>5, LoopIsTask, TaskMoves DEF Reconcile, session

LEMMA ReconciliationTrack ==
  ASSUME TrackInv, ListInv, TypeInv, Reconciliation
  PROVE  TrackInv'
<1>1. fr[Loop] \in Frame /\ Open \in SUBSET Id /\ {o \in Id : ord[o].ex = "open"} \in SUBSET Id
      /\ fr[Loop].then # "requote"
  BY FrameOf, LoopIsTask DEF TypeInv, Open, TrackInv
<1>2. {"listing", "verifying"} \subseteq Labels \ {"requote"}
  BY DEF Labels
<1>5. \A s \in SUBSET Id : /\ [fr[Loop] EXCEPT !.known = s] \in Frame
                            /\ [fr[Loop] EXCEPT !.known = s].then = fr[Loop].then
                            /\ [fr[Loop] EXCEPT !.ids = s] \in Frame
                            /\ [fr[Loop] EXCEPT !.ids = s].then = fr[Loop].then
  BY <1>1 DEF Frame
<1>3. ASSUME ReconcileStarts \/ ReconcileLists \/ ReconcileDone
      PROVE  OnlyMoves(Loop) /\ NoRequote(Loop)
  <2>1. CASE ReconcileStarts
    BY <1>1, <1>2, <1>5, <2>1, LoopIsTask, ToLabel DEF ReconcileStarts
  <2>2. CASE ReconcileLists
    <3> DEFINE resting == {o \in Id : ord[o].ex = "open"}
    <3>1. resting \in SUBSET Id
      BY <1>1
    <3>2. Goto(Loop, "verifying") /\ \/ Local(Loop, [fr[Loop] EXCEPT !.ids = resting])
                                     \/ UNCHANGED fr
      BY <2>2 DEF ReconcileLists
    <3> HIDE DEF resting
    <3>3. CASE Local(Loop, [fr[Loop] EXCEPT !.ids = resting])
      <4> DEFINE g == [fr[Loop] EXCEPT !.ids = resting]
      <4>1. g \in Frame /\ g.then # "requote"
        BY <1>1, <1>5, <3>1
      <4>2. Local(Loop, g)
        BY <3>3
      <4> HIDE DEF g
      <4> QED
        BY <1>2, <3>2, <4>1, <4>2, LoopIsTask, ToLabel
    <3>4. CASE UNCHANGED fr
      BY <1>1, <1>2, <3>2, <3>4, LoopIsTask, ToLabel
    <3> QED
      BY <3>2, <3>3, <3>4
  <2>3. CASE ReconcileDone
    BY <2>3, LoopIsTask, ToReturn DEF ReconcileDone
  <2> QED
    BY <1>3, <2>1, <2>2, <2>3
<1>4. ASSUME ReconcileStarts \/ ReconcileLists \/ ReconcileDone
      PROVE  TrackInv'
  BY <1>3, <1>4, LoopIsTask, TaskMoves, SameAlone
  DEF ReconcileStarts, ReconcileLists, ReconcileDone, session
<1> QED
  BY <1>4, ReconcileTrack DEF Reconciliation

LEMMA ListInit == Init => ListInv
  BY LoopIsTask DEF Init, ListInv, Listing

(* nothing but a reconciliation lists *)
LEMMA LifecycleMoves ==
  ASSUME TypeInv, NEW p \in Proc, Lifecycle(p)
  PROVE  OnlyMoves(p) /\ ~Listing(pc[p]) /\ ~Listing(pc'[p])
<1>1. ASSUME NEW l \in Labels, Goto(p, l), ~Listing(l) PROVE ~Listing(pc'[p])
  BY <1>1 DEF Goto, TypeInv, TasksOK
<1>2. ASSUME pc' = pc, ~Listing(pc[p]) PROVE ~Listing(pc'[p])
  BY <1>2
<1>3. {"idle", "done", "guards", "quote", "regime", "place", "banking", "cancelling", "starting",
       "requote", "off"} \subseteq {l \in Labels : ~Listing(l)}
  BY DEF Labels, Listing
<1>4. ASSUME StartRefused(p) \/ StartSession(p) \/ Quote(p) \/ RegimeChecked(p)
      PROVE  OnlyMoves(p) /\ ~Listing(pc[p]) /\ ~Listing(pc'[p])
  <2>1. \E l \in {"idle", "done", "guards", "quote", "regime", "place"} : Goto(p, l)
    BY <1>4 DEF StartRefused, StartSession, Quote, RegimeChecked, Start, StartReturns, Deploy, Return
  <2>2. UNCHANGED fr \/ \E f : Local(p, f)
    BY <1>4 DEF StartRefused, StartSession, Quote, RegimeChecked, Start, StartReturns, Deploy, Return
  <2>3. ~Listing(pc[p])
    BY <1>4 DEF StartRefused, StartSession, Quote, RegimeChecked, Listing
  <2> QED
    BY <1>1, <1>3, <2>1, <2>2, <2>3, MovesOnly
<1>5. ASSUME NEW l, PlaceLevel(p, l)
      PROVE  OnlyMoves(p) /\ ~Listing(pc[p]) /\ ~Listing(pc'[p])
  <2>1. UNCHANGED fr \/ \E f : Local(p, f)
    BY <1>5 DEF PlaceLevel
  <2> QED
    BY <1>5, <2>1, MovesOnly DEF PlaceLevel, Listing
<1>6. ASSUME NEW o \in Id, RecordLevel(p, o) \/ CancelOne(p, o) \/ RecordCancel(p, o)
      PROVE  OnlyMoves(p) /\ ~Listing(pc[p]) /\ ~Listing(pc'[p])
  <2>1. UNCHANGED fr \/ \E f : Local(p, f)
    BY <1>6 DEF RecordLevel, CancelOne, RecordCancel
  <2> QED
    BY <1>6, <2>1, MovesOnly DEF RecordLevel, CancelOne, RecordCancel, Listing
<1>7. ASSUME DeployDone(p) \/ StopPersists(p) \/ StopDone(p)
      PROVE  OnlyMoves(p) /\ ~Listing(pc[p]) /\ ~Listing(pc'[p])
  <2>1. \E l \in {"idle", "done", "guards", "starting", "cancelling", "place", "off"} : Goto(p, l)
    BY <1>7 DEF DeployDone, StopPersists, StopDone, StartReturns, Return
  <2>2. UNCHANGED fr \/ \E f : Local(p, f)
    BY <1>7 DEF DeployDone, StopPersists, StopDone, StartReturns, Return
  <2>3. ~Listing(pc[p])
    BY <1>7 DEF DeployDone, StopPersists, StopDone, Listing
  <2> QED
    BY <1>1, <1>3, <2>1, <2>2, <2>3, MovesOnly
<1>8. ASSUME ReinvestCancels(p) \/ ReinvestResets(p) \/ ReinvestDeploys(p)
      PROVE  OnlyMoves(p) /\ ~Listing(pc[p]) /\ ~Listing(pc'[p])
  <2>1. \E l \in {"idle", "done", "cancelling", "requote", "place"} : Goto(p, l)
    BY <1>8 DEF ReinvestCancels, ReinvestResets, ReinvestDeploys, Deploy, Return
  <2>2. UNCHANGED fr \/ \E f : Local(p, f)
    BY <1>8 DEF ReinvestCancels, ReinvestResets, ReinvestDeploys, Deploy, Return
  <2>3. ~Listing(pc[p])
    BY <1>8 DEF ReinvestCancels, ReinvestResets, ReinvestDeploys, Listing
  <2> QED
    BY <1>1, <1>3, <2>1, <2>2, <2>3, MovesOnly
<1> QED
  BY <1>4, <1>5, <1>6, <1>7, <1>8 DEF Lifecycle

LEMMA TickMoves ==
  ASSUME TypeInv, Tick
  PROVE  ~Listing(pc'[Loop])
<1>1. ASSUME NEW l \in Labels, Goto(Loop, l), ~Listing(l) PROVE ~Listing(pc'[Loop])
  BY <1>1, LoopIsTask DEF Goto, TypeInv, TasksOK
<1>2. {"idle", "done", "guards", "quote", "candles", "trades", "next", "logging", "closing",
       "adding", "banking"} \subseteq {l \in Labels : ~Listing(l)}
  BY DEF Labels, Listing
<1>3. CASE Boot \/ BotTick \/ CandlesArrive \/ TradesArrive
  <2>1. \E l \in {"idle", "done", "guards", "quote", "candles", "trades", "next"} : Goto(Loop, l)
    BY <1>3 DEF Boot, BotTick, CandlesArrive, TradesArrive, Start, Return
  <2> QED
    BY <1>1, <1>2, <2>1
<1>4. ASSUME NEW o \in Id, HandleFill(o) \/ IgnoreFill(o) \/ AbortTick(o)
      PROVE  ~Listing(pc'[Loop])
  <2>1. (\E l \in {"idle", "done", "logging"} : Goto(Loop, l)) \/ (pc' = pc /\ pc[Loop] = "next")
    BY <1>4 DEF HandleFill, IgnoreFill, AbortTick, Return
  <2> QED
    BY <1>1, <1>2, <2>1 DEF Listing
<1>5. CASE BookFill \/ PlaceCounter \/ RecordCounter \/ CounterFails \/ FillDone
  <2>1. (\E l \in {"closing", "adding", "next"} : Goto(Loop, l)) \/ (pc' = pc /\ pc[Loop] = "adding")
    BY <1>5 DEF BookFill, PlaceCounter, RecordCounter, CounterFails, FillDone
  <2> QED
    BY <1>1, <1>2, <2>1 DEF Listing
<1>6. CASE TickStopped \/ TickHolding \/ TickTakesProfit \/ TickTrending \/ SecondPass \/ TickDrift
  <2>1. \E l \in {"idle", "done", "guards", "quote", "trades", "next", "banking"} : Goto(Loop, l)
    BY <1>6 DEF TickStopped, TickHolding, TickTakesProfit, TickTrending, SecondPass, TickDrift,
       Start, Stop, Return
  <2> QED
    BY <1>1, <1>2, <2>1
<1> QED
  BY <1>3, <1>4, <1>5, <1>6 DEF Tick

(* what a command or the exchange does meanwhile *)
LEMMA FreshKnown ==
  ASSUME TypeInv, GoneInv, Fresh # {}, NEW r, ord' = [ord EXCEPT ![CHOOSE o \in Fresh : TRUE] = r]
  PROVE  \A o \in Id : Known(o) => Known(o)'
<1> DEFINE n == CHOOSE o \in Fresh : TRUE
<1>1. n \in Id /\ ord[n].st = "free"
  BY DEF Fresh
<1> HIDE DEF n
<1>2. \A o \in Id : o # n => ord'[o] = ord[o]
  BY DEF n, TypeInv, OrdersOK
<1> QED
  BY <1>1, <1>2 DEF Known, Confirmed

LEMMA LifecycleList ==
  ASSUME ListInv, GoneInv, TypeInv, NEW p \in Proc, Lifecycle(p)
  PROVE  ListInv'
<1>1. CASE p = Loop
  BY <1>1, LifecycleMoves DEF ListInv
<1>2. CASE ~Listing(pc'[Loop])
  BY <1>2 DEF ListInv
<1>3. CASE p # Loop /\ Listing(pc'[Loop])
  <2>1. pc'[Loop] = pc[Loop] /\ fr'[Loop] = fr[Loop]
    BY <1>3, LoopIsTask, LifecycleMoves DEF OnlyMoves
  <2>2. fr[Loop].known \subseteq Id /\ Live
    BY <1>3, <2>1, LoopIsTask, FrameOf DEF ListInv, TypeInv, Frame
  <2>3. \A o \in Id : Known(o) => Known(o)'
    <3>1. ASSUME NEW l \in fr[p].lvls, PlaceLevel(p, l) PROVE \A o \in Id : Known(o) => Known(o)'
      BY <3>1, FreshKnown DEF PlaceLevel, Known
    <3>2. ASSUME NEW o \in Id, RecordLevel(p, o) PROVE \A i \in Id : Known(i) => Known(i)'
      BY <3>2 DEF RecordLevel, Known, TypeInv, OrdersOK, Order
    <3>3. ASSUME NEW o \in Id, CancelOne(p, o) PROVE \A i \in Id : Known(i) => Known(i)'
      <4>1. \A i \in Id : ord'[i] = ord[i] \/ (ord'[i].st = ord[i].st /\ ord[i].ex = "open")
        BY <2>2, <3>3 DEF CancelOne, TypeInv, OrdersOK, Order
      <4> QED
        BY <4>1 DEF Known, Confirmed
    <3>4. ASSUME NEW o \in Id, RecordCancel(p, o) PROVE \A i \in Id : Known(i) => Known(i)'
      <4>1. Confirmed(ord[o])
        BY <3>4 DEF RecordCancel, GoneInv
      <4>2. \A i \in Id : i # o => ord'[i] = ord[i]
        BY <3>4 DEF RecordCancel, Cancelled, TypeInv, OrdersOK
      <4>3. ord'[o].st = "CANCELLED" /\ ord'[o].ex = ord[o].ex
        BY <3>4 DEF RecordCancel, Cancelled, TypeInv, OrdersOK, Order
      <4> QED
        BY <4>1, <4>2, <4>3 DEF Known, Confirmed
    <3>5. ASSUME UNCHANGED ord PROVE \A i \in Id : Known(i) => Known(i)'
      BY <3>5 DEF Known
    <3>6. ASSUME \/ StartRefused(p) \/ StartSession(p) \/ Quote(p) \/ RegimeChecked(p)
                 \/ DeployDone(p) \/ StopPersists(p) \/ StopDone(p)
                 \/ ReinvestCancels(p) \/ ReinvestResets(p) \/ ReinvestDeploys(p)
          PROVE  UNCHANGED ord
      BY <3>6 DEF StartRefused, StartSession, Quote, RegimeChecked, DeployDone, StopPersists,
         StopDone, ReinvestCancels, ReinvestResets, ReinvestDeploys
    <3> QED
      BY <3>1, <3>2, <3>3, <3>4, <3>5, <3>6 DEF Lifecycle
  <2> QED
    BY <1>3, <2>1, <2>2, <2>3 DEF ListInv
<1> QED
  BY <1>1, <1>2, <1>3

LEMMA ReconciliationList ==
  ASSUME ListInv, TypeInv, Reconciliation
  PROVE  ListInv'
<1>1. fr[Loop] \in Frame /\ fr[Loop].known \subseteq Id /\ Live
  BY FrameOf, LoopIsTask DEF TypeInv, Frame, Reconciliation
<1>2. CASE ReconcileStarts
  <2>1. fr'[Loop] = [fr[Loop] EXCEPT !.known = Open] /\ UNCHANGED ord
    BY <1>2, LoopIsTask DEF ReconcileStarts, Local, TypeInv, TasksOK
  <2>2. fr'[Loop].known = Open
    BY <1>1, <2>1 DEF Frame
  <2>3. \A o \in Open : Known(o)'
    BY <2>1 DEF Open, Known
  <2> QED
    BY <1>1, <2>2, <2>3 DEF ListInv
<1>3. CASE ReconcileLists
  <2>1. fr'[Loop].known = fr[Loop].known /\ UNCHANGED ord /\ Listing(pc[Loop])
    BY <1>1, <1>3, LoopIsTask DEF ReconcileLists, Local, TypeInv, TasksOK, Frame, Listing
  <2> QED
    BY <1>1, <2>1 DEF ListInv, Known
<1>4. ASSUME NEW o \in Id, Reconcile(o) PROVE ListInv'
  <2>1. fr'[Loop].known = fr[Loop].known \ {o} /\ Listing(pc[Loop])
    BY <1>1, <1>4, LoopIsTask DEF Reconcile, Local, TypeInv, TasksOK, Frame, Listing
  <2>2. \A i \in Id : i # o => ord'[i] = ord[i]
    BY <1>4 DEF Reconcile, TypeInv, OrdersOK
  <2>3. \A i \in fr'[Loop].known : Known(i)'
    BY <1>1, <2>1, <2>2 DEF ListInv, Known
  <2> QED
    BY <1>1, <2>3 DEF ListInv
<1>5. CASE ReconcileDone
  <2>1. ~Listing(pc'[Loop])
    BY <1>5, LoopIsTask DEF ReconcileDone, Return, Goto, TypeInv, TasksOK, Listing
  <2> QED
    BY <2>1 DEF ListInv
<1> QED
  BY <1>2, <1>3, <1>4, <1>5 DEF Reconciliation

LEMMA EnvironmentList ==
  ASSUME ListInv, GoneInv, TypeInv, Environment
  PROVE  ListInv'
<1>1. CASE Crash
  BY <1>1, LoopIsTask DEF Crash, ListInv, Listing
<1>2. ASSUME UNCHANGED <<pc, fr>>, Listing(pc[Loop]) => \A o \in Id : Known(o) => Known(o)'
      PROVE  ListInv'
  <2>1. fr[Loop].known \subseteq Id
    BY FrameOf, LoopIsTask DEF TypeInv, Frame
  <2> QED
    BY <1>2, <2>1 DEF ListInv
<1>3. ASSUME NEW q \in Prices, MarketMoves(q) PROVE ListInv'
  BY <1>2, <1>3 DEF MarketMoves, Known
<1>4. ASSUME NEW o \in Id, ExchangeTrades(o) PROVE ListInv'
  <2>1. \A i \in Id : ord'[i].st = ord[i].st /\ (ord'[i].ex = ord[i].ex \/ ord[i].ex = "open")
    BY <1>4 DEF ExchangeTrades, TypeInv, OrdersOK, Order
  <2> QED
    BY <1>2, <1>4, <2>1 DEF ExchangeTrades, Known, Confirmed
<1>5. ASSUME NEW p \in Proc, NEW l \in fr[p].lvls, LevelReplyLost(p, l) PROVE ListInv'
  BY <1>2, <1>5, FreshKnown DEF LevelReplyLost
<1>6. CASE CounterReplyLost
  BY <1>2, <1>6 DEF CounterReplyLost, Listing
<1> QED
  BY <1>1, <1>3, <1>4, <1>5, <1>6 DEF Environment

LEMMA ListNext ==
  ASSUME ListInv, GoneInv, TypeInv, [Next]_vars
  PROVE  ListInv'
<1>1. CASE Tick
  BY <1>1, TickMoves DEF ListInv
<1>2. CASE PortfolioHalt \/ PersistState \/ PruneArchive
  <2>1. ~Listing(pc'[Loop])
    BY <1>2, LoopIsTask
    DEF PortfolioHalt, PersistState, PruneArchive, Stop, Goto, TypeInv, TasksOK, Listing
  <2> QED
    BY <2>1 DEF ListInv
<1>3. ASSUME NEW w \in Webs, WebStart(w) \/ WebStop(w) PROVE ListInv'
  <2>1. w \in Proc /\ w # Loop
    BY ConstantsAssumption DEF Proc
  <2>2. OnlyMoves(w) /\ UNCHANGED ord
    BY <1>3, <2>1, MovesOnly DEF WebStart, WebStop, Stop
  <2>3. pc'[Loop] = pc[Loop] /\ fr'[Loop] = fr[Loop]
    BY <2>1, <2>2, LoopIsTask DEF OnlyMoves
  <2> QED
    BY <2>2, <2>3 DEF ListInv, Known
<1>4. CASE UNCHANGED vars
  BY <1>4 DEF vars, ListInv, Known
<1> QED
  BY <1>1, <1>2, <1>3, <1>4, LifecycleList, ReconciliationList, EnvironmentList DEF Next

LEMMA TrackNext ==
  ASSUME TrackInv, ListInv, TypeInv, Remembering, [Next]_vars
  PROVE  TrackInv'
<1>1. ASSUME PortfolioHalt PROVE TrackInv'
  <2>1. Stop(Loop, "halt", "off") \/ (Goto(Loop, "off") /\ UNCHANGED fr)
    BY <1>1 DEF PortfolioHalt
  <2>2. OnlyMoves(Loop) /\ NoRequote(Loop)
    BY <2>1, LoopIsTask, ToStop, ToLabel DEF Labels
  <2> QED
    BY <1>1, <2>2, LoopIsTask, TaskMoves, SameAlone DEF PortfolioHalt, session
<1>2. ASSUME NEW w \in Webs, WebStart(w) \/ WebStop(w) PROVE TrackInv'
  <2>1. Stop(w, "manual", "idle") \/ (Goto(w, "starting") /\ UNCHANGED fr)
    BY <1>2 DEF WebStart, WebStop
  <2>2. w \in Proc
    BY DEF Proc
  <2>3. OnlyMoves(w) /\ NoRequote(w)
    BY <2>1, <2>2, ToStop, ToLabel DEF Labels
  <2> QED
    BY <1>2, <2>2, <2>3, TaskMoves, SameAlone DEF WebStart, WebStop, session
<1> QED
  BY <1>1, <1>2, TickTrack, LifecycleTrack, ReconciliationTrack, EnvironmentTrack DEF Next

(* An active session tracks every order the store holds open for it,        *)
(* whatever was started and stopped by commands beside the tick, and after  *)
(* any number of crashes.                                                   *)
THEOREM NoOrderIsForgotten ==
  ASSUME Remembering
  PROVE  Spec => []OpenOrdersAreTracked
<1>1. Init => TypeInv /\ GoneInv /\ ListInv /\ TrackInv
  BY TypeInit, GoneInit, ListInit, TrackInit
<1>2. TypeInv /\ GoneInv /\ ListInv /\ TrackInv /\ [Next]_vars
          => TypeInv' /\ GoneInv' /\ ListInv' /\ TrackInv'
  BY TypeNext, GoneNext, ListNext, TrackNext
<1>3. TrackInv => OpenOrdersAreTracked
  <2>1. ASSUME Quiet PROVE \A o \in Id : ~InHand(o)
    BY <2>1, LoopIsTask DEF Quiet, InHand
  <2> QED
    BY <2>1 DEF TrackInv, OpenOrdersAreTracked, OpenAlone, Open
<1> QED
  BY <1>1, <1>2, <1>3, PTL DEF Spec

-----------------------------------------------------------------------------
(* A session that runs by itself.                                          *)

(* the labels of a tick, once it looks for fills *)
Ticking == {"candles", "next", "logging", "closing", "adding"}

(* Where the loop can be, and what it then knows. *)
Control ==
    /\ pc[Loop] \notin {"trades", "guards"}
    /\ pc[Loop] \in Ticking => isActive
    /\ fr[Loop].then = "guards" => pc[Loop] \in Ticking
    /\ pc[Loop] \in {"idle", "candles"} \cup Handling => fr[Loop].pass = 1

(* The fills a pass still has to look at are exactly the open orders that   *)
(* its price has crossed; after the first pass there are none.              *)
PassInv ==
    pc[Loop] \in {"next"} \cup Handling =>
        /\ \A o \in Id : fr[Loop].fills[o] \in {0, 1}
        /\ \A o \in Id : fr[Loop].fills[o] > 0 =>
               o \in fr[Loop].known /\ o \in Open /\ Crossed(o, fr[Loop].px)
        /\ \A o \in Open : Crossed(o, fr[Loop].px) =>
               fr[Loop].fills[o] > 0 \/ (pc[Loop] \in Handling /\ o = fr[Loop].cur)
        /\ fr[Loop].pass = 2 => \A o \in Id : fr[Loop].fills[o] = 0

(* The order whose fill is being handled is open and will not be seen again *)
(* in this pass.                                                            *)
CurrentInv ==
    pc[Loop] \in Handling =>
        /\ fr[Loop].cur \in Open
        /\ Crossed(fr[Loop].cur, fr[Loop].px)
        /\ fr[Loop].fills[fr[Loop].cur] = 0

(* Only the order being handled is open and already has its counter-order,  *)
(* and a simulated order is never in flight.                                *)
KidsInv ==
    \A o \in Id : /\ ord[o].st # "sent"
                  /\ ord[o].kids <= 1
                  /\ o \in Open /\ ~(pc[Loop] = "adding" /\ o = fr[Loop].cur)
                        => ord[o].kids = 0

OnceInv == Control /\ PassInv /\ CurrentInv /\ KidsInv

(* The bot in simulation, by itself. *)
Simulated == ~Live /\ Webs = {} /\ MaxCrashes = 0

LEMMA OnlyTheLoop == Simulated => Proc = {Loop}
  BY DEF Simulated, Proc

(* a cancel writes the store's record and nothing else *)
LEMMA OwnCancel ==
  ASSUME Simulated, NEW o \in Id, CancelOne(Loop, o)
  PROVE  /\ pc[Loop] = "cancelling"
         /\ o \in fr[Loop].ids
         /\ ord' = [ord EXCEPT ![o].st = "CANCELLED"]
         /\ Local(Loop, [fr[Loop] EXCEPT !.ids = fr[Loop].ids \ {o}])
         /\ UNCHANGED <<session, outside, pc>>
  BY DEF CancelOne, Cancelled, Simulated

(* no exchange answers, and none is asked *)
LEMMA NoExchange ==
  ASSUME TypeInv, GoneInv, Simulated
  PROVE  ~Reconciliation /\ \A o \in Id : ~RecordCancel(Loop, o)
<1>1. fr[Loop].acked \subseteq Id
  BY FrameOf, LoopIsTask DEF TypeInv, Frame
<1>2. fr[Loop].acked = {}
  BY <1>1, LoopIsTask DEF GoneInv, Proper, Confirmed, Simulated
<1> QED
  BY <1>2 DEF Reconciliation, RecordCancel, Simulated

LEMMA OnceInit == Init => OnceInv
<1> SUFFICES ASSUME Init PROVE OnceInv
  OBVIOUS
<1>1. pc[Loop] = "boot" /\ fr[Loop] = Blank
  BY LoopIsTask DEF Init
<1>2. Control
  BY <1>1 DEF Control, Ticking, Handling, Blank
<1>3. PassInv /\ CurrentInv
  BY <1>1 DEF PassInv, CurrentInv, Handling
<1>4. KidsInv
  BY DEF Init, KidsInv, Free, Open
<1> QED
  BY <1>2, <1>3, <1>4 DEF OnceInv

-----------------------------------------------------------------------------
(* Steps that end outside a pass over fills *)

Away(l) == l \in Labels \ ({"next", "trades", "guards"} \cup Handling)

LEMMA AwayKids ==
  ASSUME KidsInv, pc[Loop] # "adding", Away(pc'[Loop]), UNCHANGED ord
  PROVE  PassInv' /\ CurrentInv' /\ KidsInv'
<1>1. PassInv' /\ CurrentInv'
  BY DEF Away, PassInv, CurrentInv
<1>2. KidsInv'
  BY DEF KidsInv, Open, Away, Handling
<1> QED
  BY <1>1, <1>2

LEMMA AwayReturn ==
  ASSUME TypeInv, Return(Loop)
  PROVE  Control' /\ Away(pc'[Loop])
<1>1. pc'[Loop] = "idle" /\ fr'[Loop] = Blank
  BY LoopIsTask DEF TypeInv, TasksOK, Return, Goto, Local
<1> QED
  BY <1>1 DEF Control, Ticking, Handling, Blank, Away, Labels

LEMMA ReturnStep ==
  ASSUME TypeInv, OnceInv, Return(Loop), pc[Loop] # "adding", UNCHANGED ord
  PROVE  OnceInv'
  BY AwayReturn, AwayKids DEF OnceInv

(* a step to a label outside the tick that keeps or sets `then` *)
Outside == {"boot", "quote", "regime", "place", "requote", "banking", "cancelling",
            "starting", "off"}

LEMMA GotoAway ==
  ASSUME TypeInv, NEW l \in Outside, Goto(Loop, l), fr'[Loop].then # "guards"
  PROVE  Control' /\ Away(pc'[Loop])
<1>1. pc'[Loop] = l
  BY LoopIsTask DEF TypeInv, TasksOK, Goto
<1> QED
  BY <1>1 DEF Control, Outside, Ticking, Handling, Away, Labels

LEMMA OutsideStep ==
  ASSUME TypeInv, OnceInv, NEW l \in Outside, Goto(Loop, l), pc[Loop] # "adding",
         fr'[Loop].then # "guards", UNCHANGED ord
  PROVE  OnceInv'
  BY GotoAway, AwayKids DEF OnceInv

(* outside the tick, `then` is not "guards" *)
LEMMA NotGuards ==
  ASSUME Control, pc[Loop] \notin Ticking
  PROVE  fr[Loop].then # "guards"
  BY DEF Control

LEMMA StartStep ==
  ASSUME TypeInv, OnceInv, NEW saved, Start(Loop, saved), pc[Loop] \in {"boot", "starting"},
         UNCHANGED ord
  PROVE  OnceInv'
<1>1. fr[Loop].then # "guards"
  BY NotGuards DEF OnceInv, Ticking
<1>2. CASE Goto(Loop, "quote") /\ UNCHANGED fr
  BY <1>1, <1>2, OutsideStep DEF Outside
<1>3. CASE Return(Loop)
  BY <1>3, ReturnStep
<1> QED
  BY <1>1, <1>2, <1>3 DEF Start

LEMMA StartReturnsStep ==
  ASSUME TypeInv, OnceInv, StartReturns(Loop), pc[Loop] \in {"quote", "regime", "place"},
         UNCHANGED ord
  PROVE  OnceInv'
<1>1. fr[Loop].then # "guards"
  BY NotGuards DEF OnceInv, Ticking
<1> QED
  BY <1>1, ReturnStep DEF StartReturns

LEMMA LocalThen ==
  ASSUME TypeInv, NEW f, Local(Loop, f)
  PROVE  fr'[Loop] = f
  BY LoopIsTask DEF TypeInv, TasksOK, Local

LEMMA DeployStep ==
  ASSUME TypeInv, OnceInv, NEW c, Deploy(Loop, c), pc[Loop] \in {"regime", "requote"},
         UNCHANGED ord
  PROVE  OnceInv'
<1>1. fr[Loop].then # "guards" /\ fr[Loop] \in Frame
  BY NotGuards, FrameOf, LoopIsTask DEF OnceInv, Ticking, TypeInv
<1>2. fr'[Loop].then = fr[Loop].then
  BY <1>1, LocalThen DEF Deploy, Frame
<1> QED
  BY <1>1, <1>2, OutsideStep DEF Deploy, Outside

LEMMA StopStep ==
  ASSUME TypeInv, OnceInv, NEW why, NEW then, then # "guards", Stop(Loop, why, then),
         pc[Loop] # "adding", UNCHANGED ord
  PROVE  OnceInv'
<1>1. fr'[Loop].then = then
  BY FrameOf, LoopIsTask, LocalThen DEF Stop, Frame, TypeInv
<1> QED
  BY <1>1, OutsideStep DEF Stop, Outside

LEMMA SameAll ==
  ASSUME OnceInv, UNCHANGED <<isActive, ord, pc, fr>>
  PROVE  OnceInv'
<1>1. Control'
  BY DEF OnceInv, Control
<1>2. PassInv'
  BY DEF OnceInv, PassInv, Open, Crossed
<1>3. CurrentInv'
  BY DEF OnceInv, CurrentInv, Open, Crossed
<1>4. KidsInv'
  BY DEF OnceInv, KidsInv, Open
<1> QED
  BY <1>1, <1>2, <1>3, <1>4 DEF OnceInv

-----------------------------------------------------------------------------
(* start(), deploy_grid(), stop() and _bank_and_reinvest() *)

LEMMA StartOnce ==
  ASSUME TypeInv, OnceInv
  PROVE  /\ StartRefused(Loop) => OnceInv'
         /\ StartSession(Loop) => OnceInv'
         /\ Boot => OnceInv'
<1>1. StartRefused(Loop) => OnceInv'
  BY ReturnStep DEF StartRefused
<1>2. StartSession(Loop) => OnceInv'
  BY StartStep DEF StartSession
<1>3. Boot => OnceInv'
  BY StartStep DEF Boot
<1> QED
  BY <1>1, <1>2, <1>3

LEMMA QuoteOnce ==
  ASSUME TypeInv, OnceInv, Quote(Loop)
  PROVE  OnceInv'
<1>1. pc[Loop] = "quote" /\ UNCHANGED ord
  BY DEF Quote
<1>2. CASE Goto(Loop, "regime") /\ Local(Loop, [fr[Loop] EXCEPT !.quote = price])
  <2>1. fr[Loop].then # "guards" /\ fr[Loop] \in Frame
    BY <1>1, NotGuards, FrameOf, LoopIsTask DEF OnceInv, Ticking, TypeInv
  <2>2. fr'[Loop].then # "guards"
    BY <1>2, <2>1, LocalThen DEF Frame
  <2> QED
    BY <1>1, <1>2, <2>2, OutsideStep DEF Outside
<1>3. CASE StartReturns(Loop)
  BY <1>1, <1>3, StartReturnsStep
<1> QED
  BY <1>2, <1>3 DEF Quote

LEMMA RegimeCheckedOnce ==
  ASSUME TypeInv, OnceInv, RegimeChecked(Loop)
  PROVE  OnceInv'
  BY DeployStep, StartReturnsStep DEF RegimeChecked

(* an order of the grid is placed while the loop is not in a tick *)
LEMMA PlaceLevelOnce ==
  ASSUME TypeInv, OnceInv, Simulated, NEW l \in fr[Loop].lvls, PlaceLevel(Loop, l)
  PROVE  OnceInv'
<1>1. pc[Loop] = "place" /\ UNCHANGED <<isActive, pc>>
  BY DEF PlaceLevel, session
<1>2. fr[Loop] \in Frame /\ fr[Loop].then # "guards"
  BY <1>1, NotGuards, FrameOf, LoopIsTask DEF OnceInv, Ticking, TypeInv
<1>3. fr'[Loop].then = fr[Loop].then
  BY <1>2, LocalThen DEF PlaceLevel, Frame
<1>4. Control' /\ PassInv' /\ CurrentInv'
  BY <1>1, <1>2, <1>3 DEF OnceInv, Control, PassInv, CurrentInv, Ticking, Handling
<1>5. KidsInv'
  <2>1. CASE UNCHANGED ord
    BY <1>1, <2>1 DEF OnceInv, KidsInv, Open
  <2>2. CASE /\ Fresh # {}
             /\ ord' = [ord EXCEPT ![CHOOSE o \in Fresh : TRUE] = Placed(SideOf(Loop, l), l)]
    <3> DEFINE n == CHOOSE o \in Fresh : TRUE
    <3>1. n \in Id
      BY <2>2 DEF Fresh
    <3>2. ord'[n].st = "OPEN" /\ ord'[n].kids = 0
      BY <2>2, <3>1 DEF Placed, Simulated, TypeInv, OrdersOK
    <3>3. \A o \in Id : o # n => ord'[o] = ord[o]
      BY <2>2, <3>1 DEF TypeInv, OrdersOK
    <3> HIDE DEF n
    <3> QED
      BY <1>1, <3>2, <3>3 DEF OnceInv, KidsInv, Open
  <2> QED
    BY <2>1, <2>2 DEF PlaceLevel
<1> QED
  BY <1>4, <1>5 DEF OnceInv

LEMMA DeployDoneOnce ==
  ASSUME TypeInv, OnceInv, DeployDone(Loop)
  PROVE  OnceInv'
<1>1. pc[Loop] = "place" /\ UNCHANGED ord
  BY DEF DeployDone
<1>2. CASE Goto(Loop, "starting") /\ Local(Loop, Blank)
  <2>1. fr'[Loop].then # "guards"
    BY <1>2, LocalThen DEF Blank
  <2> QED
    BY <1>1, <1>2, <2>1, OutsideStep DEF Outside
<1>3. CASE StartReturns(Loop)
  BY <1>1, <1>3, StartReturnsStep
<1> QED
  BY <1>2, <1>3 DEF DeployDone

(* the steps between the entry of stop() and the cancellations *)
LEMMA CancellingOnce ==
  ASSUME TypeInv, OnceInv, pc[Loop] = "banking", Goto(Loop, "cancelling"),
         Local(Loop, [fr[Loop] EXCEPT !.ids = ToCancel]), UNCHANGED ord
  PROVE  OnceInv'
<1>1. fr[Loop].then # "guards" /\ fr[Loop] \in Frame
  BY NotGuards, FrameOf, LoopIsTask DEF OnceInv, Ticking, TypeInv
<1>2. fr'[Loop].then # "guards"
  BY <1>1, LocalThen DEF Frame
<1> QED
  BY <1>2, OutsideStep DEF Outside

LEMMA CancelOneOnce ==
  ASSUME TypeInv, OnceInv, Simulated, NEW o \in Id, CancelOne(Loop, o)
  PROVE  OnceInv'
<1>1. pc[Loop] = "cancelling" /\ UNCHANGED <<isActive, pc>>
  BY OwnCancel DEF session
<1>2. fr[Loop] \in Frame /\ fr[Loop].then # "guards"
  BY <1>1, NotGuards, FrameOf, LoopIsTask DEF OnceInv, Ticking, TypeInv
<1>3. fr'[Loop].then = fr[Loop].then
  BY <1>2, OwnCancel, LocalThen DEF Frame
<1>4. Control' /\ PassInv' /\ CurrentInv'
  BY <1>1, <1>2, <1>3 DEF OnceInv, Control, PassInv, CurrentInv, Ticking, Handling
<1>5. ord' = [ord EXCEPT ![o].st = "CANCELLED"]
  BY OwnCancel
<1>6. \A x \in Id : ord'[x].kids = ord[x].kids /\ (x # o => ord'[x] = ord[x])
  BY <1>5 DEF TypeInv, OrdersOK, Order
<1>7. ord'[o].st = "CANCELLED"
  BY <1>5 DEF TypeInv, OrdersOK, Order
<1>8. KidsInv'
  BY <1>1, <1>6, <1>7 DEF OnceInv, KidsInv, Open
<1> QED
  BY <1>4, <1>8 DEF OnceInv

LEMMA StopDoneOnce ==
  ASSUME TypeInv, OnceInv, StopDone(Loop)
  PROVE  OnceInv'
<1>1. /\ pc[Loop] = "cancelling"
      /\ UNCHANGED ord
      /\ fr[Loop].then # "guards"
      /\ fr[Loop] \in Frame
  BY FrameOf, LoopIsTask DEF StopDone, TypeInv
<1>2. CASE fr[Loop].then = "recentre"
  <2>1. Goto(Loop, "place")
    BY <1>2 DEF StopDone
  <2>2. fr'[Loop].then = fr[Loop].then
    <3>1. CASE Local(Loop, [fr[Loop] EXCEPT !.quote = fr[Loop].px, !.lvls = Levels(fr[Loop].px)])
      BY <1>1, <3>1, LocalThen DEF Frame
    <3>2. CASE UNCHANGED fr
      BY <3>2
    <3> QED
      BY <1>2, <3>1, <3>2 DEF StopDone
  <2> QED
    BY <1>1, <2>1, <2>2, OutsideStep DEF Outside
<1>3. CASE fr[Loop].then = "off"
  <2>1. Goto(Loop, "off") /\ Local(Loop, Blank)
    BY <1>3 DEF StopDone
  <2>2. fr'[Loop].then # "guards"
    BY <2>1, LocalThen DEF Blank
  <2> QED
    BY <1>1, <2>1, <2>2, OutsideStep DEF Outside
<1>4. CASE fr[Loop].then \notin {"recentre", "off"}
  BY <1>1, <1>4, ReturnStep DEF StopDone
<1> QED
  BY <1>2, <1>3, <1>4

LEMMA ReinvestOnce ==
  ASSUME TypeInv, OnceInv
  PROVE  /\ ReinvestResets(Loop) => OnceInv'
         /\ ReinvestDeploys(Loop) => OnceInv'
<1>1. ASSUME ReinvestResets(Loop) PROVE OnceInv'
  <2>1. fr'[Loop].then # "guards"
    BY <1>1 DEF ReinvestResets
  <2> QED
    BY <1>1, <2>1, OutsideStep DEF ReinvestResets, Outside
<1>2. ASSUME ReinvestDeploys(Loop) PROVE OnceInv'
  BY <1>2, DeployStep, ReturnStep DEF ReinvestDeploys
<1> QED
  BY <1>1, <1>2

LEMMA LifecycleOnce ==
  ASSUME TypeInv, GoneInv, OnceInv, Simulated, Lifecycle(Loop)
  PROVE  OnceInv'
<1>1. ASSUME NEW o \in Id, RecordLevel(Loop, o) PROVE OnceInv'
  BY <1>1 DEF RecordLevel, OnceInv, KidsInv
<1>2. StopPersists(Loop) \/ ReinvestCancels(Loop) => OnceInv'
  BY CancellingOnce DEF StopPersists, ReinvestCancels
<1>3. Simulated /\ \A o \in Id : ~RecordCancel(Loop, o)
  BY NoExchange
<1> QED
  BY <1>1, <1>3, <1>2, StartOnce, QuoteOnce, RegimeCheckedOnce, PlaceLevelOnce, DeployDoneOnce,
     CancelOneOnce, StopDoneOnce, ReinvestOnce DEF Lifecycle

-----------------------------------------------------------------------------
(* A tick *)

LEMMA BotTickOnce ==
  ASSUME TypeInv, OnceInv, BotTick
  PROVE  OnceInv'
<1>1. /\ pc[Loop] = "idle"
      /\ isActive
      /\ fr[Loop] \in Frame
      /\ pc'[Loop] = "candles"
      /\ UNCHANGED <<isActive, ord>>
  BY LoopIsTask, FrameOf DEF BotTick, Goto, TypeInv, TasksOK, session
<1>2. fr'[Loop].pass = fr[Loop].pass
  BY <1>1, LocalThen DEF BotTick, Frame
<1>3. Control'
  BY <1>1, <1>2 DEF OnceInv, Control, Ticking, Handling
<1>4. PassInv' /\ CurrentInv'
  BY <1>1 DEF PassInv, CurrentInv, Handling
<1>5. KidsInv'
  BY <1>1 DEF OnceInv, KidsInv, Open
<1> QED
  BY <1>3, <1>4, <1>5 DEF OnceInv

(* the first pass starts from the open orders the candles' price crosses *)
LEMMA CandlesArriveOnce ==
  ASSUME TypeInv, OnceInv, Simulated, CandlesArrive
  PROVE  OnceInv'
<1>1. /\ pc[Loop] = "candles"
      /\ fr[Loop] \in Frame
      /\ UNCHANGED <<isActive, ord>>
  BY LoopIsTask, FrameOf DEF CandlesArrive, TypeInv, session
<1>2. CASE Return(Loop)
  BY <1>1, <1>2, ReturnStep
<1>3. CASE /\ Local(Loop, [fr[Loop] EXCEPT !.px = price, !.known = Open,
                                           !.fills = SimFills(price)])
           /\ Goto(Loop, "next")
  <2>1. pc'[Loop] = "next"
    BY <1>3, LoopIsTask DEF Goto, TypeInv, TasksOK
  <2>2. /\ fr'[Loop].px = price
        /\ fr'[Loop].known = Open
        /\ fr'[Loop].fills = SimFills(price)
        /\ fr'[Loop].pass = fr[Loop].pass
    BY <1>1, <1>3, LocalThen DEF Frame
  <2>3. isActive /\ fr[Loop].pass = 1
    BY <1>1 DEF OnceInv, Control, Ticking
  <2>4. Control'
    BY <1>1, <2>1, <2>2, <2>3 DEF Control, Ticking, Handling
  <2>6. \A o \in Id : Crossed(o, fr[Loop].px)' <=> Crossed(o, price)
    BY <1>1, <2>2 DEF Crossed
  <2>7. \A o \in Id : fr'[Loop].fills[o] = IF o \in Open /\ Crossed(o, price) THEN 1 ELSE 0
    BY <2>2 DEF SimFills
  <2>8. Open' = Open
    BY <1>1 DEF Open
  <2>9. PassInv'
    BY <2>1, <2>2, <2>3, <2>6, <2>7, <2>8 DEF PassInv, Handling, Open
  <2>10. CurrentInv'
    BY <2>1 DEF CurrentInv, Handling
  <2>11. KidsInv'
    BY <1>1, <2>1, <2>8 DEF OnceInv, KidsInv
  <2> QED
    BY <2>4, <2>9, <2>10, <2>11 DEF OnceInv
<1> QED
  BY <1>2, <1>3 DEF CandlesArrive, Simulated

(* a fill of the pass is taken up *)
LEMMA HandleFillOnce ==
  ASSUME TypeInv, OnceInv, NEW o \in Id, HandleFill(o)
  PROVE  OnceInv'
<1>1. /\ pc[Loop] = "next"
      /\ fr[Loop] \in Frame
      /\ pc'[Loop] = "logging"
      /\ UNCHANGED <<isActive, ord>>
  BY LoopIsTask, FrameOf DEF HandleFill, Goto, TypeInv, TasksOK, session
<1>2. fr[Loop].fills[o] > 0
  BY DEF HandleFill, Pending
<1>3. /\ fr[Loop].fills[o] = 1
      /\ fr[Loop].pass = 1
      /\ o \in Open
      /\ Crossed(o, fr[Loop].px)
  BY <1>1, <1>2 DEF OnceInv, PassInv, Frame
<1>4. /\ fr'[Loop].px = fr[Loop].px
      /\ fr'[Loop].known = fr[Loop].known
      /\ fr'[Loop].pass = 1
      /\ fr'[Loop].cur = o
      /\ fr'[Loop].fills = [fr[Loop].fills EXCEPT ![o] = @ - 1]
  BY <1>1, <1>3, LocalThen DEF HandleFill, Frame
<1>5. /\ fr'[Loop].fills[o] = 0
      /\ \A x \in Id \ {o} : fr'[Loop].fills[x] = fr[Loop].fills[x]
  BY <1>1, <1>3, <1>4 DEF Frame
<1>6. Control'
  BY <1>1, <1>4 DEF OnceInv, Control, Ticking, Handling
<1>7. Open' = Open /\ \A x \in Id : Crossed(x, fr[Loop].px)' <=> Crossed(x, fr[Loop].px)
  BY <1>1, <1>4 DEF Open, Crossed
<1>8. PassInv'
  BY <1>1, <1>4, <1>5, <1>7 DEF OnceInv, PassInv, Handling, Open
<1>9. CurrentInv'
  BY <1>3, <1>4, <1>5, <1>7, Zenon DEF CurrentInv, Crossed
<1>10. KidsInv'
  BY <1>1, <1>7 DEF OnceInv, KidsInv
<1> QED
  BY <1>6, <1>8, <1>9, <1>10 DEF OnceInv

(* an active pass leaves nothing to ignore or to die on *)
LEMMA NoOtherFill ==
  ASSUME OnceInv, NEW o \in Id
  PROVE  ~IgnoreFill(o) /\ ~AbortTick(o)
<1>1. ~IgnoreFill(o)
  BY DEF OnceInv, Control, Ticking, IgnoreFill
<1>2. ~AbortTick(o)
  BY DEF OnceInv, PassInv, AbortTick, Pending
<1> QED
  BY <1>1, <1>2

(* a step inside handle_fill() that leaves orders and locals alone *)
LEMMA HandlingStep ==
  ASSUME TypeInv, OnceInv, NEW l \in {"closing", "adding"}, Goto(Loop, l),
         pc[Loop] \in {"logging", "closing"}, UNCHANGED <<isActive, ord, fr>>
  PROVE  OnceInv'
<1>1. pc'[Loop] = l
  BY LoopIsTask DEF Goto, TypeInv, TasksOK
<1>2. Control'
  BY <1>1 DEF OnceInv, Control, Ticking, Handling
<1>3. PassInv'
  BY <1>1 DEF OnceInv, PassInv, Handling, Open, Crossed
<1>4. CurrentInv'
  BY <1>1 DEF OnceInv, CurrentInv, Handling, Open, Crossed
<1>5. KidsInv'
  BY DEF OnceInv, KidsInv, Open
<1> QED
  BY <1>2, <1>3, <1>4, <1>5 DEF OnceInv

LEMMA BookFillOnce ==
  ASSUME TypeInv, OnceInv, BookFill
  PROVE  OnceInv'
  BY HandlingStep DEF BookFill

LEMMA CounterFailsOnce ==
  ASSUME TypeInv, OnceInv, CounterFails
  PROVE  OnceInv'
  BY HandlingStep DEF CounterFails, session

(* The counter-order lies a whole spacing beyond the crossed order, on the  *)
(* other side: the price that filled the one does not cross the other.      *)
LEMMA CounterNotCrossed ==
  ASSUME NEW o \in Id, ord[o] \in Order, NEW px \in Int, Crossed(o, px)
  PROVE  IF Opposite(ord[o].side) = "BUY" THEN px > CounterPrice(o) ELSE px < CounterPrice(o)
<1>1. Spacing \in Int /\ Spacing > 0
  BY ConstantsAssumption
<1>2. ord[o].side \in {"BUY", "SELL"} /\ ord[o].at \in Int
  BY DEF Order
<1>3. CASE ord[o].side = "BUY"
  BY <1>1, <1>2, <1>3 DEF Opposite, CounterPrice, Crossed
<1>4. CASE ord[o].side = "SELL"
  BY <1>1, <1>2, <1>4 DEF Opposite, CounterPrice, Crossed
<1> QED
  BY <1>2, <1>3, <1>4

LEMMA PlaceCounterOnce ==
  ASSUME TypeInv, OnceInv, Simulated, PlaceCounter
  PROVE  OnceInv'
<1>1. /\ pc[Loop] = "closing"
      /\ fr[Loop] \in Frame
      /\ pc'[Loop] = "adding"
      /\ UNCHANGED isActive
  BY LoopIsTask, FrameOf DEF PlaceCounter, Goto, TypeInv, TasksOK, session
<1>2. PICK cur \in Open : /\ cur = fr[Loop].cur
                         /\ Crossed(cur, fr[Loop].px)
                         /\ fr[Loop].fills[cur] = 0
  BY <1>1 DEF OnceInv, CurrentInv, Handling
<1>3. cur \in Id /\ ord[cur].st = "OPEN" /\ ord[cur] \in Order
  BY <1>2 DEF Open, TypeInv, OrdersOK
<1>4. PICK n \in Id : n = (CHOOSE f \in Fresh : TRUE) /\ ord[n].st = "free"
  BY DEF PlaceCounter, Fresh
<1>5. n # cur
  BY <1>3, <1>4
<1>6. ord' = [ord EXCEPT ![n] = CounterOf(cur), ![cur].kids = MoreKids(@)]
  BY <1>2, <1>4 DEF PlaceCounter
<1>7. fr'[Loop] = [fr[Loop] EXCEPT !.new = n]
  BY <1>4, LocalThen DEF PlaceCounter
<1>8. /\ fr'[Loop].px = fr[Loop].px
      /\ fr'[Loop].known = fr[Loop].known
      /\ fr'[Loop].pass = fr[Loop].pass
      /\ fr'[Loop].cur = cur
      /\ fr'[Loop].fills = fr[Loop].fills
      /\ fr'[Loop].then = fr[Loop].then
  BY <1>1, <1>2, <1>7 DEF Frame
<1>9. ord'[n] = CounterOf(cur)
  BY <1>3, <1>4, <1>5, <1>6 DEF TypeInv, OrdersOK
<1>10. /\ ord'[n].st = "OPEN"
       /\ ord'[n].side = Opposite(ord[cur].side)
       /\ ord'[n].at = CounterPrice(cur)
       /\ ord'[n].kids = 0
  BY <1>9 DEF CounterOf, Placed, Simulated
<1>11. \A o \in Id : o \notin {n, cur} => ord'[o] = ord[o]
  BY <1>3, <1>4, <1>6 DEF TypeInv, OrdersOK
<1>12. /\ ord'[cur].st = "OPEN"
       /\ ord'[cur].side = ord[cur].side
       /\ ord'[cur].at = ord[cur].at
       /\ ord'[cur].kids = MoreKids(ord[cur].kids)
  BY <1>3, <1>4, <1>5, <1>6 DEF TypeInv, OrdersOK, Order
<1>13. ord'[cur].kids = 1
  <2>1. ord[cur].kids = 0
    BY <1>1, <1>2, <1>3 DEF OnceInv, KidsInv
  <2> QED
    BY <1>12, <2>1 DEF MoreKids
<1>14. fr[Loop].px \in Int
  BY <1>1 DEF Frame
<1>15. ~Crossed(n, fr[Loop].px)'
  <2>1. IF Opposite(ord[cur].side) = "BUY"
        THEN fr[Loop].px > CounterPrice(cur) ELSE fr[Loop].px < CounterPrice(cur)
    BY <1>2, <1>3, <1>14, CounterNotCrossed
  <2>2. CounterPrice(cur) \in Int
    BY <1>3, ConstantsAssumption DEF CounterPrice, Order
  <2>3. Opposite(ord[cur].side) \in {"BUY", "SELL"}
    BY DEF Opposite
  <2> QED
    BY <1>8, <1>10, <1>14, <2>1, <2>2, <2>3 DEF Crossed
<1>16. \A o \in Id : o # n => (Crossed(o, fr[Loop].px)' <=> Crossed(o, fr[Loop].px))
  BY <1>8, <1>11, <1>12 DEF Crossed
<1>17. \A o \in Id : o # n => (o \in Open' <=> o \in Open)
  BY <1>3, <1>11, <1>12 DEF Open
<1>18. n \notin Open /\ fr[Loop].fills[n] = 0
  BY <1>1, <1>2, <1>4 DEF Open, OnceInv, PassInv, Handling
<1>19. Control'
  BY <1>1, <1>8 DEF OnceInv, Control, Ticking, Handling
<1>20. PassInv'
  <2>1. \A o \in Id : fr'[Loop].fills[o] \in {0, 1}
    BY <1>1, <1>8 DEF OnceInv, PassInv, Handling
  <2>2. ASSUME NEW o \in Id, fr'[Loop].fills[o] > 0
        PROVE  o \in fr'[Loop].known /\ o \in Open' /\ Crossed(o, fr[Loop].px)'
    BY <1>1, <1>8, <1>16, <1>17, <1>18, <2>2 DEF OnceInv, PassInv, Handling
  <2>3. ASSUME NEW o \in Open', Crossed(o, fr[Loop].px)'
        PROVE  fr'[Loop].fills[o] > 0 \/ o = fr'[Loop].cur
    <3>1. o \in Id /\ o # n
      BY <1>15, <2>3 DEF Open
    <3> QED
      BY <1>1, <1>8, <1>16, <1>17, <1>2, <2>3, <3>1 DEF OnceInv, PassInv, Handling
  <2>4. fr'[Loop].pass = 2 => \A o \in Id : fr'[Loop].fills[o] = 0
    BY <1>1, <1>8 DEF OnceInv, PassInv, Handling
  <2> QED
    BY <1>1, <2>1, <2>2, <2>3, <2>4 DEF PassInv, Handling
<1>21. CurrentInv'
  <2>1. Crossed(cur, fr[Loop].px)'
    BY <1>2, <1>3, <1>5, <1>16
  <2>2. Crossed(fr[Loop].cur, fr[Loop].px)'
    BY <1>8, <1>12, <2>1 DEF Crossed
  <2>3. fr'[Loop].cur \in Open'
    BY <1>2, <1>3, <1>5, <1>8, <1>17
  <2>4. fr'[Loop].fills[fr'[Loop].cur] = 0
    BY <1>2, <1>8
  <2> QED
    BY <2>2, <2>3, <2>4 DEF CurrentInv
<1>22. KidsInv'
  BY <1>1, <1>3, <1>8, <1>10, <1>11, <1>12, <1>13, <1>17, <1>2 DEF OnceInv, KidsInv
<1> QED
  BY <1>19, <1>20, <1>21, <1>22 DEF OnceInv

(* the handled order leaves the open ones *)
LEMMA FillDoneOnce ==
  ASSUME TypeInv, OnceInv, FillDone
  PROVE  OnceInv'
<1>1. PICK cur \in Id : /\ cur = fr[Loop].cur
                       /\ pc[Loop] = "adding"
                       /\ fr[Loop] \in Frame
                       /\ pc'[Loop] = "next"
                       /\ UNCHANGED isActive
  BY LoopIsTask, FrameOf DEF FillDone, Goto, TypeInv, TasksOK, CurrentFill
<1>2. fr[Loop].pass = 1
  BY <1>1 DEF OnceInv, Control, Handling
<1>3. fr'[Loop] = [fr[Loop] EXCEPT !.cur = None, !.new = None]
  BY LocalThen DEF FillDone
<1>4. /\ fr'[Loop].px = fr[Loop].px
      /\ fr'[Loop].known = fr[Loop].known
      /\ fr'[Loop].pass = fr[Loop].pass
      /\ fr'[Loop].fills = fr[Loop].fills
      /\ fr'[Loop].then = fr[Loop].then
  BY <1>1, <1>3 DEF Frame
<1>5. ord' = [ord EXCEPT ![cur].st = "FILLED"]
  BY <1>1, <1>2 DEF FillDone, AfterFill
<1>6. /\ ord'[cur].st = "FILLED"
      /\ ord'[cur].kids = ord[cur].kids
  BY <1>1, <1>5 DEF TypeInv, OrdersOK, Order
<1>7. \A o \in Id : o # cur => ord'[o] = ord[o]
  BY <1>1, <1>5 DEF TypeInv, OrdersOK
<1>8. \A o \in Id : o # cur => (Crossed(o, fr[Loop].px)' <=> Crossed(o, fr[Loop].px))
  BY <1>4, <1>7 DEF Crossed
<1>9. cur \notin Open' /\ \A o \in Id : o # cur => (o \in Open' <=> o \in Open)
  BY <1>1, <1>6, <1>7 DEF Open
<1>10. fr[Loop].fills[cur] = 0
  BY <1>1 DEF OnceInv, CurrentInv, Handling
<1>11. Control'
  BY <1>1, <1>4 DEF OnceInv, Control, Ticking, Handling
<1>12. PassInv'
  <2>1. \A o \in Id : fr'[Loop].fills[o] \in {0, 1}
    BY <1>1, <1>4 DEF OnceInv, PassInv, Handling
  <2>2. ASSUME NEW o \in Id, fr'[Loop].fills[o] > 0
        PROVE  o \in fr'[Loop].known /\ o \in Open' /\ Crossed(o, fr[Loop].px)'
    BY <1>1, <1>4, <1>8, <1>9, <1>10, <2>2 DEF OnceInv, PassInv, Handling
  <2>3. ASSUME NEW o \in Open', Crossed(o, fr[Loop].px)'
        PROVE  fr'[Loop].fills[o] > 0
    <3>1. o \in Id /\ o # cur
      BY <1>9, <2>3 DEF Open
    <3> QED
      BY <1>1, <1>4, <1>8, <1>9, <2>3, <3>1 DEF OnceInv, PassInv, Handling
  <2>4. fr'[Loop].pass # 2
    BY <1>2, <1>4
  <2> QED
    BY <1>1, <2>1, <2>2, <2>3, <2>4 DEF PassInv, Handling
<1>13. CurrentInv'
  BY <1>1 DEF CurrentInv, Handling
<1>14. KidsInv'
  BY <1>1, <1>6, <1>7, <1>9 DEF OnceInv, KidsInv
<1> QED
  BY <1>11, <1>12, <1>13, <1>14 DEF OnceInv

-----------------------------------------------------------------------------
(* tick()'s guards *)

(* Once the first pass is over, its price crosses no open order. *)
LEMMA FirstPassIsComplete ==
  ASSUME OnceInv, TickEntered, TypeInv
  PROVE  \A o \in Id : fr[Loop].fills[o] = 0 /\ ~(o \in Open /\ Crossed(o, fr[Loop].px))
<1>1. pc[Loop] = "next" /\ fr[Loop].pass = 1 /\ Pending(Loop) = {}
  BY DEF TickEntered
<1>2. \A o \in Id : ~(fr[Loop].fills[o] > 0)
  BY <1>1 DEF OnceInv, PassInv, Pending
<1>3. \A o \in Id : fr[Loop].fills[o] \in {0, 1}
  BY <1>1 DEF OnceInv, PassInv
<1> QED
  BY <1>1, <1>2, <1>3 DEF OnceInv, PassInv, Handling

LEMMA AtGuardsMeans ==
  ASSUME OnceInv, AtGuards
  PROVE  TickEntered /\ pc[Loop] = "next"
  BY DEF OnceInv, Control, AtGuards, TickEntered

LEMMA TickStoppedOnce ==
  ASSUME OnceInv
  PROVE  ~TickStopped
  BY DEF OnceInv, Control, Ticking, TickStopped, TickEntered

LEMMA TickHoldingOnce ==
  ASSUME TypeInv, OnceInv, TickHolding
  PROVE  OnceInv'
  BY AtGuardsMeans, ReturnStep DEF TickHolding

LEMMA TickTakesProfitOnce ==
  ASSUME TypeInv, OnceInv, TickTakesProfit
  PROVE  OnceInv'
<1>1. pc[Loop] # "adding" /\ UNCHANGED ord
  BY AtGuardsMeans DEF TickTakesProfit
<1> QED
  BY <1>1, StopStep DEF TickTakesProfit

LEMMA TickTrendingOnce ==
  ASSUME TypeInv, OnceInv, TickTrending
  PROVE  OnceInv'
<1>1. pc[Loop] # "adding" /\ UNCHANGED ord
  BY AtGuardsMeans DEF TickTrending
<1> QED
  BY <1>1, StopStep DEF TickTrending

(* The second pass uses the price of the first, so it finds nothing. *)
LEMMA SecondPassOnce ==
  ASSUME TypeInv, OnceInv, Simulated, SecondPass
  PROVE  OnceInv'
<1>1. /\ TickEntered
      /\ pc[Loop] = "next"
      /\ fr[Loop] \in Frame
      /\ UNCHANGED <<isActive, ord>>
  BY AtGuardsMeans, LoopIsTask, FrameOf DEF SecondPass, TypeInv
<1>2. pc'[Loop] = "next"
  BY LoopIsTask DEF SecondPass, Simulated, Goto, TypeInv, TasksOK
<1>3. fr'[Loop] = [fr[Loop] EXCEPT !.pass = 2, !.known = {}, !.fills = SimFills(fr[Loop].px)]
  BY LocalThen DEF SecondPass, Simulated
<1>4. /\ fr'[Loop].px = fr[Loop].px
      /\ fr'[Loop].pass = 2
      /\ fr'[Loop].fills = SimFills(fr[Loop].px)
      /\ fr'[Loop].then = fr[Loop].then
  BY <1>1, <1>3 DEF Frame
<1>5. \A o \in Id : fr'[Loop].fills[o] = 0
  BY <1>1, <1>4, FirstPassIsComplete DEF SimFills
<1>6. \A o \in Open' : ~Crossed(o, fr[Loop].px)'
  BY <1>1, <1>4, FirstPassIsComplete DEF Open, Crossed
<1>7. Control'
  BY <1>1, <1>2, <1>4 DEF OnceInv, Control, Ticking, Handling
<1>8. PassInv' /\ CurrentInv'
  BY <1>2, <1>5, <1>6 DEF PassInv, CurrentInv, Handling
<1>9. KidsInv'
  BY <1>1, <1>2 DEF OnceInv, KidsInv, Open
<1> QED
  BY <1>7, <1>8, <1>9 DEF OnceInv

LEMMA TickDriftOnce ==
  ASSUME TypeInv, OnceInv, TickDrift
  PROVE  OnceInv'
<1>1. pc[Loop] # "adding" /\ UNCHANGED ord
  BY DEF TickDrift
<1> QED
  BY <1>1, StopStep, ReturnStep DEF TickDrift

LEMMA TickOnce ==
  ASSUME TypeInv, OnceInv, Simulated, Tick
  PROVE  OnceInv'
<1>1. ~RecordCounter
  <2> SUFFICES ASSUME RecordCounter PROVE FALSE
    OBVIOUS
  <2>1. fr[Loop] \in Frame /\ fr[Loop].new # None /\ ord[fr[Loop].new].st = "sent"
    BY LoopIsTask, FrameOf DEF RecordCounter, TypeInv
  <2>2. fr[Loop].new \in Id
    BY <2>1 DEF Frame
  <2> QED
    BY <2>1, <2>2 DEF OnceInv, KidsInv
<1>2. ~TradesArrive
  BY DEF TradesArrive, OnceInv, Control
<1>3. \A o \in Id : HandleFill(o) \/ IgnoreFill(o) \/ AbortTick(o) => OnceInv'
  BY HandleFillOnce, NoOtherFill
<1> QED
  BY <1>1, <1>2, <1>3, StartOnce, BotTickOnce, CandlesArriveOnce, BookFillOnce,
     PlaceCounterOnce, CounterFailsOnce, FillDoneOnce, TickStoppedOnce, TickHoldingOnce,
     TickTakesProfitOnce, TickTrendingOnce, SecondPassOnce, TickDriftOnce DEF Tick

-----------------------------------------------------------------------------
(* Every step *)

LEMMA PruneArchiveOnce ==
  ASSUME TypeInv, OnceInv, PruneArchive
  PROVE  OnceInv'
<1>1. pc[Loop] = "idle" /\ UNCHANGED <<isActive, pc, fr>>
  BY DEF PruneArchive, session
<1>2. Control' /\ PassInv' /\ CurrentInv'
  BY <1>1 DEF OnceInv, Control, PassInv, CurrentInv, Handling
<1>3. \A o \in Id : ord'[o] = Free \/ ord'[o] = ord[o]
  BY DEF PruneArchive
<1>4. KidsInv'
  BY <1>1, <1>3 DEF OnceInv, KidsInv, Open, Free
<1> QED
  BY <1>2, <1>4 DEF OnceInv

LEMMA PortfolioHaltOnce ==
  ASSUME TypeInv, OnceInv, PortfolioHalt
  PROVE  OnceInv'
<1>1. pc[Loop] = "idle" /\ UNCHANGED ord
  BY DEF PortfolioHalt
<1>2. CASE Goto(Loop, "off") /\ UNCHANGED fr
  <2>1. fr[Loop].then # "guards"
    BY <1>1, NotGuards DEF OnceInv, Ticking
  <2> QED
    BY <1>1, <1>2, <2>1, OutsideStep DEF Outside
<1>3. CASE Stop(Loop, "halt", "off")
  BY <1>1, <1>3, StopStep
<1> QED
  BY <1>2, <1>3 DEF PortfolioHalt

LEMMA EnvironmentOnce ==
  ASSUME TypeInv, OnceInv, Simulated, Environment
  PROVE  OnceInv'
<1>1. ~Crash
  <2>1. MaxCrashes = 0 /\ crashes \in 0..MaxCrashes
    BY DEF Simulated, TypeInv, OutsideOK
  <2> QED
    BY <2>1 DEF Crash
<1>2. \E q \in Prices : MarketMoves(q)
  BY <1>1 DEF Environment, Simulated, ExchangeTrades, LevelReplyLost, CounterReplyLost
<1>3. UNCHANGED <<isActive, ord, pc, fr>>
  BY <1>2 DEF MarketMoves, session
<1> QED
  BY <1>3, SameAll

LEMMA OnceNext ==
  ASSUME TypeInv, GoneInv, OnceInv, Simulated, [Next]_vars
  PROVE  OnceInv'
<1>1. ASSUME UNCHANGED vars PROVE OnceInv'
  <2>1. UNCHANGED <<isActive, ord, pc, fr>>
    BY <1>1 DEF vars, session
  <2> QED
    BY <2>1, SameAll
<1>2. ASSUME PersistState PROVE OnceInv'
  <2>1. UNCHANGED <<isActive, ord, pc, fr>>
    BY <1>2 DEF PersistState, session
  <2> QED
    BY <2>1, SameAll
<1>3. ASSUME NEW p \in Proc, Lifecycle(p) PROVE OnceInv'
  BY <1>3, OnlyTheLoop, LifecycleOnce
<1>4. ~Reconciliation
  BY NoExchange
<1>5. \A w \in Webs : ~(WebStart(w) \/ WebStop(w))
  BY DEF Simulated
<1> QED
  BY <1>1, <1>2, <1>3, <1>4, <1>5, TickOnce, PortfolioHaltOnce, PruneArchiveOnce,
     EnvironmentOnce DEF Next

(* No grid order ever gets two counter-orders: handle_fill() is reached from *)
(* the bot's pass over fills and from tick()'s own, and in a simulation that *)
(* runs undisturbed the second never repeats the first.                      *)
THEOREM OneCounter ==
  ASSUME Simulated
  PROVE  Spec => []OneCounterPerFill
<1>1. Init => GoneInv /\ OnceInv
  BY GoneInit, OnceInit
<1>2. TypeInv /\ GoneInv /\ OnceInv /\ [Next]_vars => GoneInv' /\ OnceInv'
  BY GoneNext, OnceNext
<1>3. OnceInv => OneCounterPerFill
  BY DEF OnceInv, KidsInv, OneCounterPerFill
<1>4. Spec => []TypeInv
  BY TypeInit, TypeNext, PTL DEF Spec
<1> QED
  BY <1>1, <1>2, <1>3, <1>4, PTL DEF Spec

-----------------------------------------------------------------------------
(* The two books.  Whatever the loop is doing, what the store holds open   *)
(* and what the orchestrator tracks differ only by what the step that is   *)
(* under way has still to write.                                           *)

(* a session that cancels its orders when it stops (the default policy) *)
Tidy == Simulated /\ CancelOnStop

Agree == IF isActive THEN gridIds = Open ELSE Open = {}

(* no order anywhere: before the first start, and once stop() is through *)
Clear == Open = {} /\ gridIds = {}

AtRest ==
    /\ pc[Loop] \notin {"ready", "done"}
    /\ pc[Loop] = "boot" => pst = None
    /\ pc[Loop] \in {"boot", "requote", "quote", "regime"} => Clear
    /\ pc[Loop] \in {"banking", "cancelling", "requote", "quote", "regime"} => isActive
    /\ pc[Loop] \in {"idle", "candles", "next", "logging"} => Agree
    /\ pc[Loop] = "off" => ~isActive /\ Open = {}

(* a counter-order is in the store before it is tracked, and the order it   *)
(* counters is untracked before its record is closed                        *)
InFill ==
    LET cur == fr[Loop].cur
        new == fr[Loop].new
    IN  /\ pc[Loop] # "adding" => new = None
        /\ pc[Loop] = "closing" => gridIds = Open \ {cur}
        /\ pc[Loop] = "adding" =>
              /\ new # cur
              /\ new # None => new \in Open
              /\ gridIds = Open \ {cur, new}

(* orders being cancelled, and orders being placed *)
InTurn ==
    /\ pc[Loop] = "cancelling" => fr[Loop].ids = Open
    /\ pc[Loop] = "place" =>
          /\ gridIds = {}
          /\ fr[Loop].ids = Open
          /\ isActive \/ fr[Loop].then = "recentre" \/ (Open = {} /\ fr[Loop].lvls = {})
    /\ pc[Loop] = "starting" => gridIds = Open

BooksInv == AtRest /\ InFill /\ InTurn

LEMMA BooksInit == Init => BooksInv
<1> SUFFICES ASSUME Init PROVE BooksInv
  OBVIOUS
<1>1. pc[Loop] = "boot" /\ fr[Loop] = Blank /\ pst = None /\ gridIds = {}
  BY LoopIsTask DEF Init
<1>2. Open = {}
  BY DEF Init, Open, Free
<1>3. Blank.new = None
  BY DEF Blank
<1> QED
  BY <1>1, <1>2, <1>3 DEF BooksInv, AtRest, InFill, InTurn, Clear

(* a step that moves neither of the two books *)
LEMMA SameBooks ==
  ASSUME BooksInv, UNCHANGED <<isActive, gridIds, ord, pst, pc, fr>>
  PROVE  BooksInv'
<1>1. Open' = Open
  BY DEF Open
<1> QED
  BY <1>1 DEF BooksInv, AtRest, InFill, InTurn, Clear, Agree

(* Steps that come to rest: the loop is idle, or fetches the quote for a   *)
(* grid of which nothing exists yet.                                       *)
LEMMA ToIdle ==
  ASSUME TypeInv, Return(Loop), Agree'
  PROVE  BooksInv'
<1>1. pc'[Loop] = "idle" /\ fr'[Loop] = Blank
  BY LoopIsTask DEF TypeInv, TasksOK, Return, Goto, Local
<1>2. Blank.new = None
  BY DEF Blank
<1> QED
  BY <1>1, <1>2 DEF BooksInv, AtRest, InFill, InTurn

LEMMA ToOff ==
  ASSUME TypeInv, Goto(Loop, "off"), fr'[Loop].new = None, ~isActive', Open' = {}
  PROVE  BooksInv'
<1>1. pc'[Loop] = "off"
  BY LoopIsTask DEF TypeInv, TasksOK, Goto
<1> QED
  BY <1>1 DEF BooksInv, AtRest, InFill, InTurn

LEMMA ToClear ==
  ASSUME TypeInv, NEW l \in {"quote", "regime", "requote"}, Goto(Loop, l),
         fr'[Loop].new = None, Clear', isActive'
  PROVE  BooksInv'
<1>1. pc'[Loop] = l
  BY LoopIsTask DEF TypeInv, TasksOK, Goto
<1> QED
  BY <1>1 DEF BooksInv, AtRest, InFill, InTurn

LEMMA ToPlace ==
  ASSUME TypeInv, Goto(Loop, "place"), fr'[Loop].new = None, Clear',
         fr'[Loop].ids = {},
         isActive' \/ fr'[Loop].then = "recentre" \/ fr'[Loop].lvls = {}
  PROVE  BooksInv'
<1>1. pc'[Loop] = "place"
  BY LoopIsTask DEF TypeInv, TasksOK, Goto
<1> QED
  BY <1>1 DEF BooksInv, AtRest, InFill, InTurn, Clear

LEMMA ToBanking ==
  ASSUME TypeInv, BooksInv, NEW why, NEW then, Stop(Loop, why, then), pc[Loop] # "adding", isActive'
  PROVE  BooksInv'
<1>1. pc'[Loop] = "banking"
  BY LoopIsTask DEF TypeInv, TasksOK, Stop, Goto
<1>2. fr'[Loop].new = None
  <2>1. fr[Loop] \in Frame /\ fr[Loop].new = None
    BY FrameOf, LoopIsTask DEF TypeInv, BooksInv, InFill
  <2> QED
    BY <2>1, LocalThen DEF Stop, Frame
<1> QED
  BY <1>1, <1>2 DEF BooksInv, AtRest, InFill, InTurn

(* before stop() returns, every order that was open has been cancelled *)
LEMMA ToCancelling ==
  ASSUME TypeInv, BooksInv, CancelOnStop, pc[Loop] = "banking", Goto(Loop, "cancelling"),
         Local(Loop, [fr[Loop] EXCEPT !.ids = ToCancel]), UNCHANGED <<isActive, ord>>
  PROVE  BooksInv'
<1>1. pc'[Loop] = "cancelling"
  BY LoopIsTask DEF TypeInv, TasksOK, Goto
<1>2. fr[Loop] \in Frame /\ fr[Loop].new = None
  BY FrameOf, LoopIsTask DEF TypeInv, BooksInv, InFill
<1>3. fr'[Loop].ids = Open /\ fr'[Loop].new = None
  BY <1>2, LocalThen DEF Frame, ToCancel
<1>4. Open' = Open
  BY DEF Open
<1>5. isActive'
  BY DEF BooksInv, AtRest
<1> QED
  BY <1>1, <1>3, <1>4, <1>5 DEF BooksInv, AtRest, InFill, InTurn

-----------------------------------------------------------------------------
(* the books through start(), deploy_grid() and stop() *)

LEMMA OpenUnchanged == ASSUME UNCHANGED ord PROVE Open' = Open
  BY DEF Open

(* start() takes over every open order, so none is left out of the books *)
LEMMA StartBooks ==
  ASSUME TypeInv, OnceInv, BooksInv, NEW saved, Start(Loop, saved), UNCHANGED ord,
         pc[Loop] \in {"boot", "starting"},
         gridIds \subseteq Open, saved = None
  PROVE  BooksInv'
<1>1. Open' = Open
  BY OpenUnchanged
<1>2. isActive' /\ gridIds' = Open
  BY DEF Start, Recovered
<1>3. fr[Loop].then # "guards"
  BY NotGuards DEF OnceInv, Ticking
<1>4. fr[Loop].new = None
  BY DEF BooksInv, InFill
<1>5. CASE Open = {}
  <2>1. Goto(Loop, "quote") /\ UNCHANGED fr
    BY <1>2, <1>5 DEF Start
  <2>2. Clear'
    BY <1>1, <1>2, <1>5 DEF Clear
  <2> QED
    BY <1>2, <1>4, <2>1, <2>2, ToClear
<1>6. CASE Open # {}
  <2>1. Return(Loop)
    BY <1>2, <1>3, <1>6 DEF Start
  <2>2. Agree'
    BY <1>1, <1>2 DEF Agree
  <2> QED
    BY <2>1, <2>2, ToIdle
<1> QED
  BY <1>5, <1>6

LEMMA StartsBooks ==
  ASSUME TypeInv, OnceInv, BooksInv, StartRefused(Loop) \/ StartSession(Loop) \/ Boot
  PROVE  BooksInv'
<1>1. CASE StartRefused(Loop)
  <2>1. Agree'
    <3>1. isActive' /\ gridIds' = Open /\ UNCHANGED ord
      BY <1>1 DEF StartRefused, session, BooksInv, InTurn
    <3> QED
      BY <3>1, OpenUnchanged DEF Agree
  <2> QED
    BY <1>1, <2>1, ToIdle DEF StartRefused
<1>2. CASE StartSession(Loop)
  BY <1>2, StartBooks DEF StartSession, BooksInv, InTurn
<1>3. CASE Boot
  BY <1>3, StartBooks DEF Boot, BooksInv, AtRest, Clear
<1> QED
  BY <1>1, <1>2, <1>3

LEMMA StartReturnsBooks ==
  ASSUME TypeInv, OnceInv, BooksInv, StartReturns(Loop), Agree',
         pc[Loop] \in {"quote", "regime", "place"}
  PROVE  BooksInv'
<1>1. fr[Loop].then # "guards"
  BY NotGuards DEF OnceInv, Ticking
<1> QED
  BY <1>1, ToIdle DEF StartReturns

LEMMA QuoteBooks ==
  ASSUME TypeInv, OnceInv, BooksInv, Quote(Loop)
  PROVE  BooksInv'
<1>1. /\ pc[Loop] = "quote" /\ isActive /\ Clear /\ fr[Loop].new = None /\ fr[Loop] \in Frame
      /\ UNCHANGED <<isActive, gridIds, ord>>
  BY FrameOf, LoopIsTask DEF Quote, session, TypeInv, BooksInv, AtRest, InFill
<1>2. isActive' /\ Clear' /\ Agree'
  BY <1>1, OpenUnchanged DEF Clear, Agree
<1>3. CASE Goto(Loop, "regime") /\ Local(Loop, [fr[Loop] EXCEPT !.quote = price])
  <2>1. fr'[Loop].new = None
    BY <1>1, <1>3, LocalThen DEF Frame
  <2> QED
    BY <1>1, <1>2, <1>3, <2>1, ToClear
<1>4. CASE StartReturns(Loop)
  BY <1>1, <1>2, <1>4, StartReturnsBooks
<1> QED
  BY <1>3, <1>4 DEF Quote

LEMMA DeployBooks ==
  ASSUME TypeInv, OnceInv, BooksInv, NEW c, Deploy(Loop, c), pc[Loop] \in {"regime", "requote"},
         UNCHANGED <<gridIds, ord>>
  PROVE  BooksInv'
<1>1. isActive /\ Clear /\ fr[Loop].new = None /\ fr[Loop] \in Frame
  BY FrameOf, LoopIsTask DEF TypeInv, BooksInv, AtRest, InFill
<1>2. Clear'
  BY <1>1, OpenUnchanged DEF Clear
<1>3. fr'[Loop].new = None /\ fr'[Loop].ids = {}
  BY <1>1, LocalThen DEF Deploy, Frame
<1>4. isActive' \/ fr'[Loop].lvls = {}
  BY <1>1, LocalThen DEF Deploy, Frame
<1> QED
  BY <1>2, <1>3, <1>4, ToPlace DEF Deploy

LEMMA RegimeCheckedBooks ==
  ASSUME TypeInv, OnceInv, BooksInv, RegimeChecked(Loop)
  PROVE  BooksInv'
<1>1. pc[Loop] = "regime" /\ UNCHANGED <<gridIds, ord>>
  BY DEF RegimeChecked, session
<1>2. CASE Deploy(Loop, fr[Loop].quote)
  BY <1>1, <1>2, DeployBooks
<1>3. CASE StartReturns(Loop) /\ UNCHANGED session
  <2>1. Agree'
    <3>1. Clear /\ UNCHANGED isActive
      BY <1>1, <1>3 DEF BooksInv, AtRest, session
    <3> QED
      BY <1>1, <3>1, OpenUnchanged DEF Agree, Clear
  <2> QED
    BY <1>1, <1>3, <2>1, StartReturnsBooks
<1> QED
  BY <1>2, <1>3 DEF RegimeChecked

LEMMA ReinvestDeploysBooks ==
  ASSUME TypeInv, OnceInv, BooksInv, ReinvestDeploys(Loop)
  PROVE  BooksInv'
<1>1. pc[Loop] = "requote" /\ UNCHANGED <<gridIds, ord>>
  BY DEF ReinvestDeploys
<1>2. CASE Deploy(Loop, price)
  BY <1>1, <1>2, DeployBooks
<1>3. CASE isActive' = FALSE /\ Return(Loop)
  <2>1. Agree'
    BY <1>1, <1>3, OpenUnchanged DEF Agree, Clear, BooksInv, AtRest
  <2> QED
    BY <1>3, <2>1, ToIdle
<1> QED
  BY <1>2, <1>3 DEF ReinvestDeploys

(* a level's order is in the store and among the ids of the deployment *)
LEMMA PlaceLevelBooks ==
  ASSUME TypeInv, BooksInv, Simulated, NEW l \in fr[Loop].lvls, PlaceLevel(Loop, l)
  PROVE  BooksInv'
<1>1. /\ pc[Loop] = "place" /\ UNCHANGED <<isActive, gridIds, pc>>
      /\ fr[Loop] \in Frame
      /\ gridIds = {} /\ fr[Loop].ids = Open /\ fr[Loop].new = None
      /\ isActive \/ fr[Loop].then = "recentre"
  BY FrameOf, LoopIsTask DEF PlaceLevel, session, TypeInv, BooksInv, InFill, InTurn
<1>2. CASE /\ Fresh # {}
           /\ LET n == CHOOSE o \in Fresh : TRUE
              IN  /\ ord' = [ord EXCEPT ![n] = Placed(SideOf(Loop, l), l)]
                  /\ Local(Loop, [fr[Loop] EXCEPT !.lvls = @ \ {l}, !.ids = @ \cup {n}])
  <2> DEFINE n == CHOOSE o \in Fresh : TRUE
  <2>1. n \in Id
    BY <1>2 DEF Fresh
  <2>2. ord' = [ord EXCEPT ![n] = Placed(SideOf(Loop, l), l)]
        /\ Local(Loop, [fr[Loop] EXCEPT !.lvls = @ \ {l}, !.ids = @ \cup {n}])
    BY <1>2
  <2> HIDE DEF n
  <2>3. ord'[n].st = "OPEN" /\ \A o \in Id : o # n => ord'[o] = ord[o]
    BY <2>1, <2>2 DEF Placed, Simulated, TypeInv, OrdersOK
  <2>4. Open' = Open \cup {n}
    BY <2>1, <2>3 DEF Open
  <2>5. /\ fr'[Loop].ids = fr[Loop].ids \cup {n} /\ fr'[Loop].new = None
        /\ fr'[Loop].then = fr[Loop].then
    BY <1>1, <2>2, LocalThen DEF Frame
  <2> QED
    BY <1>1, <2>4, <2>5 DEF BooksInv, AtRest, InFill, InTurn
<1>3. CASE Local(Loop, [fr[Loop] EXCEPT !.lvls = @ \ {l}]) /\ UNCHANGED ord
  <2>1. /\ fr'[Loop].ids = fr[Loop].ids /\ fr'[Loop].new = None
        /\ fr'[Loop].then = fr[Loop].then
    BY <1>1, <1>3, LocalThen DEF Frame
  <2>2. Open' = Open
    BY <1>3, OpenUnchanged
  <2> QED
    BY <1>1, <2>1, <2>2 DEF BooksInv, AtRest, InFill, InTurn
<1> QED
  BY <1>2, <1>3 DEF PlaceLevel

LEMMA DeployDoneBooks ==
  ASSUME TypeInv, OnceInv, BooksInv, DeployDone(Loop)
  PROVE  BooksInv'
<1>1. /\ pc[Loop] = "place" /\ UNCHANGED <<isActive, ord>>
      /\ gridIds' = Open
      /\ isActive \/ fr[Loop].then = "recentre" \/ Open = {}
  BY DEF DeployDone, BooksInv, InTurn
<1>2. Open' = Open
  BY <1>1, OpenUnchanged
<1>3. CASE fr[Loop].then = "recentre"
  <2>1. Goto(Loop, "starting") /\ Local(Loop, Blank)
    BY <1>3 DEF DeployDone
  <2>2. pc'[Loop] = "starting" /\ fr'[Loop].new = None
    BY <2>1, LocalThen, LoopIsTask DEF Blank, TypeInv, TasksOK, Goto
  <2> QED
    BY <1>1, <1>2, <2>2 DEF BooksInv, AtRest, InFill, InTurn
<1>4. CASE fr[Loop].then # "recentre"
  <2>1. Agree'
    BY <1>1, <1>2, <1>4 DEF Agree
  <2>2. StartReturns(Loop)
    BY <1>4 DEF DeployDone
  <2> QED
    BY <1>1, <2>1, <2>2, StartReturnsBooks
<1> QED
  BY <1>3, <1>4

LEMMA CancelOneBooks ==
  ASSUME TypeInv, BooksInv, Simulated, NEW o \in Id, CancelOne(Loop, o)
  PROVE  BooksInv' /\ ord[o].st = "OPEN" /\ \A x \in Id : x # o => ord'[x] = ord[x]
<1>1. /\ pc[Loop] = "cancelling" /\ UNCHANGED <<isActive, gridIds, pc>>
      /\ fr[Loop] \in Frame
      /\ fr[Loop].ids = Open /\ fr[Loop].new = None /\ isActive
      /\ o \in Open
  BY OwnCancel, FrameOf, LoopIsTask DEF session, TypeInv, BooksInv, AtRest, InFill, InTurn
<1>2. ord' = [ord EXCEPT ![o].st = "CANCELLED"]
  BY OwnCancel
<1>3. ord'[o].st = "CANCELLED" /\ \A x \in Id : x # o => ord'[x] = ord[x]
  BY <1>2 DEF TypeInv, OrdersOK, Order
<1>4. Open' = Open \ {o}
  BY <1>3 DEF Open
<1>5. fr'[Loop].ids = fr[Loop].ids \ {o} /\ fr'[Loop].new = None
  BY <1>1, OwnCancel, LocalThen DEF Frame
<1>6. BooksInv'
  BY <1>1, <1>4, <1>5 DEF BooksInv, AtRest, InFill, InTurn
<1> QED
  BY <1>1, <1>3, <1>6 DEF Open

LEMMA StopDoneBooks ==
  ASSUME TypeInv, BooksInv, StopDone(Loop)
  PROVE  BooksInv'
<1>1. /\ pc[Loop] = "cancelling" /\ UNCHANGED ord
      /\ fr[Loop] \in Frame /\ fr[Loop].new = None
      /\ fr[Loop].ids = {} /\ Open = {}
      /\ gridIds' = {} /\ ~isActive'
  BY FrameOf, LoopIsTask DEF StopDone, TypeInv, BooksInv, InFill, InTurn
<1>2. Clear' /\ Agree'
  BY <1>1, OpenUnchanged DEF Clear, Agree
<1>3. CASE fr[Loop].then = "recentre"
  <2>1. Goto(Loop, "place")
    BY <1>3 DEF StopDone
  <2>2. fr'[Loop].then = "recentre" /\ fr'[Loop].new = None /\ fr'[Loop].ids = {}
    <3>1. CASE Local(Loop, [fr[Loop] EXCEPT !.quote = fr[Loop].px, !.lvls = Levels(fr[Loop].px)])
      BY <1>1, <1>3, <3>1, LocalThen DEF Frame
    <3>2. CASE UNCHANGED fr
      BY <1>1, <1>3, <3>2
    <3> QED
      BY <1>3, <3>1, <3>2 DEF StopDone
  <2> QED
    BY <1>2, <2>1, <2>2, ToPlace
<1>4. CASE fr[Loop].then = "off"
  <2>1. Goto(Loop, "off") /\ Local(Loop, Blank)
    BY <1>4 DEF StopDone
  <2>2. fr'[Loop].new = None
    BY <2>1, LocalThen DEF Blank
  <2> QED
    BY <1>1, <1>2, <2>1, <2>2, ToOff DEF Clear
<1>5. CASE fr[Loop].then \notin {"recentre", "off"}
  BY <1>2, <1>5, ToIdle DEF StopDone
<1> QED
  BY <1>3, <1>4, <1>5

LEMMA ReinvestResetsBooks ==
  ASSUME TypeInv, BooksInv, ReinvestResets(Loop)
  PROVE  BooksInv'
<1>1. /\ fr[Loop].new = None /\ Open = {} /\ gridIds' = {} /\ isActive
      /\ UNCHANGED <<isActive, ord, fr>> /\ Goto(Loop, "requote")
  BY DEF ReinvestResets, BooksInv, AtRest, InFill, InTurn
<1>2. Clear'
  BY <1>1, OpenUnchanged DEF Clear
<1> QED
  BY <1>1, <1>2, ToClear

LEMMA LifecycleBooks ==
  ASSUME TypeInv, GoneInv, OnceInv, BooksInv, Tidy, Lifecycle(Loop)
  PROVE  BooksInv'
<1>1. ASSUME NEW o \in Id, RecordLevel(Loop, o) PROVE BooksInv'
  BY <1>1 DEF RecordLevel, OnceInv, KidsInv
<1>2. StopPersists(Loop) \/ ReinvestCancels(Loop) => BooksInv'
  BY ToCancelling DEF StopPersists, ReinvestCancels, session, Tidy
<1>3. Simulated /\ \A o \in Id : ~RecordCancel(Loop, o)
  BY NoExchange DEF Tidy
<1> QED
  BY <1>1, <1>3, <1>2, StartsBooks, QuoteBooks, RegimeCheckedBooks, PlaceLevelBooks, DeployDoneBooks,
     CancelOneBooks, StopDoneBooks, ReinvestResetsBooks, ReinvestDeploysBooks DEF Lifecycle, Tidy

-----------------------------------------------------------------------------
(* the books through a tick *)

(* steps between "idle" and the taking up of a fill *)
LEMMA TickingStep ==
  ASSUME TypeInv, BooksInv, NEW l \in {"candles", "next", "logging"}, Goto(Loop, l),
         pc[Loop] \in {"idle", "candles", "next"}, fr'[Loop].new = None,
         UNCHANGED <<isActive, gridIds, ord>>
  PROVE  BooksInv'
<1>1. pc'[Loop] = l
  BY LoopIsTask DEF TypeInv, TasksOK, Goto
<1>2. Agree'
  BY OpenUnchanged DEF BooksInv, AtRest, Agree
<1> QED
  BY <1>1, <1>2 DEF BooksInv, AtRest, InFill, InTurn

LEMMA BotTickBooks ==
  ASSUME TypeInv, BooksInv, BotTick
  PROVE  BooksInv'
<1>1. fr[Loop] \in Frame /\ fr[Loop].new = None
  BY FrameOf, LoopIsTask DEF BotTick, TypeInv, BooksInv, InFill
<1>2. fr'[Loop].new = None
  BY <1>1, LocalThen DEF BotTick, Frame
<1> QED
  BY <1>2, TickingStep DEF BotTick, session

LEMMA CandlesArriveBooks ==
  ASSUME TypeInv, BooksInv, Simulated, CandlesArrive
  PROVE  BooksInv'
<1>1. /\ pc[Loop] = "candles" /\ fr[Loop] \in Frame /\ fr[Loop].new = None
      /\ UNCHANGED <<isActive, gridIds, ord>>
  BY FrameOf, LoopIsTask DEF CandlesArrive, TypeInv, BooksInv, InFill, session
<1>2. CASE /\ Local(Loop, [fr[Loop] EXCEPT !.px = price, !.known = Open,
                                           !.fills = SimFills(price)])
           /\ Goto(Loop, "next")
  <2>1. fr'[Loop].new = None
    BY <1>1, <1>2, LocalThen DEF Frame
  <2> QED
    BY <1>1, <1>2, <2>1, TickingStep
<1>3. CASE Return(Loop)
  <2>1. Agree'
    BY <1>1, OpenUnchanged DEF BooksInv, AtRest, Agree
  <2> QED
    BY <1>3, <2>1, ToIdle
<1> QED
  BY <1>2, <1>3 DEF CandlesArrive, Simulated

LEMMA HandleFillBooks ==
  ASSUME TypeInv, BooksInv, NEW o \in Id, HandleFill(o)
  PROVE  BooksInv'
<1>1. fr[Loop] \in Frame /\ fr[Loop].new = None
  BY FrameOf, LoopIsTask DEF HandleFill, TypeInv, BooksInv, InFill
<1>2. fr'[Loop].new = None
  BY <1>1, LocalThen DEF HandleFill, Frame
<1> QED
  BY <1>2, TickingStep DEF HandleFill, session

LEMMA BookFillBooks ==
  ASSUME TypeInv, OnceInv, BooksInv, BookFill
  PROVE  BooksInv'
<1>1. /\ pc[Loop] = "logging" /\ isActive /\ gridIds = Open /\ fr[Loop].new = None
      /\ UNCHANGED <<isActive, ord, fr>>
  BY DEF BookFill, BooksInv, AtRest, InFill, Agree, OnceInv, Control, Ticking
<1>2. pc'[Loop] = "closing" /\ gridIds' = Open \ {fr[Loop].cur}
  BY <1>1, LoopIsTask DEF BookFill, TypeInv, TasksOK, Goto
<1>3. Open' = Open
  BY <1>1, OpenUnchanged
<1> QED
  BY <1>1, <1>2, <1>3 DEF BooksInv, AtRest, InFill, InTurn

(* The counter-order has an id of its own, for the order it counters is    *)
(* still in the store.                                                     *)
LEMMA PlaceCounterBooks ==
  ASSUME TypeInv, OnceInv, BooksInv, Simulated, PlaceCounter
  PROVE  /\ BooksInv'
         /\ \A o \in Id : ord[o].st \in {"FILLED", "CANCELLED"} => ord'[o].st = ord[o].st
<1>1. /\ pc[Loop] = "closing" /\ pc'[Loop] = "adding" /\ fr[Loop] \in Frame
      /\ UNCHANGED <<isActive, gridIds>>
  BY LoopIsTask, FrameOf DEF PlaceCounter, Goto, TypeInv, TasksOK, session
<1>2. PICK cur \in Open : cur = fr[Loop].cur
  BY <1>1 DEF OnceInv, CurrentInv, Handling
<1>3. cur \in Id /\ ord[cur].st = "OPEN" /\ ord[cur] \in Order
  BY <1>2 DEF Open, TypeInv, OrdersOK
<1>4. PICK n \in Id : n = (CHOOSE f \in Fresh : TRUE) /\ ord[n].st = "free"
  BY DEF PlaceCounter, Fresh
<1>5. n # cur
  BY <1>3, <1>4
<1>6. ord' = [ord EXCEPT ![n] = CounterOf(cur), ![cur].kids = MoreKids(@)]
  BY <1>2, <1>4 DEF PlaceCounter
<1>7. fr'[Loop].new = n /\ fr'[Loop].cur = cur
  BY <1>1, <1>2, <1>4, LocalThen DEF PlaceCounter, Frame
<1>8. ord'[n].st = "OPEN"
  <2>1. ord'[n] = CounterOf(cur)
    BY <1>3, <1>4, <1>5, <1>6 DEF TypeInv, OrdersOK
  <2> QED
    BY <2>1 DEF CounterOf, Placed, Simulated
<1>9. ord'[cur].st = "OPEN"
  BY <1>3, <1>4, <1>5, <1>6 DEF TypeInv, OrdersOK, Order
<1>10. \A o \in Id : o \notin {n, cur} => ord'[o] = ord[o]
  BY <1>3, <1>4, <1>6 DEF TypeInv, OrdersOK
<1>11. Open' = Open \cup {n}
  BY <1>3, <1>4, <1>8, <1>9, <1>10 DEF Open
<1>12. n \notin Open /\ gridIds' = Open \ {cur}
  BY <1>1, <1>2, <1>4 DEF Open, BooksInv, InFill
<1>13. BooksInv'
  BY <1>1, <1>5, <1>7, <1>11, <1>12 DEF BooksInv, AtRest, InFill, InTurn
<1> QED
  BY <1>3, <1>4, <1>9, <1>10, <1>13

LEMMA CounterFailsBooks ==
  ASSUME TypeInv, OnceInv, BooksInv, CounterFails
  PROVE  BooksInv'
<1>1. /\ pc[Loop] = "closing" /\ pc'[Loop] = "adding" /\ fr[Loop].new = None
      /\ gridIds = Open \ {fr[Loop].cur}
      /\ UNCHANGED <<isActive, gridIds, ord, fr>>
  BY LoopIsTask DEF CounterFails, Goto, TypeInv, TasksOK, session, BooksInv, InFill
<1>2. Open' = Open
  BY <1>1, OpenUnchanged
<1>3. fr[Loop].cur \in Id
  BY <1>1 DEF TypeInv, TasksOK, CurrentFill
<1>4. fr[Loop].cur # None /\ None \notin Open
  BY <1>3, ConstantsAssumption DEF Open
<1>5. Open' \ {fr[Loop].cur, None} = Open \ {fr[Loop].cur}
  BY <1>2, <1>4
<1> QED
  BY <1>1, <1>2, <1>4, <1>5 DEF BooksInv, AtRest, InFill, InTurn

(* the counter-order is tracked and the order it counters is closed *)
LEMMA FillDoneBooks ==
  ASSUME TypeInv, OnceInv, BooksInv, FillDone
  PROVE  /\ BooksInv'
         /\ \A o \in Id : ord[o].st \in {"FILLED", "CANCELLED"} => ord'[o].st = ord[o].st
<1>1. /\ pc[Loop] = "adding" /\ pc'[Loop] = "next" /\ fr[Loop] \in Frame
      /\ fr[Loop].pass = 1 /\ isActive
      /\ UNCHANGED isActive
  BY LoopIsTask, FrameOf DEF FillDone, Goto, TypeInv, TasksOK, OnceInv, Control, Handling, Ticking
<1>2. PICK cur \in Open : cur = fr[Loop].cur
  BY <1>1 DEF OnceInv, CurrentInv, Handling
<1>3. PICK new : new = fr[Loop].new
  OBVIOUS
<1>4. new # cur /\ (new # None => new \in Open) /\ gridIds = Open \ {cur, new}
  BY <1>1, <1>2, <1>3 DEF BooksInv, InFill
<1>5. cur \in Id /\ cur # None /\ None \notin Open
  BY <1>2, ConstantsAssumption DEF Open
<1>6. ord' = [ord EXCEPT ![cur].st = "FILLED"]
  BY <1>1, <1>2 DEF FillDone, AfterFill
<1>7. ord'[cur].st = "FILLED" /\ \A o \in Id : o # cur => ord'[o] = ord[o]
  BY <1>5, <1>6 DEF TypeInv, OrdersOK, Order
<1>8. Open' = Open \ {cur}
  BY <1>7 DEF Open
<1>9. gridIds' = gridIds \cup Added(new)
  BY <1>3 DEF FillDone
<1>10. gridIds' = Open'
  BY <1>4, <1>5, <1>8, <1>9 DEF Added
<1>11. fr'[Loop].new = None
  BY <1>1, LocalThen DEF FillDone, Frame
<1>12. BooksInv'
  BY <1>1, <1>10, <1>11 DEF BooksInv, AtRest, InFill, InTurn, Agree
<1>13. ord[cur].st = "OPEN"
  BY <1>2 DEF Open
<1> QED
  BY <1>7, <1>12, <1>13

LEMMA GuardsBooks ==
  ASSUME TypeInv, OnceInv, BooksInv, Simulated,
         TickHolding \/ TickTakesProfit \/ TickTrending \/ SecondPass \/ TickDrift
  PROVE  BooksInv'
<1>1. pc[Loop] = "next" /\ fr[Loop].new = None /\ fr[Loop] \in Frame
  BY AtGuardsMeans, FrameOf, LoopIsTask DEF TickHolding, TickTakesProfit, TickTrending, SecondPass, TickDrift,
     TypeInv, BooksInv, InFill
<1>2. isActive /\ UNCHANGED <<isActive, gridIds, ord>>
  BY <1>1 DEF TickHolding, TickTakesProfit, TickTrending, SecondPass, TickDrift, session, OnceInv, Control, Ticking
<1>3. Agree'
  BY <1>1, <1>2, OpenUnchanged DEF BooksInv, AtRest, Agree
<1>4. CASE TickHolding
  BY <1>3, <1>4, ToIdle DEF TickHolding
<1>5. CASE TickTakesProfit
  BY <1>1, <1>2, <1>5, ToBanking DEF TickTakesProfit
<1>6. CASE TickTrending
  BY <1>1, <1>2, <1>6, ToBanking DEF TickTrending
<1>7. CASE SecondPass
  <2>1. Goto(Loop, "next")
    BY <1>7 DEF SecondPass, Simulated
  <2>2. fr'[Loop].new = None
    BY <1>1, <1>7, LocalThen DEF SecondPass, Simulated, Frame
  <2> QED
    BY <1>1, <1>2, <2>1, <2>2, TickingStep
<1>8. CASE TickDrift
  BY <1>1, <1>2, <1>3, <1>8, ToBanking, ToIdle DEF TickDrift
<1> QED
  BY <1>4, <1>5, <1>6, <1>7, <1>8

(* In a simulated session, the steps of the tick that are possible. *)
LEMMA SimulatedTick ==
  ASSUME TypeInv, OnceInv, Tick
  PROVE  \/ Boot \/ BotTick \/ CandlesArrive
         \/ \E o \in Id : HandleFill(o)
         \/ BookFill \/ PlaceCounter \/ CounterFails \/ FillDone
         \/ TickHolding \/ TickTakesProfit \/ TickTrending \/ SecondPass \/ TickDrift
<1>1. ~RecordCounter
  <2> SUFFICES ASSUME RecordCounter PROVE FALSE
    OBVIOUS
  <2>1. fr[Loop] \in Frame /\ fr[Loop].new # None /\ ord[fr[Loop].new].st = "sent"
    BY LoopIsTask, FrameOf DEF RecordCounter, TypeInv
  <2>2. fr[Loop].new \in Id
    BY <2>1 DEF Frame
  <2> QED
    BY <2>1, <2>2 DEF OnceInv, KidsInv
<1>2. ~TradesArrive
  BY DEF TradesArrive, OnceInv, Control
<1> QED
  BY <1>1, <1>2, NoOtherFill, TickStoppedOnce DEF Tick

LEMMA TickBooks ==
  ASSUME TypeInv, OnceInv, BooksInv, Simulated, Tick
  PROVE  BooksInv'
  BY SimulatedTick, StartsBooks, BotTickBooks, CandlesArriveBooks, HandleFillBooks, BookFillBooks,
     PlaceCounterBooks, CounterFailsBooks, FillDoneBooks, GuardsBooks

LEMMA PruneArchiveBooks ==
  ASSUME BooksInv, PruneArchive
  PROVE  BooksInv'
<1>1. pc[Loop] = "idle" /\ UNCHANGED <<isActive, gridIds, pst, pc, fr>>
  BY DEF PruneArchive, session, outside
<1>2. \A o \in Id : IF o \in Dead THEN ord'[o] = Free ELSE ord'[o] = ord[o]
  BY DEF PruneArchive
<1>3. \A o \in Dead : ord[o].st \in {"FILLED", "CANCELLED", "STALE"}
  BY DEF Dead
<1>4. Free.st = "free"
  BY DEF Free
<1>5. Open' = Open
  BY <1>2, <1>3, <1>4 DEF Open
<1> QED
  BY <1>1, <1>5 DEF BooksInv, AtRest, InFill, InTurn, Agree

LEMMA PortfolioHaltBooks ==
  ASSUME TypeInv, BooksInv, PortfolioHalt
  PROVE  BooksInv'
<1>1. /\ pc[Loop] = "idle" /\ fr[Loop].new = None
      /\ UNCHANGED <<isActive, gridIds, ord>>
  BY DEF PortfolioHalt, session, BooksInv, InFill
<1>2. CASE isActive
  BY <1>1, <1>2, ToBanking DEF PortfolioHalt
<1>3. CASE ~isActive
  <2>1. Goto(Loop, "off") /\ UNCHANGED fr
    BY <1>3 DEF PortfolioHalt
  <2>2. Open' = {}
    BY <1>1, <1>3, OpenUnchanged DEF BooksInv, AtRest, Agree
  <2> QED
    BY <1>1, <1>3, <2>1, <2>2, ToOff
<1> QED
  BY <1>2, <1>3

LEMMA EnvironmentBooks ==
  ASSUME TypeInv, BooksInv, Simulated, Environment
  PROVE  UNCHANGED ord /\ BooksInv'
<1>1. ~Crash
  <2>1. MaxCrashes = 0 /\ crashes \in 0..MaxCrashes
    BY DEF Simulated, TypeInv, OutsideOK
  <2> QED
    BY <2>1 DEF Crash
<1>2. \E q \in Prices : MarketMoves(q)
  BY <1>1 DEF Environment, Simulated, ExchangeTrades, LevelReplyLost, CounterReplyLost
<1>3. UNCHANGED <<isActive, gridIds, ord, pst, pc, fr>>
  BY <1>2 DEF MarketMoves, session
<1> QED
  BY <1>3, SameBooks

LEMMA BooksNext ==
  ASSUME TypeInv, GoneInv, OnceInv, BooksInv, Tidy, [Next]_vars
  PROVE  BooksInv'
<1>1. Simulated
  BY DEF Tidy
<1>2. ASSUME UNCHANGED vars PROVE BooksInv'
  <2>1. UNCHANGED <<isActive, gridIds, ord, pst, pc, fr>>
    BY <1>2 DEF vars, session
  <2> QED
    BY <2>1, SameBooks
<1>3. ASSUME PersistState PROVE BooksInv'
  <2>1. /\ pc[Loop] = "idle" /\ UNCHANGED <<isActive, gridIds, ord, pc, fr>>
    BY <1>3 DEF PersistState, session
  <2>2. Open' = Open
    BY <2>1, OpenUnchanged
  <2> QED
    BY <2>1, <2>2 DEF BooksInv, AtRest, InFill, InTurn, Agree
<1>4. ASSUME NEW p \in Proc, Lifecycle(p) PROVE BooksInv'
  BY <1>1, <1>4, OnlyTheLoop, LifecycleBooks
<1>5. ~Reconciliation
  BY <1>1, NoExchange
<1>6. \A w \in Webs : ~(WebStart(w) \/ WebStop(w))
  BY <1>1 DEF Simulated
<1> QED
  BY <1>1, <1>2, <1>3, <1>4, <1>5, <1>6, TickBooks, PortfolioHaltBooks, PruneArchiveBooks,
     EnvironmentBooks DEF Next

(* A status of the store that is final stays as it is, by the same books:  *)
(* a step closes only what is open.                                        *)
Final(o) == ord[o].st \in {"FILLED", "CANCELLED"}
LEMMA FinalNext ==
  ASSUME TypeInv, GoneInv, OnceInv, BooksInv, Tidy, [Next]_vars
  PROVE  \A o \in Id : Final(o) => ord'[o].st \in {ord[o].st, "free"}
<1> DEFINE Kept == \A o \in Id : Final(o) => ord'[o].st \in {ord[o].st, "free"}
<1>1. Simulated
  BY DEF Tidy
<1>2. UNCHANGED ord => Kept
  OBVIOUS
<1>3. ASSUME Lifecycle(Loop) PROVE Kept
  <2>1. ASSUME NEW o \in Id, CancelOne(Loop, o) PROVE Kept
    BY <1>1, <2>1, CancelOneBooks DEF Final
  <2>2. ASSUME NEW l \in fr[Loop].lvls, PlaceLevel(Loop, l) PROVE Kept
    <3>1. CASE UNCHANGED ord
      BY <3>1
    <3>2. CASE /\ Fresh # {}
               /\ ord' = [ord EXCEPT ![CHOOSE o \in Fresh : TRUE] = Placed(SideOf(Loop, l), l)]
      <4> DEFINE n == CHOOSE o \in Fresh : TRUE
      <4>1. n \in Id /\ ord[n].st = "free"
        BY <3>2 DEF Fresh
      <4>2. \A o \in Id : o # n => ord'[o] = ord[o]
        BY <3>2, <4>1 DEF TypeInv, OrdersOK
      <4> HIDE DEF n
      <4> QED
        BY <4>1, <4>2 DEF Final
    <3> QED
      BY <2>2, <3>1, <3>2 DEF PlaceLevel
  <2>3. ASSUME NEW o \in Id, RecordLevel(Loop, o) PROVE Kept
    BY <2>3 DEF RecordLevel, OnceInv, KidsInv
  <2>4. \A o \in Id : ~RecordCancel(Loop, o)
    BY <1>1, NoExchange
  <2> HIDE DEF Kept
  <2> QED
    BY <1>2, <1>3, <2>1, <2>2, <2>3, <2>4 DEF Lifecycle, StartRefused, StartSession, Quote, RegimeChecked,
       DeployDone, StopPersists, StopDone, ReinvestCancels, ReinvestResets, ReinvestDeploys
<1>4. ASSUME Tick PROVE Kept
  <2>1. PlaceCounter \/ FillDone => Kept
    BY <1>1, PlaceCounterBooks, FillDoneBooks DEF Final
  <2> HIDE DEF Kept
  <2> QED
    BY <1>2, <1>4, <2>1, SimulatedTick DEF Boot, BotTick, CandlesArrive, HandleFill, BookFill, CounterFails,
       TickHolding, TickTakesProfit, TickTrending, SecondPass, TickDrift
<1>5. ASSUME PruneArchive PROVE Kept
  <2>1. \A o \in Id : ord'[o] = Free \/ ord'[o] = ord[o]
    BY <1>5 DEF PruneArchive
  <2> QED
    BY <2>1 DEF Free
<1>6. ASSUME NEW p \in Proc, Lifecycle(p) PROVE Kept
  BY <1>1, <1>3, <1>6, OnlyTheLoop
<1>7. ~Reconciliation
  BY <1>1, NoExchange
<1>8. \A w \in Webs : ~(WebStart(w) \/ WebStop(w))
  BY <1>1 DEF Simulated
<1>9. Environment => Kept
  BY <1>1, <1>2, EnvironmentBooks
<1>10. PersistState \/ PortfolioHalt \/ UNCHANGED vars => Kept
  BY <1>2 DEF PersistState, PortfolioHalt, vars
<1> HIDE DEF Kept
<1>11. Kept
  BY <1>4, <1>5, <1>6, <1>7, <1>8, <1>9, <1>10 DEF Next
<1> QED
  BY <1>11 DEF Kept

LEMMA BooksAlways ==
  ASSUME Tidy
  PROVE  Spec => [](TypeInv /\ GoneInv /\ OnceInv /\ BooksInv)
<1>1. Simulated
  BY DEF Tidy
<1>2. Init => TypeInv /\ GoneInv /\ OnceInv /\ BooksInv
  BY TypeInit, GoneInit, OnceInit, BooksInit
<1>3. TypeInv /\ GoneInv /\ OnceInv /\ BooksInv /\ [Next]_vars
          => TypeInv' /\ GoneInv' /\ OnceInv' /\ BooksInv'
  BY <1>1, TypeNext, GoneNext, OnceNext, BooksNext
<1> QED
  BY <1>2, <1>3, PTL DEF Spec

LEMMA LoopIsQuiet ==
  ASSUME BooksInv, Quiet
  PROVE  Agree /\ (pc[Loop] = "off" => ~isActive)
<1>1. pc[Loop] \in {"idle", "off"}
  BY LoopIsTask DEF Quiet, BooksInv, AtRest
<1> QED
  BY <1>1 DEF BooksInv, AtRest, Agree

(* Between two ticks of an active session, what the orchestrator tracks is *)
(* exactly what the order store holds open: no order of the grid is        *)
(* forgotten and none that has ended is still tracked.                     *)
THEOREM TheBooksAgree ==
  ASSUME Tidy
  PROVE  Spec => []BooksAgree
<1>1. BooksInv => BooksAgree
  BY LoopIsQuiet DEF Agree, BooksAgree
<1> QED
  BY <1>1, BooksAlways, PTL

(* However a session came to stop, by a take profit, a trend, a failed     *)
(* deployment or the portfolio's halt, it leaves no order open.            *)
THEOREM StopsCleanly ==
  ASSUME Tidy
  PROVE  Spec => []StoppedGridHasNoOrders
<1>1. BooksInv => StoppedGridHasNoOrders
  BY LoopIsQuiet DEF Agree, StoppedGridHasNoOrders
<1> QED
  BY <1>1, BooksAlways, PTL

(* No fill or cancellation rewrites a record that is FILLED or CANCELLED.  *)
THEOREM FinalStays ==
  ASSUME Tidy
  PROVE  Spec => FinalStatusIsFinal
<1> DEFINE Keeps == \A o \in Id : ord[o].st \in {"FILLED", "CANCELLED"}
                                      => ord'[o].st \in {ord[o].st, "free"}
<1>1. TypeInv /\ GoneInv /\ OnceInv /\ BooksInv /\ [Next]_vars => Keeps
  BY FinalNext DEF Final
<1>2. Spec => [][Keeps]_vars
  BY <1>1, BooksAlways, PTL DEF Spec
<1> QED
  BY <1>2 DEF FinalStatusIsFinal

-----------------------------------------------------------------------------
(* The inventory.  A fill opens a lot and replaces a buy by a sell, or      *)
(* closes one and replaces a sell by a buy; while it is handled the books   *)
(* are one order and one lot apart.                                         *)

(* a session all of whose orders are placed and that drops no stale lots *)
Reliable == Tidy /\ "place" \notin Events /\ "stale" \notin Events

Balanced == lots = NDown - Cardinality(Buys) /\ lots = Cardinality(Sells) - NUp
Covered == Open # {} => Balanced

(* the levels that a deployment has still to place, on either side *)
Below == {l \in fr[Loop].lvls : l < fr[Loop].quote}
Above == fr[Loop].lvls \ Below

StockInv ==
    /\ pc[Loop] # "place" => fr[Loop].lvls = {}
    /\ pc[Loop] \in {"boot", "quote", "regime", "requote", "place", "starting"} => lots = 0
    /\ pc[Loop] \in {"banking", "cancelling"} => lots = 0 \/ fr[Loop].then = "off"
    /\ pc[Loop] = "next" /\ fr[Loop].pass = 2 => lots = 0
    /\ pc[Loop] \in {"idle", "candles", "next", "logging"} /\ isActive => Covered
    /\ pc[Loop] = "starting" => Covered
    /\ pc[Loop] = "closing" =>
          IF ord[fr[Loop].cur].side = "BUY"
          THEN lots - 1 = NDown - Cardinality(Buys) /\ lots - 1 = Cardinality(Sells) - NUp
          ELSE lots + 1 = NDown - Cardinality(Buys) /\ lots + 1 = Cardinality(Sells) - NUp
    /\ pc[Loop] = "adding" =>
          IF ord[fr[Loop].cur].side = "BUY"
          THEN lots - 1 = NDown - Cardinality(Buys) /\ lots = Cardinality(Sells) - NUp
          ELSE lots = NDown - Cardinality(Buys) /\ lots + 1 = Cardinality(Sells) - NUp
    /\ pc[Loop] = "place" =>
          \/ Open = {} /\ fr[Loop].lvls = {}
          \/ /\ IsFiniteSet(Below) /\ IsFiniteSet(Above)
             /\ Cardinality(Buys) + Cardinality(Below) = NDown
             /\ Cardinality(Sells) + Cardinality(Above) = NUp

LEMMA BookSizes ==
  /\ IsFiniteSet(Buys) /\ Cardinality(Buys) \in Nat
  /\ IsFiniteSet(Sells) /\ Cardinality(Sells) \in Nat
<1>1. IsFiniteSet(Id) /\ Buys \in SUBSET Id /\ Sells \in SUBSET Id
  BY ConstantsAssumption DEF Buys, Sells, Open
<1>2. IsFiniteSet(Buys) /\ IsFiniteSet(Sells)
  BY <1>1, FS_Subset
<1> QED
  BY <1>2, FS_CardinalityType

LEMMA SameSizes ==
  ASSUME UNCHANGED ord
  PROVE  Open' = Open /\ Buys' = Buys /\ Sells' = Sells
  BY DEF Open, Buys, Sells

(* an order comes into the book, or leaves it *)
LEMMA OrderOpens ==
  ASSUME NEW n \in Id, ord[n].st # "OPEN", ord'[n].st = "OPEN",
         \A o \in Id : o # n => ord'[o].st = ord[o].st /\ ord'[o].side = ord[o].side
  PROVE  /\ ord'[n].side = "BUY" => /\ Cardinality(Buys') = Cardinality(Buys) + 1
                                    /\ Cardinality(Sells') = Cardinality(Sells)
         /\ ord'[n].side = "SELL" => /\ Cardinality(Sells') = Cardinality(Sells) + 1
                                     /\ Cardinality(Buys') = Cardinality(Buys)
<1>1. n \notin Buys /\ n \notin Sells
  BY DEF Buys, Sells, Open
<1>2. ord'[n].side = "BUY" => Buys' = Buys \cup {n} /\ Sells' = Sells
  BY DEF Buys, Sells, Open
<1>3. ord'[n].side = "SELL" => Sells' = Sells \cup {n} /\ Buys' = Buys
  BY DEF Buys, Sells, Open
<1>4. /\ Cardinality(Buys \cup {n}) = Cardinality(Buys) + 1
      /\ Cardinality(Sells \cup {n}) = Cardinality(Sells) + 1
  BY <1>1, BookSizes, FS_AddElement
<1> QED
  BY <1>2, <1>3, <1>4

LEMMA OrderCloses ==
  ASSUME NEW n \in Open, ord'[n].st # "OPEN",
         \A o \in Id : o # n => ord'[o].st = ord[o].st /\ ord'[o].side = ord[o].side
  PROVE  /\ ord[n].side = "BUY" => /\ Cardinality(Buys') = Cardinality(Buys) - 1
                                   /\ Cardinality(Sells') = Cardinality(Sells)
         /\ ord[n].side = "SELL" => /\ Cardinality(Sells') = Cardinality(Sells) - 1
                                    /\ Cardinality(Buys') = Cardinality(Buys)
<1>1. ord[n].side = "BUY" => n \in Buys /\ Buys' = Buys \ {n} /\ Sells' = Sells
  BY DEF Buys, Sells, Open
<1>2. ord[n].side = "SELL" => n \in Sells /\ Sells' = Sells \ {n} /\ Buys' = Buys
  BY DEF Buys, Sells, Open
<1>3. /\ n \in Buys => Cardinality(Buys \ {n}) = Cardinality(Buys) - 1
      /\ n \in Sells => Cardinality(Sells \ {n}) = Cardinality(Sells) - 1
  BY BookSizes, FS_RemoveElement
<1> QED
  BY <1>1, <1>2, <1>3

(* the levels of a grid: NDown below its centre and NUp above it *)
LEMMA Scaled ==
  ASSUME NEW i \in Int, NEW j \in Int, i < j
  PROVE  i * Spacing < j * Spacing
<1>1. Spacing \in Int /\ Spacing > 0
  BY ConstantsAssumption
<1>2. (j - i) * Spacing > 0
  BY <1>1
<1>3. (j - i) * Spacing = j * Spacing - i * Spacing
  BY <1>1
<1>4. i * Spacing \in Int /\ j * Spacing \in Int
  BY <1>1
<1> QED
  BY <1>2, <1>3, <1>4

LEMMA StepsApart ==
  ASSUME NEW i \in Int, NEW j \in Int
  PROVE  (i * Spacing = j * Spacing <=> i = j) /\ (i > 0 => i * Spacing > 0) /\ i * Spacing \in Int
<1>1. Spacing \in Int
  BY ConstantsAssumption
<1>2. i * Spacing \in Int /\ j * Spacing \in Int /\ 0 * Spacing = 0
  BY <1>1
<1>3. i < j => i * Spacing < j * Spacing
  BY Scaled
<1>4. j < i => j * Spacing < i * Spacing
  BY Scaled
<1>5. i > 0 => 0 * Spacing < i * Spacing
  BY Scaled
<1> QED
  BY <1>2, <1>3, <1>4, <1>5

LEMMA LevelCounts ==
  ASSUME NEW c \in Int
  PROVE  LET below == {l \in Levels(c) : l < c}
         IN  /\ IsFiniteSet(below) /\ IsFiniteSet(Levels(c) \ below)
             /\ Cardinality(below) = NDown /\ Cardinality(Levels(c) \ below) = NUp
<1> DEFINE below == {l \in Levels(c) : l < c}
           down == {c - i * Spacing : i \in 1..NDown}
           up == {c + i * Spacing : i \in 1..NUp}
           f == [i \in 1..NDown |-> c - i * Spacing]
           g == [i \in 1..NUp |-> c + i * Spacing]
<1>1. NDown \in Nat /\ NUp \in Nat
  BY ConstantsAssumption
<1>2. \A i \in 1..NDown : i * Spacing \in Int /\ i * Spacing > 0
  BY <1>1, StepsApart
<1>3. \A i \in 1..NUp : i * Spacing \in Int /\ i * Spacing > 0
  BY <1>1, StepsApart
<1>4. \A l \in down : l < c
  BY <1>2
<1>5. \A l \in up : ~(l < c)
  BY <1>3
<1>6. below = down /\ Levels(c) \ below = up
  BY <1>4, <1>5 DEF Levels
<1>7. f \in Bijection(1..NDown, down)
  <2>1. f \in Surjection(1..NDown, down)
    BY DEF Surjection
  <2>2. ASSUME NEW i \in 1..NDown, NEW j \in 1..NDown, f[i] = f[j] PROVE i = j
    <3>1. i * Spacing = j * Spacing
      BY <1>2, <2>2
    <3> QED
      BY <1>1, <3>1, StepsApart
  <2> QED
    BY <2>1, <2>2 DEF Bijection, Injection, IsInjective, Surjection
<1>8. g \in Bijection(1..NUp, up)
  <2>1. g \in Surjection(1..NUp, up)
    BY DEF Surjection
  <2>2. ASSUME NEW i \in 1..NUp, NEW j \in 1..NUp, g[i] = g[j] PROVE i = j
    <3>1. i * Spacing = j * Spacing
      BY <1>3, <2>2
    <3> QED
      BY <1>1, <3>1, StepsApart
  <2> QED
    BY <2>1, <2>2 DEF Bijection, Injection, IsInjective, Surjection
<1> HIDE DEF below, down, up, f, g
<1>9. ExistsBijection(1..NDown, down) /\ ExistsBijection(1..NUp, up)
  BY <1>7, <1>8 DEF ExistsBijection
<1>10. /\ IsFiniteSet(1..NDown) /\ Cardinality(1..NDown) = NDown
       /\ IsFiniteSet(1..NUp) /\ Cardinality(1..NUp) = NUp
  BY <1>1, FS_Interval
<1>11. /\ Cardinality(down) = NDown /\ Cardinality(up) = NUp
       /\ IsFiniteSet(down) /\ IsFiniteSet(up)
  BY <1>9, <1>10, FS_Bijection
<1> QED
  BY <1>6, <1>11 DEF below

LEMMA StockInit == Init => StockInv
<1> SUFFICES ASSUME Init PROVE StockInv
  OBVIOUS
<1>1. pc[Loop] = "boot" /\ fr[Loop] = Blank /\ lots = 0
  BY LoopIsTask DEF Init
<1>2. Blank.lvls = {}
  BY DEF Blank
<1> QED
  BY <1>1, <1>2 DEF StockInv

LEMMA SameStock ==
  ASSUME StockInv, UNCHANGED <<isActive, lots, ord, pc, fr>>
  PROVE  StockInv'
<1>1. Open' = Open /\ Buys' = Buys /\ Sells' = Sells
  BY SameSizes
<1>2. Below' = Below /\ Above' = Above
  BY DEF Below, Above
<1>3. Covered' <=> Covered
  BY <1>1 DEF Covered, Balanced
<1> QED
  BY <1>1, <1>2, <1>3 DEF StockInv

LEMMA CoveredSame ==
  ASSUME Covered, UNCHANGED <<lots, ord>>
  PROVE  Covered'
  BY SameSizes DEF Covered, Balanced

LEMMA CoveredEmpty ==
  ASSUME Open' = {}
  PROVE  Covered'
  BY DEF Covered

LEMMA StockToIdle ==
  ASSUME TypeInv, Return(Loop), isActive' => Covered'
  PROVE  StockInv'
<1>1. pc'[Loop] = "idle" /\ fr'[Loop] = Blank
  BY LoopIsTask DEF TypeInv, TasksOK, Return, Goto, Local
<1>2. Blank.lvls = {}
  BY DEF Blank
<1> QED
  BY <1>1, <1>2 DEF StockInv

(* to the steps of start() and stop() *)
LEMMA StockToFlat ==
  ASSUME TypeInv, NEW l \in {"quote", "regime", "requote", "banking", "cancelling", "off"}, Goto(Loop, l),
         fr'[Loop].lvls = {}, lots' = 0 \/ (l \in {"banking", "cancelling"} /\ fr'[Loop].then = "off") \/ l = "off"
  PROVE  StockInv'
<1>1. pc'[Loop] = l
  BY LoopIsTask DEF TypeInv, TasksOK, Goto
<1> QED
  BY <1>1 DEF StockInv

(* a deployment around c has everything still to place, or gives up *)
LEMMA StockToPlace ==
  ASSUME TypeInv, Goto(Loop, "place"), lots' = 0, Open' = {}, NEW c \in Int,
         \/ fr'[Loop].lvls = {}
         \/ fr'[Loop].quote = c /\ fr'[Loop].lvls = Levels(c)
  PROVE  StockInv'
<1>1. pc'[Loop] = "place"
  BY LoopIsTask DEF TypeInv, TasksOK, Goto
<1>2. CASE fr'[Loop].lvls = {}
  BY <1>1, <1>2 DEF StockInv
<1>3. CASE fr'[Loop].quote = c /\ fr'[Loop].lvls = Levels(c)
  <2>1. Buys' = {} /\ Sells' = {}
    BY DEF Buys, Sells
  <2>2. Below' = {l \in Levels(c) : l < c} /\ Above' = Levels(c) \ {l \in Levels(c) : l < c}
    BY <1>3 DEF Below, Above
  <2>3. /\ IsFiniteSet(Below') /\ IsFiniteSet(Above')
        /\ Cardinality(Below') = NDown /\ Cardinality(Above') = NUp
    BY <2>2, LevelCounts
  <2>4. Cardinality(Buys') = 0 /\ Cardinality(Sells') = 0
    BY <2>1, FS_EmptySet
  <2>5. /\ Cardinality(Buys') + Cardinality(Below') = NDown
        /\ Cardinality(Sells') + Cardinality(Above') = NUp
    BY <2>3, <2>4, ConstantsAssumption
  <2> QED
    BY <1>1, <2>3, <2>5 DEF StockInv
<1> QED
  BY <1>2, <1>3

-----------------------------------------------------------------------------
(* the inventory through start(), deploy_grid() and stop() *)

LEMMA StartStock ==
  ASSUME TypeInv, OnceInv, BooksInv, StockInv, StartRefused(Loop) \/ StartSession(Loop) \/ Boot
  PROVE  StockInv'
<1>1. /\ pc[Loop] \in {"starting", "boot"} /\ UNCHANGED <<lots, ord>>
      /\ fr[Loop].then # "guards"
  BY NotGuards DEF StartRefused, StartSession, Boot, session, OnceInv, Ticking
<1>2. Covered
  BY <1>1 DEF StockInv, BooksInv, AtRest, Clear, Covered
<1>3. Covered'
  BY <1>1, <1>2, CoveredSame
<1>4. ASSUME NEW saved, Start(Loop, saved) PROVE StockInv'
  <2>1. CASE Goto(Loop, "quote") /\ UNCHANGED fr
    BY <1>1, <2>1, StockToFlat DEF StockInv
  <2>2. CASE Return(Loop)
    BY <1>3, <2>2, StockToIdle
  <2> QED
    BY <1>1, <1>4, <2>1, <2>2 DEF Start
<1>5. StartRefused(Loop) => StockInv'
  BY <1>3, StockToIdle DEF StartRefused
<1> QED
  BY <1>4, <1>5 DEF StartSession, Boot

LEMMA StartReturnsStock ==
  ASSUME TypeInv, OnceInv, StartReturns(Loop), isActive' => Covered',
         pc[Loop] \in {"quote", "regime", "place"}
  PROVE  StockInv'
<1>1. fr[Loop].then # "guards"
  BY NotGuards DEF OnceInv, Ticking
<1> QED
  BY <1>1, StockToIdle DEF StartReturns

LEMMA QuoteStock ==
  ASSUME TypeInv, OnceInv, BooksInv, StockInv, Quote(Loop)
  PROVE  StockInv'
<1>1. /\ pc[Loop] = "quote" /\ fr[Loop] \in Frame /\ fr[Loop].lvls = {}
      /\ lots = 0 /\ Open = {} /\ UNCHANGED <<lots, ord>>
  BY FrameOf, LoopIsTask DEF Quote, session, TypeInv, BooksInv, AtRest, Clear, StockInv
<1>2. CASE Goto(Loop, "regime") /\ Local(Loop, [fr[Loop] EXCEPT !.quote = price])
  <2>1. fr'[Loop].lvls = {}
    BY <1>1, <1>2, LocalThen DEF Frame
  <2> QED
    BY <1>1, <1>2, <2>1, StockToFlat
<1>3. CASE StartReturns(Loop)
  BY <1>1, <1>3, SameSizes, CoveredEmpty, StartReturnsStock
<1> QED
  BY <1>2, <1>3 DEF Quote

LEMMA DeployStock ==
  ASSUME TypeInv, BooksInv, StockInv, NEW c \in Int, Deploy(Loop, c), pc[Loop] \in {"regime", "requote"},
         UNCHANGED <<lots, ord>>
  PROVE  StockInv'
<1>1. fr[Loop] \in Frame /\ lots = 0 /\ Open = {}
  BY FrameOf, LoopIsTask DEF TypeInv, BooksInv, AtRest, Clear, StockInv
<1>2. \/ fr'[Loop].lvls = {}
      \/ fr'[Loop].quote = c /\ fr'[Loop].lvls = Levels(c)
  BY <1>1, LocalThen DEF Deploy, Frame
<1>3. Open' = {} /\ lots' = 0
  BY <1>1, SameSizes
<1> QED
  BY <1>2, <1>3, StockToPlace DEF Deploy

LEMMA DeploysStock ==
  ASSUME TypeInv, OnceInv, BooksInv, StockInv, RegimeChecked(Loop) \/ ReinvestDeploys(Loop)
  PROVE  StockInv'
<1>1. /\ pc[Loop] \in {"regime", "requote"} /\ fr[Loop] \in Frame /\ lots = 0 /\ Open = {}
      /\ UNCHANGED <<lots, ord>>
  BY FrameOf, LoopIsTask DEF RegimeChecked, ReinvestDeploys, session, TypeInv, BooksInv, AtRest, Clear, StockInv
<1>2. fr[Loop].quote \in Int /\ price \in Int
  BY <1>1, ConstantsAssumption DEF Frame, TypeInv, OutsideOK
<1>3. Covered'
  BY <1>1, SameSizes, CoveredEmpty
<1>4. ASSUME NEW c \in Int, Deploy(Loop, c) PROVE StockInv'
  BY <1>1, <1>4, DeployStock
<1>5. pc[Loop] = "regime" /\ StartReturns(Loop) => StockInv'
  BY <1>3, StartReturnsStock
<1>6. Return(Loop) => StockInv'
  BY <1>3, StockToIdle
<1> QED
  BY <1>2, <1>4, <1>5, <1>6 DEF RegimeChecked, ReinvestDeploys

(* A level's order takes the level's place, on the same side. *)
LEMMA PlaceLevelStock ==
  ASSUME TypeInv, BooksInv, StockInv, Reliable, NEW l \in fr[Loop].lvls, PlaceLevel(Loop, l)
  PROVE  StockInv'
<1>1. /\ pc[Loop] = "place" /\ UNCHANGED <<isActive, lots, pc>> /\ fr[Loop] \in Frame /\ lots = 0
  BY FrameOf, LoopIsTask DEF PlaceLevel, session, TypeInv, StockInv
<1>2. /\ IsFiniteSet(Below) /\ IsFiniteSet(Above)
      /\ Cardinality(Buys) + Cardinality(Below) = NDown
      /\ Cardinality(Sells) + Cardinality(Above) = NUp
  BY <1>1 DEF StockInv
<1> DEFINE n == CHOOSE o \in Fresh : TRUE
<1>3. /\ Fresh # {}
      /\ ord' = [ord EXCEPT ![n] = Placed(SideOf(Loop, l), l)]
      /\ Local(Loop, [fr[Loop] EXCEPT !.lvls = @ \ {l}, !.ids = @ \cup {n}])
  BY DEF PlaceLevel, Reliable
<1>4. n \in Id /\ ord[n].st = "free"
  BY <1>3 DEF Fresh
<1> HIDE DEF n
<1>5. /\ ord'[n].st = "OPEN" /\ ord'[n].side = SideOf(Loop, l)
      /\ \A o \in Id : o # n => ord'[o] = ord[o]
  BY <1>3, <1>4 DEF Placed, Reliable, Tidy, Simulated, TypeInv, OrdersOK
<1>6. fr'[Loop].lvls = fr[Loop].lvls \ {l} /\ fr'[Loop].quote = fr[Loop].quote
  BY <1>1, <1>3, LocalThen DEF Frame
<1>7. l < fr[Loop].quote => Below' = Below \ {l} /\ Above' = Above /\ l \in Below
  BY <1>6 DEF Below, Above
<1>8. ~(l < fr[Loop].quote) => Above' = Above \ {l} /\ Below' = Below /\ l \in Above
  BY <1>6 DEF Below, Above
<1>9. /\ SideOf(Loop, l) = "BUY" <=> l < fr[Loop].quote
      /\ SideOf(Loop, l) = "SELL" <=> ~(l < fr[Loop].quote)
  BY DEF SideOf
<1>10. /\ SideOf(Loop, l) = "BUY" => /\ Cardinality(Buys') = Cardinality(Buys) + 1
                                     /\ Cardinality(Sells') = Cardinality(Sells)
       /\ SideOf(Loop, l) = "SELL" => /\ Cardinality(Sells') = Cardinality(Sells) + 1
                                      /\ Cardinality(Buys') = Cardinality(Buys)
  BY <1>4, <1>5, OrderOpens
<1>11. /\ l \in Below => /\ IsFiniteSet(Below \ {l})
                         /\ Cardinality(Below \ {l}) = Cardinality(Below) - 1
       /\ l \in Above => /\ IsFiniteSet(Above \ {l})
                         /\ Cardinality(Above \ {l}) = Cardinality(Above) - 1
  BY <1>2, FS_RemoveElement
<1>12. /\ Cardinality(Below) \in Nat /\ Cardinality(Above) \in Nat
       /\ Cardinality(Buys) \in Nat /\ Cardinality(Sells) \in Nat
  BY <1>2, FS_CardinalityType, BookSizes
<1>13. /\ IsFiniteSet(Below') /\ IsFiniteSet(Above')
       /\ Cardinality(Buys') + Cardinality(Below') = NDown
       /\ Cardinality(Sells') + Cardinality(Above') = NUp
  <2>1. CASE l < fr[Loop].quote
    <3>1. /\ Below' = Below \ {l} /\ Above' = Above
          /\ Cardinality(Below \ {l}) = Cardinality(Below) - 1
          /\ IsFiniteSet(Below \ {l})
      BY <1>7, <1>11, <2>1
    <3>2. Cardinality(Buys') = Cardinality(Buys) + 1 /\ Cardinality(Sells') = Cardinality(Sells)
      BY <1>9, <1>10, <2>1
    <3>3. Cardinality(Below') = Cardinality(Below) - 1 /\ Cardinality(Above') = Cardinality(Above)
      BY <3>1
    <3>4. IsFiniteSet(Below') /\ IsFiniteSet(Above')
      BY <1>2, <3>1
    <3> QED
      BY <1>2, <1>12, <3>2, <3>3, <3>4
  <2>2. CASE ~(l < fr[Loop].quote)
    <3>1. /\ Above' = Above \ {l} /\ Below' = Below
          /\ Cardinality(Above \ {l}) = Cardinality(Above) - 1
          /\ IsFiniteSet(Above \ {l})
      BY <1>8, <1>11, <2>2
    <3>2. Cardinality(Sells') = Cardinality(Sells) + 1 /\ Cardinality(Buys') = Cardinality(Buys)
      BY <1>9, <1>10, <2>2
    <3>3. Cardinality(Above') = Cardinality(Above) - 1 /\ Cardinality(Below') = Cardinality(Below)
      BY <3>1
    <3>4. IsFiniteSet(Below') /\ IsFiniteSet(Above')
      BY <1>2, <3>1
    <3> QED
      BY <1>2, <1>12, <3>2, <3>3, <3>4
  <2> QED
    BY <2>1, <2>2
<1> QED
  BY <1>1, <1>13 DEF StockInv

(* a deployment that has placed all its levels has a balanced book *)
LEMMA DeployDoneStock ==
  ASSUME TypeInv, OnceInv, BooksInv, StockInv, DeployDone(Loop)
  PROVE  StockInv'
<1>1. /\ pc[Loop] = "place" /\ UNCHANGED <<lots, ord>> /\ lots = 0 /\ fr[Loop].lvls = {}
  BY DEF DeployDone, StockInv
<1>2. Covered
  <2>1. CASE Open = {}
    BY <2>1 DEF Covered
  <2>2. CASE /\ Cardinality(Buys) + Cardinality(Below) = NDown
             /\ Cardinality(Sells) + Cardinality(Above) = NUp
    <3>1. Below = {} /\ Above = {}
      BY <1>1 DEF Below, Above
    <3>2. Cardinality(Below) = 0 /\ Cardinality(Above) = 0
      BY <3>1, FS_EmptySet
    <3>3. Cardinality(Buys) = NDown /\ Cardinality(Sells) = NUp
      BY <2>2, <3>2, BookSizes, ConstantsAssumption
    <3> QED
      BY <1>1, <3>3, BookSizes DEF Covered, Balanced
  <2> QED
    BY <1>1, <2>1, <2>2 DEF StockInv
<1>3. Covered'
  BY <1>1, <1>2, CoveredSame
<1>4. CASE Goto(Loop, "starting") /\ Local(Loop, Blank)
  <2>1. pc'[Loop] = "starting" /\ fr'[Loop].lvls = {}
    BY <1>4, LocalThen, LoopIsTask DEF Blank, TypeInv, TasksOK, Goto
  <2> QED
    BY <1>1, <1>3, <2>1 DEF StockInv
<1>5. CASE StartReturns(Loop)
  BY <1>1, <1>3, <1>5, StartReturnsStock
<1> QED
  BY <1>4, <1>5 DEF DeployDone

LEMMA StopStock ==
  ASSUME TypeInv, StockInv, NEW why, NEW then, Stop(Loop, why, then),
         pc[Loop] # "place", lots' = 0 \/ then = "off"
  PROVE  StockInv'
<1>1. fr[Loop] \in Frame /\ fr[Loop].lvls = {}
  BY FrameOf, LoopIsTask DEF TypeInv, StockInv
<1>2. fr'[Loop].lvls = {} /\ fr'[Loop].then = then
  BY <1>1, LocalThen DEF Stop, Frame
<1> QED
  BY <1>2, StockToFlat DEF Stop

LEMMA CancellingStock ==
  ASSUME TypeInv, StockInv, StopPersists(Loop) \/ ReinvestCancels(Loop)
  PROVE  StockInv'
<1>1. /\ pc[Loop] = "banking" /\ fr[Loop] \in Frame /\ fr[Loop].lvls = {} /\ UNCHANGED lots
      /\ lots = 0 \/ fr[Loop].then = "off"
      /\ Goto(Loop, "cancelling") /\ Local(Loop, [fr[Loop] EXCEPT !.ids = ToCancel])
  BY FrameOf, LoopIsTask DEF StopPersists, ReinvestCancels, session, TypeInv, StockInv
<1>2. fr'[Loop].lvls = {} /\ fr'[Loop].then = fr[Loop].then
  BY <1>1, LocalThen DEF Frame
<1> QED
  BY <1>1, <1>2, StockToFlat

LEMMA CancelOneStock ==
  ASSUME TypeInv, StockInv, Simulated, NEW o \in Id, CancelOne(Loop, o)
  PROVE  StockInv'
<1>1. /\ pc[Loop] = "cancelling" /\ fr[Loop] \in Frame /\ fr[Loop].lvls = {} /\ UNCHANGED <<lots, pc>>
      /\ lots = 0 \/ fr[Loop].then = "off"
  BY OwnCancel, FrameOf, LoopIsTask DEF session, TypeInv, StockInv
<1>2. fr'[Loop].lvls = {} /\ fr'[Loop].then = fr[Loop].then
  BY <1>1, OwnCancel, LocalThen DEF Frame
<1> QED
  BY <1>1, <1>2 DEF StockInv

LEMMA StopDoneStock ==
  ASSUME TypeInv, BooksInv, StockInv, StopDone(Loop)
  PROVE  StockInv'
<1>1. /\ pc[Loop] = "cancelling" /\ UNCHANGED <<lots, ord>>
      /\ fr[Loop] \in Frame /\ fr[Loop].lvls = {}
      /\ fr[Loop].ids = {} /\ Open = {}
      /\ lots = 0 \/ fr[Loop].then = "off"
      /\ ~isActive'
  BY FrameOf, LoopIsTask DEF StopDone, TypeInv, BooksInv, InTurn, StockInv
<1>2. Open' = {}
  BY <1>1, SameSizes
<1>3. CASE fr[Loop].then = "recentre"
  <2>1. Goto(Loop, "place") /\ fr[Loop].px \in Int
    BY <1>1, <1>3 DEF StopDone, Frame
  <2>2. \/ fr'[Loop].lvls = {}
        \/ fr'[Loop].quote = fr[Loop].px /\ fr'[Loop].lvls = Levels(fr[Loop].px)
    <3>1. CASE Local(Loop, [fr[Loop] EXCEPT !.quote = fr[Loop].px, !.lvls = Levels(fr[Loop].px)])
      BY <1>1, <3>1, LocalThen DEF Frame
    <3>2. CASE UNCHANGED fr
      BY <1>1, <3>2
    <3> QED
      BY <1>3, <3>1, <3>2 DEF StopDone
  <2> QED
    BY <1>1, <1>2, <1>3, <2>1, <2>2, StockToPlace
<1>4. CASE fr[Loop].then = "off"
  <2>1. Goto(Loop, "off") /\ Local(Loop, Blank)
    BY <1>4 DEF StopDone
  <2>2. fr'[Loop].lvls = {}
    BY <2>1, LocalThen DEF Blank
  <2> QED
    BY <2>1, <2>2, StockToFlat
<1>5. CASE fr[Loop].then \notin {"recentre", "off"}
  BY <1>1, <1>5, StockToIdle DEF StopDone
<1> QED
  BY <1>3, <1>4, <1>5

LEMMA ReinvestResetsStock ==
  ASSUME TypeInv, StockInv, ReinvestResets(Loop)
  PROVE  StockInv'
  BY StockToFlat DEF ReinvestResets, StockInv

LEMMA LifecycleStock ==
  ASSUME TypeInv, GoneInv, OnceInv, BooksInv, StockInv, Reliable, Lifecycle(Loop)
  PROVE  StockInv'
<1>1. ASSUME NEW o \in Id, RecordLevel(Loop, o) PROVE StockInv'
  BY <1>1 DEF RecordLevel, OnceInv, KidsInv
<1>2. Simulated /\ \A o \in Id : ~RecordCancel(Loop, o)
  BY NoExchange DEF Reliable, Tidy
<1> QED
  BY <1>1, <1>2, StartStock, QuoteStock, DeploysStock, PlaceLevelStock, DeployDoneStock, CancellingStock,
     CancelOneStock, StopDoneStock, ReinvestResetsStock DEF Lifecycle

-----------------------------------------------------------------------------
(* the inventory through a tick *)

LEMMA StockTicking ==
  ASSUME TypeInv, StockInv, NEW l \in {"candles", "next", "logging"}, Goto(Loop, l),
         pc[Loop] \in {"idle", "candles", "next"}, isActive,
         fr'[Loop].lvls = {}, UNCHANGED <<lots, ord>>,
         l = "next" /\ fr'[Loop].pass = 2 => lots = 0
  PROVE  StockInv'
<1>1. pc'[Loop] = l
  BY LoopIsTask DEF TypeInv, TasksOK, Goto
<1>2. Covered'
  BY CoveredSame DEF StockInv
<1> QED
  BY <1>1, <1>2 DEF StockInv

LEMMA FirstStepsStock ==
  ASSUME TypeInv, OnceInv, StockInv, Simulated, BotTick \/ CandlesArrive \/ \E o \in Id : HandleFill(o)
  PROVE  StockInv'
<1>1. /\ pc[Loop] \in {"idle", "candles", "next"} /\ isActive
      /\ fr[Loop] \in Frame /\ fr[Loop].lvls = {} /\ UNCHANGED <<isActive, lots, ord>>
  BY FrameOf, LoopIsTask DEF BotTick, CandlesArrive, HandleFill, session, TypeInv, StockInv, OnceInv, Control, Ticking
<1>2. CASE BotTick
  <2>1. fr'[Loop].lvls = {} /\ Goto(Loop, "candles")
    BY <1>1, <1>2, LocalThen DEF BotTick, Frame
  <2> QED
    BY <1>1, <2>1, StockTicking
<1>3. CASE CandlesArrive
  <2>1. CASE /\ Local(Loop, [fr[Loop] EXCEPT !.px = price, !.known = Open,
                                             !.fills = SimFills(price)])
             /\ Goto(Loop, "next")
    <3>1. fr'[Loop].lvls = {} /\ fr'[Loop].pass = fr[Loop].pass
      BY <1>1, <2>1, LocalThen DEF Frame
    <3>2. fr[Loop].pass = 1
      BY <1>3 DEF CandlesArrive, OnceInv, Control
    <3> QED
      BY <1>1, <2>1, <3>1, <3>2, StockTicking
  <2>2. CASE Return(Loop)
    BY <1>1, <2>2, CoveredSame, StockToIdle DEF StockInv
  <2> QED
    BY <1>3, <2>1, <2>2 DEF CandlesArrive, Simulated
<1>4. CASE \E o \in Id : HandleFill(o)
  <2>1. PICK o \in Id : HandleFill(o)
    BY <1>4
  <2>2. fr'[Loop].lvls = {} /\ Goto(Loop, "logging")
    <3>1. /\ Local(Loop, [fr[Loop] EXCEPT !.cur = o, !.fills[o] = @ - 1])
          /\ Goto(Loop, "logging")
      BY <2>1 DEF HandleFill
    <3>2. fr'[Loop] = [fr[Loop] EXCEPT !.cur = o, !.fills[o] = @ - 1]
      BY <1>1, <3>1, LocalThen
    <3>3. fr'[Loop].lvls = fr[Loop].lvls
      BY <1>1, <3>2 DEF Frame
    <3> QED
      BY <1>1, <3>1, <3>3
  <2> QED
    BY <1>1, <2>2, StockTicking
<1> QED
  BY <1>2, <1>3, <1>4

(* the lot is booked first *)
LEMMA BookFillStock ==
  ASSUME TypeInv, OnceInv, StockInv, BookFill
  PROVE  StockInv'
<1>1. /\ pc[Loop] = "logging" /\ pc'[Loop] = "closing" /\ isActive /\ fr[Loop].lvls = {}
      /\ UNCHANGED <<isActive, ord, fr>>
  BY LoopIsTask DEF BookFill, Goto, TypeInv, TasksOK, OnceInv, Control, Ticking, StockInv
<1>2. PICK cur \in Open : cur = fr[Loop].cur
  BY <1>1 DEF OnceInv, CurrentInv, Handling
<1>3. Balanced
  BY <1>1, <1>2 DEF StockInv, Covered
<1>4. lots' = IF ord[cur].side = "BUY" THEN lots + 1 ELSE lots - 1
  BY <1>2 DEF BookFill, Paired
<1>5. /\ lots \in Int /\ lots = NDown - Cardinality(Buys) /\ lots = Cardinality(Sells) - NUp
  BY <1>3 DEF Balanced, TypeInv, SessionOK
<1>6. IF ord[cur].side = "BUY"
      THEN lots' - 1 = NDown - Cardinality(Buys) /\ lots' - 1 = Cardinality(Sells) - NUp
      ELSE lots' + 1 = NDown - Cardinality(Buys) /\ lots' + 1 = Cardinality(Sells) - NUp
  <2>1. lots' - 1 = lots \/ lots' + 1 = lots
    BY <1>4, <1>5
  <2> QED
    BY <1>4, <1>5, <2>1
<1>7. Buys' = Buys /\ Sells' = Sells
  BY <1>1, SameSizes
<1>8. /\ fr'[Loop].cur = cur /\ ord'[cur] = ord[cur] /\ fr'[Loop].lvls = {}
  BY <1>1, <1>2
<1> QED
  BY <1>1, <1>6, <1>7, <1>8 DEF StockInv

(* then the counter-order comes into the book *)
LEMMA PlaceCounterStock ==
  ASSUME TypeInv, OnceInv, StockInv, Simulated, PlaceCounter
  PROVE  StockInv'
<1>1. /\ pc[Loop] = "closing" /\ pc'[Loop] = "adding" /\ fr[Loop] \in Frame /\ fr[Loop].lvls = {}
      /\ UNCHANGED <<isActive, lots>>
  BY LoopIsTask, FrameOf DEF PlaceCounter, Goto, TypeInv, TasksOK, session, StockInv
<1>2. PICK cur \in Open : cur = fr[Loop].cur
  BY <1>1 DEF OnceInv, CurrentInv, Handling
<1>3. cur \in Id /\ ord[cur].st = "OPEN" /\ ord[cur] \in Order
  BY <1>2 DEF Open, TypeInv, OrdersOK
<1>4. PICK n \in Id : n = (CHOOSE f \in Fresh : TRUE) /\ ord[n].st = "free"
  BY DEF PlaceCounter, Fresh
<1>5. n # cur
  BY <1>3, <1>4
<1>6. ord' = [ord EXCEPT ![n] = CounterOf(cur), ![cur].kids = MoreKids(@)]
  BY <1>2, <1>4 DEF PlaceCounter
<1>7. fr'[Loop].cur = cur /\ fr'[Loop].lvls = {}
  BY <1>1, <1>2, <1>4, LocalThen DEF PlaceCounter, Frame
<1>8. ord'[n].st = "OPEN" /\ ord'[n].side = Opposite(ord[cur].side)
  <2>1. ord'[n] = CounterOf(cur)
    BY <1>3, <1>4, <1>5, <1>6 DEF TypeInv, OrdersOK
  <2> QED
    BY <2>1 DEF CounterOf, Placed, Simulated
<1>9. ord'[cur].st = "OPEN" /\ ord'[cur].side = ord[cur].side
  BY <1>3, <1>4, <1>5, <1>6 DEF TypeInv, OrdersOK, Order
<1>10. \A o \in Id : o # n => ord'[o].st = ord[o].st /\ ord'[o].side = ord[o].side
  BY <1>3, <1>4, <1>6, <1>9 DEF TypeInv, OrdersOK
<1>11. /\ Opposite(ord[cur].side) = "BUY" => /\ Cardinality(Buys') = Cardinality(Buys) + 1
                                             /\ Cardinality(Sells') = Cardinality(Sells)
       /\ Opposite(ord[cur].side) = "SELL" => /\ Cardinality(Sells') = Cardinality(Sells) + 1
                                              /\ Cardinality(Buys') = Cardinality(Buys)
  BY <1>4, <1>8, <1>10, OrderOpens
<1>12. ord[cur].side \in {"BUY", "SELL"}
  BY <1>3 DEF Order
<1>13. lots \in Int /\ NDown \in Int /\ NUp \in Int /\ Cardinality(Buys) \in Int /\ Cardinality(Sells) \in Int
  BY ConstantsAssumption, BookSizes DEF TypeInv, SessionOK
<1>14. CASE ord[cur].side = "BUY"
  <2>1. lots - 1 = NDown - Cardinality(Buys) /\ lots - 1 = Cardinality(Sells) - NUp
    BY <1>1, <1>2, <1>14 DEF StockInv
  <2>2. Cardinality(Sells') = Cardinality(Sells) + 1 /\ Cardinality(Buys') = Cardinality(Buys)
    BY <1>11, <1>14 DEF Opposite
  <2>3. lots' - 1 = NDown - Cardinality(Buys') /\ lots' = Cardinality(Sells') - NUp
    BY <1>1, <1>13, <2>1, <2>2
  <2> QED
    BY <1>1, <1>7, <1>9, <1>14, <2>3 DEF StockInv
<1>15. CASE ord[cur].side = "SELL"
  <2>1. lots + 1 = NDown - Cardinality(Buys) /\ lots + 1 = Cardinality(Sells) - NUp
    BY <1>1, <1>2, <1>15 DEF StockInv
  <2>2. Cardinality(Buys') = Cardinality(Buys) + 1 /\ Cardinality(Sells') = Cardinality(Sells)
    BY <1>11, <1>15 DEF Opposite
  <2>3. lots' = NDown - Cardinality(Buys') /\ lots' + 1 = Cardinality(Sells') - NUp
    BY <1>1, <1>13, <2>1, <2>2
  <2> QED
    BY <1>1, <1>7, <1>9, <1>15, <2>3 DEF StockInv
<1> QED
  BY <1>12, <1>14, <1>15

(* and the filled order leaves it *)
LEMMA FillDoneStock ==
  ASSUME TypeInv, OnceInv, StockInv, FillDone
  PROVE  StockInv'
<1>1. /\ pc[Loop] = "adding" /\ pc'[Loop] = "next" /\ fr[Loop] \in Frame /\ fr[Loop].lvls = {}
      /\ fr[Loop].pass = 1
      /\ UNCHANGED lots
  BY LoopIsTask, FrameOf DEF FillDone, Goto, TypeInv, TasksOK, OnceInv, Control, Handling, Ticking, StockInv
<1>2. PICK cur \in Open : cur = fr[Loop].cur
  BY <1>1 DEF OnceInv, CurrentInv, Handling
<1>3. cur \in Id /\ ord[cur] \in Order
  BY <1>2 DEF Open, TypeInv, OrdersOK
<1>4. ord' = [ord EXCEPT ![cur].st = "FILLED"]
  BY <1>1, <1>2 DEF FillDone, AfterFill
<1>5. ord'[cur].st # "OPEN" /\ \A o \in Id : o # cur => ord'[o].st = ord[o].st /\ ord'[o].side = ord[o].side
  BY <1>3, <1>4 DEF TypeInv, OrdersOK, Order
<1>6. /\ ord[cur].side = "BUY" => /\ Cardinality(Buys') = Cardinality(Buys) - 1
                                  /\ Cardinality(Sells') = Cardinality(Sells)
      /\ ord[cur].side = "SELL" => /\ Cardinality(Sells') = Cardinality(Sells) - 1
                                   /\ Cardinality(Buys') = Cardinality(Buys)
  BY <1>5, OrderCloses
<1>7. fr'[Loop].lvls = {} /\ fr'[Loop].pass = 1
  BY <1>1, LocalThen DEF FillDone, Frame
<1>8. lots \in Int /\ NDown \in Int /\ NUp \in Int /\ Cardinality(Buys) \in Int /\ Cardinality(Sells) \in Int
  BY ConstantsAssumption, BookSizes DEF TypeInv, SessionOK
<1>9. Balanced'
  <2>1. CASE ord[cur].side = "BUY"
    <3>1. lots - 1 = NDown - Cardinality(Buys) /\ lots = Cardinality(Sells) - NUp
      BY <1>1, <1>2, <2>1 DEF StockInv
    <3>2. lots' = NDown - Cardinality(Buys') /\ lots' = Cardinality(Sells') - NUp
      BY <1>1, <1>6, <1>8, <2>1, <3>1
    <3> QED
      BY <3>2 DEF Balanced
  <2>2. CASE ord[cur].side = "SELL"
    <3>1. lots = NDown - Cardinality(Buys) /\ lots + 1 = Cardinality(Sells) - NUp
      BY <1>1, <1>2, <2>2 DEF StockInv
    <3>2. lots' = NDown - Cardinality(Buys') /\ lots' = Cardinality(Sells') - NUp
      BY <1>1, <1>6, <1>8, <2>2, <3>1
    <3> QED
      BY <3>2 DEF Balanced
  <2> QED
    BY <1>3, <2>1, <2>2 DEF Order
<1> QED
  BY <1>1, <1>7, <1>9 DEF StockInv, Covered

(* the guards end the tick, stop the flat session, or look a second time *)
LEMMA GuardsStock ==
  ASSUME TypeInv, OnceInv, BooksInv, StockInv, Reliable,
         TickHolding \/ TickTakesProfit \/ TickTrending \/ SecondPass \/ TickDrift
  PROVE  StockInv'
<1>1. /\ pc[Loop] = "next" /\ fr[Loop] \in Frame /\ fr[Loop].lvls = {}
      /\ isActive /\ UNCHANGED <<isActive, ord>>
  BY AtGuardsMeans, FrameOf, LoopIsTask DEF TickHolding, TickTakesProfit, TickTrending, SecondPass, TickDrift, session,
     TypeInv, StockInv, OnceInv, Control, Ticking
<1>2. UNCHANGED lots
  BY DEF TickHolding, TickTakesProfit, TickTrending, SecondPass, TickDrift, session, LotsLeft, Reliable
<1>3. Covered'
  BY <1>1, <1>2, CoveredSame DEF StockInv
<1>4. CASE TickHolding
  BY <1>3, <1>4, StockToIdle DEF TickHolding
<1>5. CASE TickTakesProfit
  BY <1>1, <1>5, StopStock DEF TickTakesProfit
<1>6. CASE TickTrending
  BY <1>1, <1>6, StopStock DEF TickTrending
<1>7. CASE SecondPass
  <2>1. Goto(Loop, "next") /\ lots' = 0
    BY <1>7 DEF SecondPass, Reliable, Tidy, Simulated
  <2>2. fr'[Loop].lvls = {}
    BY <1>1, <1>7, LocalThen DEF SecondPass, Reliable, Tidy, Simulated, Frame
  <2> QED
    BY <1>1, <1>2, <2>1, <2>2, StockTicking
<1>8. CASE TickDrift
  <2>1. lots = 0
    BY <1>1, <1>8 DEF TickDrift, StockInv
  <2> QED
    BY <1>1, <1>2, <1>3, <1>8, <2>1, StopStock, StockToIdle DEF TickDrift
<1> QED
  BY <1>4, <1>5, <1>6, <1>7, <1>8

LEMMA TickStock ==
  ASSUME TypeInv, OnceInv, BooksInv, StockInv, Reliable, Tick
  PROVE  StockInv'
<1>1. ~CounterFails
  BY DEF CounterFails, Reliable
<1> QED
  BY <1>1, SimulatedTick, StartStock, FirstStepsStock, BookFillStock, PlaceCounterStock, FillDoneStock,
     GuardsStock DEF Reliable, Tidy

LEMMA OtherStepsStock ==
  ASSUME TypeInv, OnceInv, BooksInv, StockInv, Reliable,
         PortfolioHalt \/ PruneArchive \/ PersistState \/ Environment \/ UNCHANGED vars
  PROVE  StockInv'
<1>1. CASE PortfolioHalt
  <2>1. CASE Goto(Loop, "off") /\ UNCHANGED fr
    BY <1>1, <2>1, StockToFlat DEF PortfolioHalt, StockInv
  <2>2. CASE Stop(Loop, "halt", "off")
    BY <1>1, <2>2, StopStock DEF PortfolioHalt
  <2> QED
    BY <1>1, <2>1, <2>2 DEF PortfolioHalt
<1>2. CASE PruneArchive
  <2>1. pc[Loop] = "idle" /\ UNCHANGED <<isActive, lots, pc, fr>>
    BY <1>2 DEF PruneArchive, session
  <2>2. \A o \in Id : IF o \in Dead THEN ord'[o] = Free ELSE ord'[o] = ord[o]
    BY <1>2 DEF PruneArchive
  <2>3. \A o \in Dead : ord[o].st \in {"FILLED", "CANCELLED", "STALE"}
    BY DEF Dead
  <2>4. Open' = Open /\ Buys' = Buys /\ Sells' = Sells
    BY <2>2, <2>3 DEF Open, Buys, Sells, Free
  <2> QED
    BY <2>1, <2>4 DEF StockInv, Covered, Balanced
<1>3. CASE PersistState \/ UNCHANGED vars
  <2>1. UNCHANGED <<isActive, lots, ord, pc, fr>>
    BY <1>3 DEF PersistState, vars, session
  <2> QED
    BY <2>1, SameStock
<1>4. CASE Environment
  <2>1. UNCHANGED <<isActive, lots, ord, pc, fr>>
    <3>1. ~Crash
      <4>1. MaxCrashes = 0 /\ crashes \in 0..MaxCrashes
        BY DEF Reliable, Tidy, Simulated, TypeInv, OutsideOK
      <4> QED
        BY <4>1 DEF Crash
    <3>2. \E q \in Prices : MarketMoves(q)
      BY <1>4, <3>1 DEF Environment, Reliable, Tidy, Simulated, ExchangeTrades, LevelReplyLost, CounterReplyLost
    <3> QED
      BY <3>2 DEF MarketMoves, session
  <2> QED
    BY <2>1, SameStock
<1> QED
  BY <1>1, <1>2, <1>3, <1>4

LEMMA StockNext ==
  ASSUME TypeInv, GoneInv, OnceInv, BooksInv, StockInv, Reliable, [Next]_vars
  PROVE  StockInv'
<1>1. Simulated
  BY DEF Reliable, Tidy
<1>2. ASSUME NEW p \in Proc, Lifecycle(p) PROVE StockInv'
  BY <1>1, <1>2, OnlyTheLoop, LifecycleStock
<1>3. ~Reconciliation
  BY <1>1, NoExchange
<1>4. \A w \in Webs : ~(WebStart(w) \/ WebStop(w))
  BY <1>1 DEF Simulated
<1> QED
  BY <1>2, <1>3, <1>4, TickStock, OtherStepsStock DEF Next

(* The lots a session has booked are those its open orders would close: an *)
(* inventory that no resting order answers for cannot build up over any    *)
(* sequence of fills, counter-orders, re-centrings and halts.              *)
THEOREM InventoryCovered ==
  ASSUME Reliable
  PROVE  Spec => []InventoryIsCovered
<1>1. Tidy
  BY DEF Reliable
<1>2. Init => StockInv
  BY StockInit
<1>3. TypeInv /\ GoneInv /\ OnceInv /\ BooksInv /\ StockInv /\ [Next]_vars => StockInv'
  BY StockNext
<1>4. BooksInv /\ StockInv => InventoryIsCovered
  <2> SUFFICES ASSUME BooksInv, StockInv, Quiet, isActive, Open # {}
               PROVE  Balanced
    BY DEF InventoryIsCovered, Balanced
  <2>1. pc[Loop] = "idle"
    BY LoopIsTask DEF Quiet, BooksInv, AtRest
  <2> QED
    BY <2>1 DEF StockInv, Covered
<1> QED
  BY <1>1, <1>2, <1>3, <1>4, BooksAlways, PTL DEF Spec

-----------------------------------------------------------------------------
(* The ladder.  Seen with every crossed order already replaced by its       *)
(* counter-order, the open orders stand on all rungs but one, the buys      *)
(* below that gap and the sells above it, at every point of a tick.         *)

(* a session all of whose orders are placed *)
Whole == Tidy /\ "place" \notin Events

Rungs(c) == {c} \cup Levels(c)

(* where an order stands, and where its counter-order will *)
Spot == [at : Int, side : {"BUY", "SELL"}]
Now == [o \in Id |-> [at |-> ord[o].at, side |-> ord[o].side]]
Reached(s, px) == IF s.side = "BUY" THEN px <= s.at ELSE px >= s.at
Answer(s) ==
    IF s.side = "BUY" THEN [at |-> s.at + Spacing, side |-> "SELL"]
                      ELSE [at |-> s.at - Spacing, side |-> "BUY"]
After(w, px) == [o \in Id |-> IF Reached(w[o], px) THEN Answer(w[o]) ELSE w[o]]

(* the orders B stand one on each of the rungs R, on their side of the gap *)
Ladder(R, gap, B, w) ==
    /\ \A o \in B : w[o].at \in R /\ w[o].side = (IF w[o].at < gap THEN "BUY" ELSE "SELL")
    /\ \A o1, o2 \in B : w[o1].at = w[o2].at => o1 = o2
    /\ \A l \in R : \E o \in B : w[o].at = l

Shaped(c, B, w) ==
    B = {} \/ (c \in Int /\ \E gap \in Rungs(c) : Ladder(Rungs(c) \ {gap}, gap, B, w))

ShapeInv ==
    /\ pc[Loop] # "place" => fr[Loop].lvls = {}
    /\ pc[Loop] \in {"idle", "candles"} /\ isActive => Shaped(centre, Open, Now)
    /\ pc[Loop] = "starting" => Shaped(centre, Open, Now)
    /\ pc[Loop] \in {"next", "logging", "closing"} => Shaped(centre, Open, After(Now, fr[Loop].px))
    /\ pc[Loop] = "adding" => Shaped(centre, Open \ {fr[Loop].cur}, After(Now, fr[Loop].px))
    /\ pc[Loop] = "place" =>
          \/ Open = {} /\ fr[Loop].lvls = {}
          \/ /\ centre = fr[Loop].quote
             /\ fr[Loop].lvls \subseteq Levels(centre)
             /\ Ladder(Levels(centre) \ fr[Loop].lvls, centre, Open, Now)

LEMMA Least ==
  ASSUME NEW T, T \subseteq Nat, T # {}
  PROVE  \E x \in T : \A y \in T : x <= y
<1> DEFINE R == {ss \in Nat \X Nat : ss[1] < ss[2]}
<1>1. R = OpToRel(<, Nat)
  BY DEF OpToRel
<1>2. IsWellFoundedOn(R, Nat)
  BY <1>1, NatLessThanWellFounded, Zenon
<1>3. \A x, y \in Nat : y < x => <<y, x>> \in R
  OBVIOUS
<1> HIDE DEF R
<1>4. PICK x \in T : \A y \in T : ~(<<y, x>> \in R)
  BY <1>2, WFMin, Zenon
<1>5. \A y \in T : y \in Nat /\ x \in Nat /\ ~(y < x)
  BY <1>3, <1>4
<1> QED
  BY <1>4, <1>5

(* a rung is a whole number of steps from the centre *)
LEMMA RungSteps ==
  ASSUME NEW c \in Int, NEW l
  PROVE  l \in Rungs(c) <=> \E k \in (-NDown)..NUp : l = c + k * Spacing
<1>1. NDown \in Nat /\ NUp \in Nat /\ Spacing \in Int
  BY ConstantsAssumption
<1>2. ASSUME NEW k \in 1..NDown PROVE -k \in (-NDown)..NUp /\ c - k * Spacing = c + (-k) * Spacing
  <2>1. (-k) * Spacing = 0 - k * Spacing /\ k * Spacing \in Int
    BY <1>1
  <2> QED
    BY <1>1, <2>1
<1>3. ASSUME NEW k \in 1..NUp PROVE k \in (-NDown)..NUp
  BY <1>1
<1>4. 0 \in (-NDown)..NUp /\ c = c + 0 * Spacing
  BY <1>1
<1>5. ASSUME l \in Rungs(c) PROVE \E k \in (-NDown)..NUp : l = c + k * Spacing
  BY <1>2, <1>3, <1>4, <1>5 DEF Rungs, Levels
<1>6. ASSUME NEW k \in (-NDown)..NUp, l = c + k * Spacing PROVE l \in Rungs(c)
  <2>1. CASE k = 0
    BY <1>4, <1>6, <2>1 DEF Rungs
  <2>2. CASE k > 0
    <3>1. k \in 1..NUp
      BY <1>1, <2>2
    <3> QED
      BY <1>6, <3>1 DEF Rungs, Levels
  <2>3. CASE k < 0
    <3>1. -k \in 1..NDown /\ -(-k) = k
      BY <1>1, <2>3
    <3>2. l = c - (-k) * Spacing
      BY <1>2, <1>6, <3>1
    <3> QED
      BY <3>1, <3>2 DEF Rungs, Levels
  <2> QED
    BY <1>1, <2>1, <2>2, <2>3
<1> QED
  BY <1>5, <1>6

(* Between two rungs there is nothing but the rungs in between. *)
LEMMA NextRung ==
  ASSUME NEW c \in Int, NEW a \in Rungs(c), NEW b \in Rungs(c), a < b
  PROVE  /\ a + Spacing \in Rungs(c) /\ a + Spacing <= b
         /\ b - Spacing \in Rungs(c) /\ a <= b - Spacing
<1>1. NDown \in Nat /\ NUp \in Nat /\ Spacing \in Int
  BY ConstantsAssumption
<1>2. PICK i \in (-NDown)..NUp : a = c + i * Spacing
  BY RungSteps
<1>3. PICK j \in (-NDown)..NUp : b = c + j * Spacing
  BY RungSteps
<1>4. i \in Int /\ j \in Int
  BY <1>1
<1>5. i * Spacing \in Int /\ j * Spacing \in Int /\ (i + 1) * Spacing = i * Spacing + Spacing
      /\ (j - 1) * Spacing = j * Spacing - Spacing
  BY <1>1, <1>4
<1>6. i < j
  <2>1. CASE j < i
    <3>1. j * Spacing < i * Spacing
      BY <1>4, <2>1, Scaled
    <3> QED
      BY <1>2, <1>3, <1>5, <3>1
  <2>2. CASE i = j
    BY <1>2, <1>3, <1>5, <2>2
  <2> QED
    BY <1>4, <2>1, <2>2
<1>7. (i + 1) * Spacing <= j * Spacing
  <2>1. CASE i + 1 = j
    BY <1>5, <2>1
  <2>2. CASE i + 1 < j
    <3>1. i + 1 \in Int
      BY <1>4
    <3>2. (i + 1) * Spacing < j * Spacing
      BY <1>4, <2>2, <3>1, Scaled
    <3> QED
      BY <1>1, <1>5, <3>2
  <2> QED
    BY <1>4, <1>6, <2>1, <2>2
<1>8. a + Spacing <= b /\ a <= b - Spacing
  BY <1>1, <1>2, <1>3, <1>5, <1>7
<1>9. i + 1 \in (-NDown)..NUp /\ j - 1 \in (-NDown)..NUp
  BY <1>1, <1>4, <1>6
<1>10. a + Spacing = c + (i + 1) * Spacing /\ b - Spacing = c + (j - 1) * Spacing
  BY <1>1, <1>2, <1>3, <1>5
<1> QED
  BY <1>8, <1>9, <1>10, RungSteps

LEMMA RungsAreInts ==
  ASSUME NEW c \in Int
  PROVE  Rungs(c) \subseteq Int
<1>1. NDown \in Nat /\ NUp \in Nat
  BY ConstantsAssumption
<1>2. \A i \in 1..NDown : i * Spacing \in Int
  BY <1>1, StepsApart
<1>3. \A i \in 1..NUp : i * Spacing \in Int
  BY <1>1, StepsApart
<1> QED
  BY <1>2, <1>3 DEF Rungs, Levels

LEMMA LowestRung ==
  ASSUME NEW c \in Int, NEW px \in Int, NEW a \in Rungs(c), px <= a
  PROVE  \E g \in Rungs(c) : px <= g /\ \A l \in Rungs(c) : px <= l => g <= l
<1> DEFINE T == {x \in Nat : px + x \in Rungs(c)}
<1>1. Rungs(c) \subseteq Int
  BY RungsAreInts
<1>2. \A l \in Rungs(c) : px <= l => l - px \in T
  BY <1>1
<1>3. T # {} /\ T \subseteq Nat
  BY <1>2
<1> HIDE DEF T
<1>4. PICK x \in T : \A y \in T : x <= y
  BY <1>3, Least
<1>5. x \in Nat /\ px + x \in Rungs(c)
  BY <1>4 DEF T
<1>6. \A l \in Rungs(c) : px <= l => x <= l - px
  BY <1>2, <1>4
<1>7. \A l \in Rungs(c) : px <= l => px + x <= l
  BY <1>1, <1>5, <1>6
<1> QED
  BY <1>5, <1>7

LEMMA HighestRung ==
  ASSUME NEW c \in Int, NEW px \in Int, NEW a \in Rungs(c), a <= px
  PROVE  \E g \in Rungs(c) : g <= px /\ \A l \in Rungs(c) : l <= px => l <= g
<1> DEFINE T == {x \in Nat : px - x \in Rungs(c)}
<1>1. Rungs(c) \subseteq Int
  BY RungsAreInts
<1>2. \A l \in Rungs(c) : l <= px => px - l \in T
  <2> SUFFICES ASSUME NEW l \in Rungs(c), l <= px PROVE px - l \in T
    OBVIOUS
  <2>1. l \in Int /\ px - l \in Nat /\ px - (px - l) = l
    BY <1>1
  <2> QED
    BY <2>1
<1>3. T # {} /\ T \subseteq Nat
  BY <1>2
<1> HIDE DEF T
<1>4. PICK x \in T : \A y \in T : x <= y
  BY <1>3, Least
<1>5. x \in Nat /\ px - x \in Rungs(c)
  BY <1>4 DEF T
<1>6. \A l \in Rungs(c) : l <= px => x <= px - l
  BY <1>2, <1>4
<1>7. \A l \in Rungs(c) : l <= px => l <= px - x
  BY <1>1, <1>5, <1>6
<1> QED
  BY <1>5, <1>7

(* The price falls through buys: the gap goes down to the lowest rung it   *)
(* has reached, and every order in between goes up by one rung.            *)
LEMMA BuysCross ==
  ASSUME NEW c \in Int, NEW px \in Int, NEW gap \in Rungs(c), NEW B \in SUBSET Id,
         NEW w \in [Id -> Spot], Ladder(Rungs(c) \ {gap}, gap, B, w),
         NEW b \in B, w[b].side = "BUY", Reached(w[b], px)
  PROVE  \E g \in Rungs(c) : Ladder(Rungs(c) \ {g}, g, B, After(w, px))
<1>1. Rungs(c) \subseteq Int /\ Spacing \in Int /\ Spacing > 0
  BY RungsAreInts, ConstantsAssumption
<1>2. \A o \in B : /\ w[o].at \in Rungs(c) /\ w[o].at # gap /\ w[o].at \in Int
                   /\ w[o].side = (IF w[o].at < gap THEN "BUY" ELSE "SELL")
  BY <1>1 DEF Ladder
<1>3. w[b].at \in Rungs(c) /\ px <= w[b].at /\ w[b].at < gap
  BY <1>2 DEF Reached
<1>4. PICK g \in Rungs(c) : px <= g /\ \A l \in Rungs(c) : px <= l => g <= l
  BY <1>3, LowestRung
<1>5. g <= w[b].at /\ g < gap /\ g \in Int /\ gap \in Int /\ w[b].at \in Int
  BY <1>1, <1>2, <1>3, <1>4
<1> DEFINE v == After(w, px)
<1>6. ASSUME NEW o \in B
      PROVE  /\ w[o].at < g => v[o] = w[o] /\ w[o].side = "BUY"
             /\ g <= w[o].at /\ w[o].at < gap => v[o].at = w[o].at + Spacing /\ v[o].side = "SELL"
             /\ gap < w[o].at => v[o] = w[o] /\ w[o].side = "SELL"
  <2>1. o \in Id /\ w[o].at \in Rungs(c) /\ w[o].at \in Int /\ v[o] = IF Reached(w[o], px) THEN Answer(w[o]) ELSE w[o]
    BY <1>2 DEF After
  <2>2. ASSUME w[o].at < g PROVE v[o] = w[o] /\ w[o].side = "BUY"
    <3>1. ~(px <= w[o].at) /\ w[o].at < gap
      BY <1>4, <1>5, <2>1, <2>2
    <3> QED
      BY <1>2, <2>1, <3>1 DEF Reached
  <2>3. ASSUME g <= w[o].at, w[o].at < gap PROVE v[o].at = w[o].at + Spacing /\ v[o].side = "SELL"
    <3>1. px <= w[o].at
      BY <1>4, <1>5, <2>1, <2>3
    <3> QED
      BY <1>2, <2>1, <2>3, <3>1 DEF Reached, Answer
  <2>4. ASSUME gap < w[o].at PROVE v[o] = w[o] /\ w[o].side = "SELL"
    <3>1. ~(px >= w[o].at) /\ ~(w[o].at < gap)
      BY <1>3, <1>5, <2>1, <2>4
    <3> QED
      BY <1>2, <2>1, <3>1 DEF Reached
  <2> QED
    BY <2>2, <2>3, <2>4
<1> HIDE DEF v
<1>7. ASSUME NEW o \in B
      PROVE  \/ w[o].at < g /\ v[o] = w[o] /\ v[o].side = "BUY"
             \/ /\ g <= w[o].at /\ w[o].at < gap
                /\ v[o].at = w[o].at + Spacing /\ v[o].side = "SELL"
                /\ v[o].at \in Rungs(c) /\ g < v[o].at /\ v[o].at <= gap
             \/ gap < w[o].at /\ v[o] = w[o] /\ v[o].side = "SELL"
  <2>1. w[o].at \in Rungs(c) /\ w[o].at \in Int /\ w[o].at # gap
    BY <1>2
  <2>2. CASE w[o].at < g
    BY <1>6, <2>2
  <2>3. CASE g <= w[o].at /\ w[o].at < gap
    <3>1. v[o].at = w[o].at + Spacing /\ v[o].side = "SELL"
      BY <1>6, <2>3
    <3>2. w[o].at + Spacing \in Rungs(c) /\ w[o].at + Spacing <= gap
      BY <2>1, <2>3, NextRung
    <3>3. g < w[o].at + Spacing
      BY <1>1, <1>5, <2>1, <2>3
    <3> QED
      BY <2>3, <3>1, <3>2, <3>3
  <2>4. CASE gap < w[o].at
    BY <1>6, <2>4
  <2> QED
    BY <1>5, <2>1, <2>2, <2>3, <2>4
<1>8. \A o \in B : v[o].at \in Rungs(c) \ {g} /\ v[o].side = (IF v[o].at < g THEN "BUY" ELSE "SELL")
  <2> SUFFICES ASSUME NEW o \in B
               PROVE  v[o].at \in Rungs(c) \ {g} /\ v[o].side = (IF v[o].at < g THEN "BUY" ELSE "SELL")
    OBVIOUS
  <2>1. w[o].at \in Rungs(c) /\ w[o].at \in Int
    BY <1>2
  <2>2. CASE w[o].at < g /\ v[o] = w[o] /\ v[o].side = "BUY"
    BY <1>5, <2>1, <2>2
  <2>3. CASE v[o].side = "SELL" /\ v[o].at \in Rungs(c) /\ g < v[o].at
    BY <1>1, <1>5, <2>3
  <2>4. CASE gap < w[o].at /\ v[o] = w[o] /\ v[o].side = "SELL"
    BY <1>5, <2>1, <2>4
  <2> QED
    BY <1>7, <2>2, <2>3, <2>4
<1>9. \A o1, o2 \in B : v[o1].at = v[o2].at => o1 = o2
  <2> SUFFICES ASSUME NEW o1 \in B, NEW o2 \in B, v[o1].at = v[o2].at PROVE o1 = o2
    OBVIOUS
  <2>1. w[o1].at \in Int /\ w[o2].at \in Int
    BY <1>2
  <2>2. w[o1].at = w[o2].at
    BY <1>1, <1>5, <1>7, <2>1
  <2> QED
    BY <2>2 DEF Ladder
<1>10. \A l \in Rungs(c) \ {g} : \E o \in B : v[o].at = l
  <2> SUFFICES ASSUME NEW l \in Rungs(c), l # g PROVE \E o \in B : v[o].at = l
    OBVIOUS
  <2>1. l \in Int
    BY <1>1
  <2>2. CASE l < g \/ gap < l
    <3>1. l # gap
      BY <1>5, <2>1, <2>2
    <3>2. PICK o \in B : w[o].at = l
      BY <3>1 DEF Ladder
    <3>3. v[o] = w[o]
      BY <1>6, <2>2, <3>2
    <3> QED
      BY <3>2, <3>3
  <2>3. CASE g < l /\ l <= gap
    <3>1. l - Spacing \in Rungs(c) /\ g <= l - Spacing
      BY <2>3, NextRung
    <3>2. l - Spacing < gap /\ l - Spacing # gap /\ l - Spacing + Spacing = l
      BY <1>1, <1>5, <2>1, <2>3
    <3>3. PICK o \in B : w[o].at = l - Spacing
      BY <3>1, <3>2 DEF Ladder
    <3>4. v[o].at = w[o].at + Spacing
      BY <1>6, <3>1, <3>2, <3>3
    <3> QED
      BY <3>2, <3>3, <3>4
  <2> QED
    BY <1>5, <2>1, <2>2, <2>3
<1> QED
  BY <1>4, <1>8, <1>9, <1>10 DEF Ladder, v

(* The price rises through sells: the mirror image.                         *)
LEMMA SellsCross ==
  ASSUME NEW c \in Int, NEW px \in Int, NEW gap \in Rungs(c), NEW B \in SUBSET Id,
         NEW w \in [Id -> Spot], Ladder(Rungs(c) \ {gap}, gap, B, w),
         NEW b \in B, w[b].side = "SELL", Reached(w[b], px)
  PROVE  \E g \in Rungs(c) : Ladder(Rungs(c) \ {g}, g, B, After(w, px))
<1>1. Rungs(c) \subseteq Int /\ Spacing \in Int /\ Spacing > 0
  BY RungsAreInts, ConstantsAssumption
<1>2. \A o \in B : /\ w[o].at \in Rungs(c) /\ w[o].at # gap /\ w[o].at \in Int
                   /\ w[o].side = (IF w[o].at < gap THEN "BUY" ELSE "SELL")
  BY <1>1 DEF Ladder
<1>3. w[b].at \in Rungs(c) /\ w[b].at <= px /\ gap < w[b].at
  <2>1. px >= w[b].at /\ ~(w[b].at < gap) /\ w[b].at # gap
    BY <1>2 DEF Reached
  <2> QED
    BY <1>1, <1>2, <2>1
<1>4. PICK g \in Rungs(c) : g <= px /\ \A l \in Rungs(c) : l <= px => l <= g
  BY <1>3, HighestRung
<1>5. w[b].at <= g /\ gap < g /\ g \in Int /\ gap \in Int /\ w[b].at \in Int
  BY <1>1, <1>2, <1>3, <1>4
<1> DEFINE v == After(w, px)
<1>6. ASSUME NEW o \in B
      PROVE  /\ g < w[o].at => v[o] = w[o] /\ w[o].side = "SELL"
             /\ w[o].at <= g /\ gap < w[o].at => v[o].at = w[o].at - Spacing /\ v[o].side = "BUY"
             /\ w[o].at < gap => v[o] = w[o] /\ w[o].side = "BUY"
  <2>1. o \in Id /\ w[o].at \in Rungs(c) /\ w[o].at \in Int /\ v[o] = IF Reached(w[o], px) THEN Answer(w[o]) ELSE w[o]
    BY <1>2 DEF After
  <2>2. ASSUME g < w[o].at PROVE v[o] = w[o] /\ w[o].side = "SELL"
    <3>1. ~(px >= w[o].at) /\ ~(w[o].at < gap)
      BY <1>4, <1>5, <2>1, <2>2
    <3> QED
      BY <1>2, <2>1, <3>1 DEF Reached
  <2>3. ASSUME w[o].at <= g, gap < w[o].at PROVE v[o].at = w[o].at - Spacing /\ v[o].side = "BUY"
    <3>1. px >= w[o].at /\ ~(w[o].at < gap)
      BY <1>4, <1>5, <2>1, <2>3
    <3> QED
      BY <1>2, <2>1, <3>1 DEF Reached, Answer
  <2>4. ASSUME w[o].at < gap PROVE v[o] = w[o] /\ w[o].side = "BUY"
    <3>1. ~(px <= w[o].at)
      BY <1>3, <1>5, <2>1, <2>4
    <3> QED
      BY <1>2, <2>1, <2>4, <3>1 DEF Reached
  <2> QED
    BY <2>2, <2>3, <2>4
<1> HIDE DEF v
<1>7. ASSUME NEW o \in B
      PROVE  \/ g < w[o].at /\ v[o] = w[o] /\ v[o].side = "SELL"
             \/ /\ w[o].at <= g /\ gap < w[o].at
                /\ v[o].at = w[o].at - Spacing /\ v[o].side = "BUY"
                /\ v[o].at \in Rungs(c) /\ v[o].at < g /\ gap <= v[o].at
             \/ w[o].at < gap /\ v[o] = w[o] /\ v[o].side = "BUY"
  <2>1. w[o].at \in Rungs(c) /\ w[o].at \in Int /\ w[o].at # gap
    BY <1>2
  <2>2. CASE g < w[o].at
    BY <1>6, <2>2
  <2>3. CASE w[o].at <= g /\ gap < w[o].at
    <3>1. v[o].at = w[o].at - Spacing /\ v[o].side = "BUY"
      BY <1>6, <2>3
    <3>2. w[o].at - Spacing \in Rungs(c) /\ gap <= w[o].at - Spacing
      BY <2>1, <2>3, NextRung
    <3>3. w[o].at - Spacing < g
      BY <1>1, <1>5, <2>1, <2>3
    <3> QED
      BY <2>3, <3>1, <3>2, <3>3
  <2>4. CASE w[o].at < gap
    BY <1>6, <2>4
  <2> QED
    BY <1>5, <2>1, <2>2, <2>3, <2>4
<1>8. \A o \in B : v[o].at \in Rungs(c) \ {g} /\ v[o].side = (IF v[o].at < g THEN "BUY" ELSE "SELL")
  <2> SUFFICES ASSUME NEW o \in B
               PROVE  v[o].at \in Rungs(c) \ {g} /\ v[o].side = (IF v[o].at < g THEN "BUY" ELSE "SELL")
    OBVIOUS
  <2>1. w[o].at \in Rungs(c) /\ w[o].at \in Int
    BY <1>2
  <2>2. CASE g < w[o].at /\ v[o] = w[o] /\ v[o].side = "SELL"
    BY <1>5, <2>1, <2>2
  <2>3. CASE v[o].side = "BUY" /\ v[o].at \in Rungs(c) /\ v[o].at < g
    BY <1>1, <1>5, <2>3
  <2>4. CASE w[o].at < gap /\ v[o] = w[o] /\ v[o].side = "BUY"
    BY <1>5, <2>1, <2>4
  <2> QED
    BY <1>7, <2>2, <2>3, <2>4
<1>9. \A o1, o2 \in B : v[o1].at = v[o2].at => o1 = o2
  <2> SUFFICES ASSUME NEW o1 \in B, NEW o2 \in B, v[o1].at = v[o2].at PROVE o1 = o2
    OBVIOUS
  <2>1. w[o1].at \in Int /\ w[o2].at \in Int
    BY <1>2
  <2>2. w[o1].at = w[o2].at
    BY <1>1, <1>5, <1>7, <2>1
  <2> QED
    BY <2>2 DEF Ladder
<1>10. \A l \in Rungs(c) \ {g} : \E o \in B : v[o].at = l
  <2> SUFFICES ASSUME NEW l \in Rungs(c), l # g PROVE \E o \in B : v[o].at = l
    OBVIOUS
  <2>1. l \in Int
    BY <1>1
  <2>2. CASE g < l \/ l < gap
    <3>1. l # gap
      BY <1>5, <2>1, <2>2
    <3>2. PICK o \in B : w[o].at = l
      BY <3>1 DEF Ladder
    <3>3. v[o] = w[o]
      BY <1>6, <2>2, <3>2
    <3> QED
      BY <3>2, <3>3
  <2>3. CASE l < g /\ gap <= l
    <3>1. l + Spacing \in Rungs(c) /\ l + Spacing <= g
      BY <2>3, NextRung
    <3>2. gap < l + Spacing /\ l + Spacing # gap /\ l + Spacing - Spacing = l
      BY <1>1, <1>5, <2>1, <2>3
    <3>3. PICK o \in B : w[o].at = l + Spacing
      BY <3>1, <3>2 DEF Ladder
    <3>4. v[o].at = w[o].at - Spacing
      BY <1>6, <3>1, <3>2, <3>3
    <3>5. w[o].at - Spacing = l
      BY <1>1, <2>1, <3>3
    <3> QED
      BY <3>4, <3>5
  <2> QED
    BY <1>5, <2>1, <2>2, <2>3
<1> QED
  BY <1>4, <1>8, <1>9, <1>10 DEF Ladder, v

(* The shape survives any move of the price.                                *)
LEMMA CrossingKeepsShape ==
  ASSUME NEW c, NEW px \in Int, NEW B \in SUBSET Id, NEW w \in [Id -> Spot], Shaped(c, B, w)
  PROVE  Shaped(c, B, After(w, px))
<1>1. CASE B = {}
  BY <1>1 DEF Shaped
<1>2. CASE c \in Int /\ \E gap \in Rungs(c) : Ladder(Rungs(c) \ {gap}, gap, B, w)
  <2>1. PICK gap \in Rungs(c) : Ladder(Rungs(c) \ {gap}, gap, B, w)
    BY <1>2
  <2>2. CASE \E b \in B : w[b].side = "BUY" /\ Reached(w[b], px)
    BY <1>2, <2>1, <2>2, BuysCross DEF Shaped
  <2>3. CASE \E b \in B : w[b].side = "SELL" /\ Reached(w[b], px)
    BY <1>2, <2>1, <2>3, SellsCross DEF Shaped
  <2>4. CASE \A b \in B : ~Reached(w[b], px)
    <3>1. \A b \in B : After(w, px)[b] = w[b]
      BY <2>4 DEF After
    <3> QED
      BY <1>2, <2>1, <3>1 DEF Shaped, Ladder
  <2>5. \A b \in B : w[b].side \in {"BUY", "SELL"}
    BY DEF Spot
  <2> QED
    BY <2>2, <2>3, <2>4, <2>5
<1> QED
  BY <1>1, <1>2 DEF Shaped

(* One order takes the place of another, or nothing changes.                *)
LEMMA ShapeCarried ==
  ASSUME NEW c, NEW B, NEW w, NEW v, Shaped(c, B, w), \A o \in B : v[o] = w[o]
  PROVE  Shaped(c, B, v)
  BY DEF Shaped, Ladder

LEMMA ShapeSwapped ==
  ASSUME NEW c, NEW B, NEW w, NEW v, Shaped(c, B, w), NEW a \in B, NEW n, n \notin B,
         v[n] = w[a], \A o \in B : o # a => v[o] = w[o]
  PROVE  Shaped(c, (B \cup {n}) \ {a}, v)
<1> DEFINE D == (B \cup {n}) \ {a}
<1>1. PICK gap \in Rungs(c) : c \in Int /\ Ladder(Rungs(c) \ {gap}, gap, B, w)
  BY DEF Shaped
<1>2. n # a /\ \A o \in D : o = n \/ (o \in B /\ o # a)
  OBVIOUS
<1>3. \A o \in D : /\ v[o].at \in Rungs(c) \ {gap}
                   /\ v[o].side = (IF v[o].at < gap THEN "BUY" ELSE "SELL")
  BY <1>1, <1>2 DEF Ladder
<1>4. \A o1, o2 \in D : v[o1].at = v[o2].at => o1 = o2
  BY <1>1, <1>2 DEF Ladder
<1>5. \A l \in Rungs(c) \ {gap} : \E o \in D : v[o].at = l
  <2> SUFFICES ASSUME NEW l \in Rungs(c) \ {gap} PROVE \E o \in D : v[o].at = l
    OBVIOUS
  <2>1. PICK o \in B : w[o].at = l
    BY <1>1 DEF Ladder
  <2>2. CASE o = a
    BY <1>2, <2>1, <2>2
  <2>3. CASE o # a
    BY <2>1, <2>3
  <2> QED
    BY <2>2, <2>3
<1> HIDE DEF D
<1>6. Shaped(c, D, v)
  BY <1>1, <1>3, <1>4, <1>5 DEF Shaped, Ladder
<1> QED
  BY <1>6 DEF D

-----------------------------------------------------------------------------
(* the ladder through start(), deploy_grid() and stop() *)

LEMMA SpotsOfOrders ==
  ASSUME TypeInv
  PROVE  /\ Now \in [Id -> Spot]
         /\ \A o \in Id : \A px : Reached(Now[o], px) <=> Crossed(o, px)
<1>1. \A o \in Id : ord[o].at \in Int /\ ord[o].side \in {"BUY", "SELL"}
  BY DEF TypeInv, OrdersOK, Order
<1>2. Now \in [Id -> Spot]
  BY <1>1 DEF Now, Spot
<1>3. \A o \in Id : Now[o].at = ord[o].at /\ Now[o].side = ord[o].side
  BY DEF Now
<1>4. \A o \in Id : \A px : Reached(Now[o], px) <=> Crossed(o, px)
  BY <1>1, <1>3 DEF Reached, Crossed
<1> QED
  BY <1>2, <1>4

(* once nothing open is crossed, the ladder is the one that is seen *)
LEMMA NothingCrossed ==
  ASSUME TypeInv, NEW px, \A o \in Open : ~Crossed(o, px), Shaped(centre, Open, After(Now, px))
  PROVE  Shaped(centre, Open, Now)
<1>1. \A o \in Open : After(Now, px)[o] = Now[o]
  BY SpotsOfOrders DEF After, Open
<1> QED
  BY <1>1, ShapeCarried

LEMMA SameLadder ==
  ASSUME UNCHANGED <<centre, ord>>
  PROVE  Open' = Open /\ Now' = Now /\ centre' = centre
  BY DEF Open, Now

LEMMA ShapeInit == Init => ShapeInv
<1> SUFFICES ASSUME Init PROVE ShapeInv
  OBVIOUS
<1>1. pc[Loop] = "boot" /\ fr[Loop] = Blank
  BY LoopIsTask DEF Init
<1>2. Blank.lvls = {}
  BY DEF Blank
<1> QED
  BY <1>1, <1>2 DEF ShapeInv

LEMMA SameShape ==
  ASSUME ShapeInv, UNCHANGED <<isActive, centre, ord, pc, fr>>
  PROVE  ShapeInv'
  BY SameLadder DEF ShapeInv

LEMMA ShapeToIdle ==
  ASSUME TypeInv, Return(Loop), isActive' => Shaped(centre', Open', Now')
  PROVE  ShapeInv'
<1>1. pc'[Loop] = "idle" /\ fr'[Loop] = Blank
  BY LoopIsTask DEF TypeInv, TasksOK, Return, Goto, Local
<1>2. Blank.lvls = {}
  BY DEF Blank
<1> QED
  BY <1>1, <1>2 DEF ShapeInv

LEMMA ShapeAway ==
  ASSUME TypeInv, NEW l \in {"quote", "regime", "requote", "banking", "cancelling", "off"}, Goto(Loop, l),
         fr'[Loop].lvls = {}
  PROVE  ShapeInv'
<1>1. pc'[Loop] = l
  BY LoopIsTask DEF TypeInv, TasksOK, Goto
<1> QED
  BY <1>1 DEF ShapeInv

(* a deployment around c has everything still to place, or gives up *)
LEMMA ShapeToPlace ==
  ASSUME TypeInv, Goto(Loop, "place"), Open' = {}, NEW c \in Int,
         \/ fr'[Loop].lvls = {}
         \/ centre' = c /\ fr'[Loop].quote = c /\ fr'[Loop].lvls = Levels(c)
  PROVE  ShapeInv'
<1>1. pc'[Loop] = "place"
  BY LoopIsTask DEF TypeInv, TasksOK, Goto
<1>2. CASE fr'[Loop].lvls = {}
  BY <1>1, <1>2 DEF ShapeInv
<1>3. CASE centre' = c /\ fr'[Loop].quote = c /\ fr'[Loop].lvls = Levels(c)
  <2>1. Ladder(Levels(c) \ Levels(c), c, Open', Now')
    BY DEF Ladder
  <2> QED
    BY <1>1, <1>3, <2>1 DEF ShapeInv
<1> QED
  BY <1>2, <1>3

LEMMA StartShape ==
  ASSUME TypeInv, OnceInv, BooksInv, ShapeInv, StartRefused(Loop) \/ StartSession(Loop) \/ Boot
  PROVE  ShapeInv'
<1>1. /\ pc[Loop] \in {"starting", "boot"} /\ UNCHANGED ord
      /\ fr[Loop].then # "guards" /\ fr[Loop].lvls = {}
  BY NotGuards DEF StartRefused, StartSession, Boot, session, OnceInv, Ticking, ShapeInv
<1>2. Shaped(centre', Open', Now')
  <2>1. CASE pc[Loop] = "boot"
    BY <1>1, <2>1, SameSizes DEF BooksInv, AtRest, Clear, Shaped
  <2>2. CASE pc[Loop] = "starting"
    <3>1. UNCHANGED centre
      BY <2>2 DEF StartRefused, StartSession, Boot, session
    <3> QED
      BY <1>1, <2>2, <3>1, SameLadder DEF ShapeInv
  <2> QED
    BY <1>1, <2>1, <2>2
<1>3. ASSUME NEW saved, Start(Loop, saved) PROVE ShapeInv'
  <2>1. CASE Goto(Loop, "quote") /\ UNCHANGED fr
    BY <1>1, <2>1, ShapeAway
  <2>2. CASE Return(Loop)
    BY <1>2, <2>2, ShapeToIdle
  <2> QED
    BY <1>1, <1>3, <2>1, <2>2 DEF Start
<1>4. StartRefused(Loop) => ShapeInv'
  BY <1>2, ShapeToIdle DEF StartRefused
<1> QED
  BY <1>3, <1>4 DEF StartSession, Boot

LEMMA StartReturnsShape ==
  ASSUME TypeInv, OnceInv, StartReturns(Loop), isActive' => Shaped(centre', Open', Now'),
         pc[Loop] \in {"quote", "regime", "place"}
  PROVE  ShapeInv'
<1>1. fr[Loop].then # "guards"
  BY NotGuards DEF OnceInv, Ticking
<1> QED
  BY <1>1, ShapeToIdle DEF StartReturns

LEMMA QuoteShape ==
  ASSUME TypeInv, OnceInv, BooksInv, ShapeInv, Quote(Loop)
  PROVE  ShapeInv'
<1>1. /\ pc[Loop] = "quote" /\ fr[Loop] \in Frame /\ fr[Loop].lvls = {}
      /\ Open = {} /\ UNCHANGED ord
  BY FrameOf, LoopIsTask DEF Quote, session, TypeInv, BooksInv, AtRest, Clear, ShapeInv
<1>2. CASE Goto(Loop, "regime") /\ Local(Loop, [fr[Loop] EXCEPT !.quote = price])
  <2>1. fr'[Loop].lvls = {}
    BY <1>1, <1>2, LocalThen DEF Frame
  <2> QED
    BY <1>1, <1>2, <2>1, ShapeAway
<1>3. CASE StartReturns(Loop)
  BY <1>1, <1>3, SameSizes, StartReturnsShape DEF Shaped
<1> QED
  BY <1>2, <1>3 DEF Quote

LEMMA DeploysShape ==
  ASSUME TypeInv, OnceInv, BooksInv, ShapeInv, RegimeChecked(Loop) \/ ReinvestDeploys(Loop)
  PROVE  ShapeInv'
<1>1. /\ pc[Loop] \in {"regime", "requote"} /\ fr[Loop] \in Frame /\ Open = {}
      /\ UNCHANGED ord
  BY FrameOf, LoopIsTask DEF RegimeChecked, ReinvestDeploys, session, TypeInv, BooksInv, AtRest, Clear
<1>2. fr[Loop].quote \in Int /\ price \in Int
  BY <1>1, ConstantsAssumption DEF Frame, TypeInv, OutsideOK
<1>3. Open' = {} /\ Shaped(centre', Open', Now')
  BY <1>1, SameSizes DEF Shaped
<1>4. ASSUME NEW c \in Int, Deploy(Loop, c) PROVE ShapeInv'
  <2>1. \/ fr'[Loop].lvls = {}
        \/ centre' = c /\ fr'[Loop].quote = c /\ fr'[Loop].lvls = Levels(c)
    BY <1>1, <1>4, LocalThen DEF Deploy, Frame
  <2> QED
    BY <1>3, <1>4, <2>1, ShapeToPlace DEF Deploy
<1>5. pc[Loop] = "regime" /\ StartReturns(Loop) => ShapeInv'
  BY <1>3, StartReturnsShape
<1>6. Return(Loop) => ShapeInv'
  BY <1>3, ShapeToIdle
<1> QED
  BY <1>2, <1>4, <1>5, <1>6 DEF RegimeChecked, ReinvestDeploys

(* A level's order takes the level's place, on its side of the centre. *)
LEMMA PlaceLevelShape ==
  ASSUME TypeInv, BooksInv, ShapeInv, Whole, NEW l \in fr[Loop].lvls, PlaceLevel(Loop, l)
  PROVE  ShapeInv'
<1>1. /\ pc[Loop] = "place" /\ UNCHANGED <<isActive, centre, pc>> /\ fr[Loop] \in Frame
  BY FrameOf, LoopIsTask DEF PlaceLevel, session, TypeInv
<1>2. /\ centre = fr[Loop].quote /\ fr[Loop].lvls \subseteq Levels(centre)
      /\ Ladder(Levels(centre) \ fr[Loop].lvls, centre, Open, Now)
  BY <1>1 DEF ShapeInv
<1> DEFINE n == CHOOSE o \in Fresh : TRUE
<1>3. /\ Fresh # {}
      /\ ord' = [ord EXCEPT ![n] = Placed(SideOf(Loop, l), l)]
      /\ Local(Loop, [fr[Loop] EXCEPT !.lvls = @ \ {l}, !.ids = @ \cup {n}])
  BY DEF PlaceLevel, Whole
<1>4. n \in Id /\ ord[n].st = "free"
  BY <1>3 DEF Fresh
<1> HIDE DEF n
<1>5. /\ ord'[n].st = "OPEN" /\ ord'[n].side = SideOf(Loop, l) /\ ord'[n].at = l
      /\ \A o \in Id : o # n => ord'[o] = ord[o]
  BY <1>3, <1>4 DEF Placed, Whole, Tidy, Simulated, TypeInv, OrdersOK
<1>6. fr'[Loop].lvls = fr[Loop].lvls \ {l} /\ fr'[Loop].quote = fr[Loop].quote
  BY <1>1, <1>3, LocalThen DEF Frame
<1>7. Open' = Open \cup {n} /\ n \notin Open
  BY <1>4, <1>5 DEF Open
<1>8. /\ Now'[n].at = l /\ Now'[n].side = (IF l < centre THEN "BUY" ELSE "SELL")
      /\ \A o \in Open : Now'[o] = Now[o]
  BY <1>2, <1>4, <1>5, <1>7 DEF Now, SideOf, Open
<1>9. Ladder(Levels(centre) \ (fr[Loop].lvls \ {l}), centre, Open \cup {n}, Now')
  <2>1. \A o \in Open \cup {n} : /\ Now'[o].at \in Levels(centre) \ (fr[Loop].lvls \ {l})
                                /\ Now'[o].side = (IF Now'[o].at < centre THEN "BUY" ELSE "SELL")
    BY <1>2, <1>8 DEF Ladder
  <2>2. \A o1, o2 \in Open \cup {n} : Now'[o1].at = Now'[o2].at => o1 = o2
    <3>1. \A o \in Open : Now'[o].at # l
      BY <1>2, <1>8 DEF Ladder
    <3> QED
      BY <1>2, <1>8, <3>1 DEF Ladder
  <2>3. \A r \in Levels(centre) \ (fr[Loop].lvls \ {l}) : \E o \in Open \cup {n} : Now'[o].at = r
    BY <1>2, <1>8 DEF Ladder
  <2> QED
    BY <2>1, <2>2, <2>3 DEF Ladder
<1> QED
  BY <1>1, <1>2, <1>6, <1>7, <1>9 DEF ShapeInv

(* a deployment that has placed all its levels leaves its gap at the centre *)
LEMMA DeployDoneShape ==
  ASSUME TypeInv, OnceInv, BooksInv, ShapeInv, DeployDone(Loop)
  PROVE  ShapeInv'
<1>1. /\ pc[Loop] = "place" /\ UNCHANGED <<centre, ord>> /\ fr[Loop].lvls = {}
  BY DEF DeployDone
<1>2. fr[Loop].quote \in Int
  BY FrameOf, LoopIsTask DEF TypeInv, Frame
<1>3. Shaped(centre, Open, Now)
  <2>1. CASE Open = {}
    BY <2>1 DEF Shaped
  <2>2. CASE /\ centre = fr[Loop].quote
             /\ Ladder(Levels(centre) \ fr[Loop].lvls, centre, Open, Now)
    <3>1. centre \in Int
      BY <1>2, <2>2
    <3>2. centre \notin Levels(centre)
      <4>1. NDown \in Nat /\ NUp \in Nat
        BY ConstantsAssumption
      <4>2. \A i \in 1..NDown : i * Spacing \in Int /\ i * Spacing > 0
        BY <4>1, StepsApart
      <4>3. \A i \in 1..NUp : i * Spacing \in Int /\ i * Spacing > 0
        BY <4>1, StepsApart
      <4> QED
        BY <3>1, <4>2, <4>3 DEF Levels
    <3>3. Rungs(centre) \ {centre} = Levels(centre) \ fr[Loop].lvls /\ centre \in Rungs(centre)
      BY <1>1, <3>2 DEF Rungs
    <3> QED
      BY <2>2, <3>1, <3>3 DEF Shaped
  <2> QED
    BY <1>1, <2>1, <2>2 DEF ShapeInv
<1>4. Shaped(centre', Open', Now')
  BY <1>1, <1>3, SameLadder
<1>5. CASE Goto(Loop, "starting") /\ Local(Loop, Blank)
  <2>1. pc'[Loop] = "starting" /\ fr'[Loop].lvls = {}
    BY <1>5, LocalThen, LoopIsTask DEF Blank, TypeInv, TasksOK, Goto
  <2> QED
    BY <1>4, <2>1 DEF ShapeInv
<1>6. CASE StartReturns(Loop)
  BY <1>1, <1>4, <1>6, StartReturnsShape
<1> QED
  BY <1>5, <1>6 DEF DeployDone

LEMMA StopShape ==
  ASSUME TypeInv, ShapeInv, NEW why, NEW then, Stop(Loop, why, then), pc[Loop] # "place"
  PROVE  ShapeInv'
<1>1. fr[Loop] \in Frame /\ fr[Loop].lvls = {}
  BY FrameOf, LoopIsTask DEF TypeInv, ShapeInv
<1>2. fr'[Loop].lvls = {}
  BY <1>1, LocalThen DEF Stop, Frame
<1> QED
  BY <1>2, ShapeAway DEF Stop

LEMMA CancellingShape ==
  ASSUME TypeInv, ShapeInv, StopPersists(Loop) \/ ReinvestCancels(Loop)
  PROVE  ShapeInv'
<1>1. /\ fr[Loop] \in Frame /\ fr[Loop].lvls = {}
      /\ Goto(Loop, "cancelling") /\ Local(Loop, [fr[Loop] EXCEPT !.ids = ToCancel])
  BY FrameOf, LoopIsTask DEF StopPersists, ReinvestCancels, TypeInv, ShapeInv
<1>2. fr'[Loop].lvls = {}
  BY <1>1, LocalThen DEF Frame
<1> QED
  BY <1>1, <1>2, ShapeAway

LEMMA CancelOneShape ==
  ASSUME TypeInv, ShapeInv, Simulated, NEW o \in Id, CancelOne(Loop, o)
  PROVE  ShapeInv'
<1>1. pc[Loop] = "cancelling" /\ fr[Loop] \in Frame /\ fr[Loop].lvls = {} /\ UNCHANGED pc
  BY OwnCancel, FrameOf, LoopIsTask DEF TypeInv, ShapeInv
<1>2. fr'[Loop].lvls = {}
  BY <1>1, OwnCancel, LocalThen DEF Frame
<1> QED
  BY <1>1, <1>2 DEF ShapeInv

LEMMA StopDoneShape ==
  ASSUME TypeInv, BooksInv, ShapeInv, StopDone(Loop)
  PROVE  ShapeInv'
<1>1. /\ pc[Loop] = "cancelling" /\ UNCHANGED ord
      /\ fr[Loop] \in Frame /\ fr[Loop].lvls = {}
      /\ fr[Loop].ids = {} /\ Open = {} /\ ~isActive'
  BY FrameOf, LoopIsTask DEF StopDone, TypeInv, BooksInv, InTurn, ShapeInv
<1>2. Open' = {}
  BY <1>1, SameSizes
<1>3. CASE fr[Loop].then = "recentre"
  <2>1. Goto(Loop, "place") /\ fr[Loop].px \in Int /\ centre' = fr[Loop].px
    BY <1>1, <1>3 DEF StopDone, Frame
  <2>2. \/ fr'[Loop].lvls = {}
        \/ fr'[Loop].quote = fr[Loop].px /\ fr'[Loop].lvls = Levels(fr[Loop].px)
    <3>1. CASE Local(Loop, [fr[Loop] EXCEPT !.quote = fr[Loop].px, !.lvls = Levels(fr[Loop].px)])
      BY <1>1, <3>1, LocalThen DEF Frame
    <3>2. CASE UNCHANGED fr
      BY <1>1, <3>2
    <3> QED
      BY <1>3, <3>1, <3>2 DEF StopDone
  <2> QED
    BY <1>2, <2>1, <2>2, ShapeToPlace
<1>4. CASE fr[Loop].then = "off"
  <2>1. Goto(Loop, "off") /\ Local(Loop, Blank)
    BY <1>4 DEF StopDone
  <2>2. fr'[Loop].lvls = {}
    BY <2>1, LocalThen DEF Blank
  <2> QED
    BY <2>1, <2>2, ShapeAway
<1>5. CASE fr[Loop].then \notin {"recentre", "off"}
  BY <1>1, <1>5, ShapeToIdle DEF StopDone
<1> QED
  BY <1>3, <1>4, <1>5

LEMMA LifecycleShape ==
  ASSUME TypeInv, GoneInv, OnceInv, BooksInv, ShapeInv, Whole, Lifecycle(Loop)
  PROVE  ShapeInv'
<1>1. ASSUME NEW o \in Id, RecordLevel(Loop, o) PROVE ShapeInv'
  BY <1>1 DEF RecordLevel, OnceInv, KidsInv
<1>2. ReinvestResets(Loop) => ShapeInv'
  BY ShapeAway DEF ReinvestResets, ShapeInv
<1>3. Simulated /\ \A o \in Id : ~RecordCancel(Loop, o)
  BY NoExchange DEF Whole, Tidy
<1> QED
  BY <1>1, <1>3, <1>2, StartShape, QuoteShape, DeploysShape, PlaceLevelShape, DeployDoneShape, CancellingShape,
     CancelOneShape, StopDoneShape DEF Lifecycle

-----------------------------------------------------------------------------
(* the ladder through a tick *)

(* the fills still to handle leave the book and the tick's price alone *)
LEMMA ShapeTicking ==
  ASSUME TypeInv, ShapeInv, NEW l \in {"next", "logging", "closing"}, Goto(Loop, l),
         pc[Loop] \in {"next", "logging"}, UNCHANGED <<centre, ord>>,
         fr'[Loop].px = fr[Loop].px, fr'[Loop].lvls = {}
  PROVE  ShapeInv'
<1>1. pc'[Loop] = l
  BY LoopIsTask DEF TypeInv, TasksOK, Goto
<1>2. Shaped(centre, Open, After(Now, fr[Loop].px))
  BY DEF ShapeInv
<1>3. Shaped(centre', Open', After(Now', fr'[Loop].px))
  BY <1>2, SameLadder
<1> QED
  BY <1>1, <1>3 DEF ShapeInv

LEMMA BotTickShape ==
  ASSUME TypeInv, ShapeInv, BotTick
  PROVE  ShapeInv'
<1>1. /\ pc[Loop] = "idle" /\ isActive /\ UNCHANGED <<centre, ord>>
      /\ fr[Loop] \in Frame /\ fr[Loop].lvls = {}
  BY FrameOf, LoopIsTask DEF BotTick, session, TypeInv, ShapeInv
<1>2. pc'[Loop] = "candles" /\ fr'[Loop].lvls = {}
  BY <1>1, LocalThen, LoopIsTask DEF BotTick, Frame, TypeInv, TasksOK, Goto
<1>3. Shaped(centre', Open', Now')
  BY <1>1, SameLadder DEF ShapeInv
<1> QED
  BY <1>2, <1>3 DEF ShapeInv

(* the price that the candles bring *)
LEMMA CandlesArriveShape ==
  ASSUME TypeInv, ShapeInv, OnceInv, Simulated, CandlesArrive
  PROVE  ShapeInv'
<1>1. /\ pc[Loop] = "candles" /\ isActive /\ UNCHANGED <<isActive, centre, ord>>
      /\ fr[Loop] \in Frame /\ fr[Loop].lvls = {}
  BY FrameOf, LoopIsTask DEF CandlesArrive, session, TypeInv, ShapeInv, OnceInv, Control, Ticking
<1>2. Shaped(centre, Open, Now)
  BY <1>1 DEF ShapeInv
<1>3. CASE /\ Local(Loop, [fr[Loop] EXCEPT !.px = price, !.known = Open,
                                           !.fills = SimFills(price)])
           /\ Goto(Loop, "next")
  <2>1. fr'[Loop].px = price /\ fr'[Loop].lvls = {}
    BY <1>1, <1>3, LocalThen DEF Frame
  <2>2. pc'[Loop] = "next"
    BY <1>3, LoopIsTask DEF TypeInv, TasksOK, Goto
  <2>3. price \in Int /\ Open \in SUBSET Id
    BY ConstantsAssumption DEF TypeInv, OutsideOK, Open
  <2>4. Shaped(centre, Open, After(Now, price))
    BY <1>2, <2>3, SpotsOfOrders, CrossingKeepsShape
  <2>5. Shaped(centre', Open', After(Now', fr'[Loop].px))
    BY <1>1, <2>1, <2>4, SameLadder
  <2> QED
    BY <2>1, <2>2, <2>5 DEF ShapeInv
<1>4. CASE Return(Loop)
  BY <1>1, <1>2, <1>4, SameLadder, ShapeToIdle
<1> QED
  BY <1>3, <1>4 DEF CandlesArrive, Simulated

LEMMA FillStartsShape ==
  ASSUME TypeInv, ShapeInv, BookFill \/ \E o \in Id : HandleFill(o)
  PROVE  ShapeInv'
<1>1. /\ pc[Loop] \in {"next", "logging"} /\ UNCHANGED <<centre, ord>>
      /\ fr[Loop] \in Frame /\ fr[Loop].lvls = {}
  BY FrameOf, LoopIsTask DEF BookFill, HandleFill, session, TypeInv, ShapeInv
<1>2. CASE BookFill
  BY <1>1, <1>2, ShapeTicking DEF BookFill
<1>3. CASE \E o \in Id : HandleFill(o)
  <2>1. PICK o \in Id : HandleFill(o)
    BY <1>3
  <2>2. Goto(Loop, "logging") /\ Local(Loop, [fr[Loop] EXCEPT !.cur = o, !.fills[o] = @ - 1])
    BY <2>1 DEF HandleFill
  <2>3. fr'[Loop] = [fr[Loop] EXCEPT !.cur = o, !.fills[o] = @ - 1]
    BY <2>2, LocalThen
  <2>4. fr'[Loop].px = fr[Loop].px /\ fr'[Loop].lvls = {}
    BY <1>1, <2>3 DEF Frame
  <2> QED
    BY <1>1, <2>2, <2>4, ShapeTicking
<1> QED
  BY <1>2, <1>3

(* The counter-order stands where the crossed order was already seen.       *)
LEMMA PlaceCounterShape ==
  ASSUME TypeInv, OnceInv, ShapeInv, Simulated, PlaceCounter
  PROVE  ShapeInv'
<1>1. /\ pc[Loop] = "closing" /\ pc'[Loop] = "adding" /\ fr[Loop] \in Frame /\ fr[Loop].lvls = {}
      /\ UNCHANGED centre
  BY LoopIsTask, FrameOf DEF PlaceCounter, Goto, TypeInv, TasksOK, session, ShapeInv
<1>2. PICK cur \in Open : cur = fr[Loop].cur /\ Crossed(cur, fr[Loop].px)
  BY <1>1 DEF OnceInv, CurrentInv, Handling
<1>3. cur \in Id /\ ord[cur].st = "OPEN" /\ ord[cur] \in Order
  BY <1>2 DEF Open, TypeInv, OrdersOK
<1>4. PICK n \in Id : n = (CHOOSE f \in Fresh : TRUE) /\ ord[n].st = "free"
  BY DEF PlaceCounter, Fresh
<1>5. n # cur /\ n \notin Open
  BY <1>3, <1>4 DEF Open
<1>6. ord' = [ord EXCEPT ![n] = CounterOf(cur), ![cur].kids = MoreKids(@)]
  BY <1>2, <1>4 DEF PlaceCounter
<1>7. fr'[Loop].cur = cur /\ fr'[Loop].lvls = {} /\ fr'[Loop].px = fr[Loop].px
  BY <1>1, <1>2, <1>4, LocalThen DEF PlaceCounter, Frame
<1>8. ord'[n].st = "OPEN" /\ ord'[n].side = Opposite(ord[cur].side) /\ ord'[n].at = CounterPrice(cur)
  <2>1. ord'[n] = CounterOf(cur)
    BY <1>3, <1>4, <1>5, <1>6 DEF TypeInv, OrdersOK
  <2> QED
    BY <2>1 DEF CounterOf, Placed, Simulated
<1>9. /\ ord'[cur].st = "OPEN"
      /\ \A o \in Id : o # n => ord'[o].st = ord[o].st /\ ord'[o].at = ord[o].at /\ ord'[o].side = ord[o].side
  BY <1>3, <1>4, <1>6 DEF TypeInv, OrdersOK, Order
<1> DEFINE px == fr[Loop].px
           w == After(Now, px)
           v == After(Now', px)
<1>10. px \in Int
  BY <1>1 DEF Frame
<1>11. Open' = Open \cup {n}
  BY <1>4, <1>8, <1>9 DEF Open
<1>12. \A o \in Open : v[o] = w[o]
  <2> SUFFICES ASSUME NEW o \in Open PROVE v[o] = w[o]
    OBVIOUS
  <2>1. o \in Id /\ o # n
    BY <1>5 DEF Open
  <2>2. Now'[o] = Now[o]
    BY <1>9, <2>1 DEF Now
  <2> QED
    BY <2>1, <2>2 DEF After
<1>13. v[n] = w[cur]
  <2>1. ord[cur].side \in {"BUY", "SELL"} /\ ord[cur].at \in Int /\ CounterPrice(cur) \in Int
    BY <1>3, ConstantsAssumption DEF Order, CounterPrice
  <2>2. Now[cur] = [at |-> ord[cur].at, side |-> ord[cur].side]
    BY <1>3 DEF Now
  <2>3. w[cur] = [at |-> CounterPrice(cur), side |-> Opposite(ord[cur].side)]
    <3>1. Reached(Now[cur], px)
      BY <1>2, <1>3, SpotsOfOrders
    <3>2. w[cur] = Answer(Now[cur])
      BY <1>3, <3>1 DEF After
    <3> QED
      BY <2>1, <2>2, <3>2 DEF Answer, CounterPrice, Opposite
  <2>4. Now'[n] = [at |-> CounterPrice(cur), side |-> Opposite(ord[cur].side)]
    BY <1>4, <1>8 DEF Now
  <2>5. ~Reached(Now'[n], px)
    <3>1. IF Opposite(ord[cur].side) = "BUY" THEN px > CounterPrice(cur) ELSE px < CounterPrice(cur)
      BY <1>2, <1>3, <1>10, CounterNotCrossed
    <3>2. /\ Opposite(ord[cur].side) = "BUY" => ~(px <= CounterPrice(cur))
          /\ Opposite(ord[cur].side) # "BUY" => ~(px >= CounterPrice(cur))
      BY <1>10, <2>1, <3>1
    <3> QED
      BY <2>4, <3>2 DEF Reached
  <2>6. v[n] = Now'[n]
    BY <1>4, <2>5 DEF After
  <2> QED
    BY <2>3, <2>4, <2>6
<1> HIDE DEF w, v
<1>14. Shaped(centre, Open, w)
  BY <1>1 DEF ShapeInv, w
<1>15. Shaped(centre, (Open \cup {n}) \ {cur}, v)
  BY <1>2, <1>5, <1>12, <1>13, <1>14, ShapeSwapped
<1>16. Shaped(centre', Open' \ {fr'[Loop].cur}, After(Now', fr'[Loop].px))
  BY <1>1, <1>7, <1>11, <1>15 DEF v
<1> QED
  BY <1>1, <1>7, <1>16 DEF ShapeInv

LEMMA FillDoneShape ==
  ASSUME TypeInv, OnceInv, ShapeInv, FillDone
  PROVE  ShapeInv'
<1>1. /\ pc[Loop] = "adding" /\ pc'[Loop] = "next" /\ fr[Loop] \in Frame /\ fr[Loop].lvls = {}
      /\ fr[Loop].pass = 1
      /\ UNCHANGED centre
  BY LoopIsTask, FrameOf DEF FillDone, Goto, TypeInv, TasksOK, OnceInv, Control, Handling, Ticking, ShapeInv
<1>2. PICK cur \in Open : cur = fr[Loop].cur
  BY <1>1 DEF OnceInv, CurrentInv, Handling
<1>3. ord' = [ord EXCEPT ![cur].st = "FILLED"] /\ cur \in Id
  BY <1>1, <1>2 DEF FillDone, AfterFill, Open
<1>4. /\ ord'[cur].st # "OPEN"
      /\ \A o \in Id : o # cur => ord'[o] = ord[o]
  BY <1>3 DEF TypeInv, OrdersOK, Order
<1>5. Open' = Open \ {cur}
  BY <1>2, <1>4 DEF Open
<1>6. fr'[Loop].lvls = {} /\ fr'[Loop].px = fr[Loop].px
  BY <1>1, LocalThen DEF FillDone, Frame
<1>7. \A o \in Open \ {cur} : After(Now', fr[Loop].px)[o] = After(Now, fr[Loop].px)[o]
  BY <1>4 DEF After, Now, Open
<1>8. Shaped(centre, Open \ {cur}, After(Now, fr[Loop].px))
  BY <1>1, <1>2 DEF ShapeInv
<1>9. Shaped(centre, Open \ {cur}, After(Now', fr[Loop].px))
  BY <1>7, <1>8, ShapeCarried
<1>10. Shaped(centre', Open', After(Now', fr'[Loop].px))
  BY <1>1, <1>5, <1>6, <1>9
<1> QED
  BY <1>1, <1>6, <1>10 DEF ShapeInv

(* the guards end the tick, stop the session, or look a second time *)
LEMMA GuardsShape ==
  ASSUME TypeInv, OnceInv, ShapeInv, Simulated,
         TickHolding \/ TickTakesProfit \/ TickTrending \/ SecondPass \/ TickDrift
  PROVE  ShapeInv'
<1>1. /\ pc[Loop] = "next" /\ fr[Loop] \in Frame /\ fr[Loop].lvls = {}
      /\ UNCHANGED <<isActive, centre, ord>>
  BY AtGuardsMeans, FrameOf, LoopIsTask DEF TickHolding, TickTakesProfit, TickTrending, SecondPass, TickDrift, session,
     TypeInv, ShapeInv
<1>2. Shaped(centre, Open, After(Now, fr[Loop].px))
  BY <1>1 DEF ShapeInv
<1>3. ASSUME \A o \in Open : ~Crossed(o, fr[Loop].px) PROVE Shaped(centre', Open', Now')
  <2>1. Shaped(centre, Open, Now)
    BY <1>2, <1>3, NothingCrossed
  <2> QED
    BY <1>1, <2>1, SameLadder
<1>4. CASE TickHolding
  <2>1. TickEntered
    BY <1>4, AtGuardsMeans DEF TickHolding
  <2>2. \A o \in Open : ~Crossed(o, fr[Loop].px)
    BY <2>1, FirstPassIsComplete DEF Open
  <2> QED
    BY <1>3, <1>4, <2>2, ShapeToIdle DEF TickHolding
<1>5. CASE TickTakesProfit
  BY <1>1, <1>5, StopShape DEF TickTakesProfit
<1>6. CASE TickTrending
  BY <1>1, <1>6, StopShape DEF TickTrending
<1>7. CASE SecondPass
  <2>1. Goto(Loop, "next")
    BY <1>7 DEF SecondPass, Simulated
  <2>2. fr'[Loop].lvls = {} /\ fr'[Loop].px = fr[Loop].px
    BY <1>1, <1>7, LocalThen DEF SecondPass, Simulated, Frame
  <2> QED
    BY <1>1, <2>1, <2>2, ShapeTicking
<1>8. CASE TickDrift
  <2>1. fr[Loop].pass = 2
    BY <1>8 DEF TickDrift
  <2>2. \A o \in Open : ~Crossed(o, fr[Loop].px)
    BY <1>1, <2>1 DEF OnceInv, PassInv, Handling, Open
  <2> QED
    BY <1>1, <1>3, <1>8, <2>2, StopShape, ShapeToIdle DEF TickDrift
<1> QED
  BY <1>4, <1>5, <1>6, <1>7, <1>8

LEMMA TickShape ==
  ASSUME TypeInv, OnceInv, BooksInv, ShapeInv, Whole, Tick
  PROVE  ShapeInv'
<1>1. ~CounterFails /\ Simulated
  BY DEF CounterFails, Whole, Tidy
<1> QED
  BY <1>1, SimulatedTick, StartShape, BotTickShape, CandlesArriveShape, FillStartsShape, PlaceCounterShape,
     FillDoneShape, GuardsShape

LEMMA OtherStepsShape ==
  ASSUME TypeInv, ShapeInv, Whole,
         PortfolioHalt \/ PruneArchive \/ PersistState \/ Environment \/ UNCHANGED vars
  PROVE  ShapeInv'
<1>1. CASE PortfolioHalt
  <2>1. CASE Goto(Loop, "off") /\ UNCHANGED fr
    BY <1>1, <2>1, ShapeAway DEF PortfolioHalt, ShapeInv
  <2>2. CASE Stop(Loop, "halt", "off")
    BY <1>1, <2>2, StopShape DEF PortfolioHalt
  <2> QED
    BY <1>1, <2>1, <2>2 DEF PortfolioHalt
<1>2. CASE PruneArchive
  <2>1. pc[Loop] = "idle" /\ UNCHANGED <<isActive, centre, pc, fr>>
    BY <1>2 DEF PruneArchive, session
  <2>2. \A o \in Id : IF o \in Dead THEN ord'[o] = Free ELSE ord'[o] = ord[o]
    BY <1>2 DEF PruneArchive
  <2>3. \A o \in Dead : ord[o].st \in {"FILLED", "CANCELLED", "STALE"}
    BY DEF Dead
  <2>4. Open' = Open /\ \A o \in Open : Now'[o] = Now[o]
    BY <2>2, <2>3 DEF Open, Now, Free
  <2>5. isActive => Shaped(centre', Open', Now')
    BY <2>1, <2>4, ShapeCarried DEF ShapeInv
  <2> QED
    BY <2>1, <2>5 DEF ShapeInv
<1>3. CASE PersistState \/ UNCHANGED vars
  <2>1. UNCHANGED <<isActive, centre, ord, pc, fr>>
    BY <1>3 DEF PersistState, vars, session
  <2> QED
    BY <2>1, SameShape
<1>4. CASE Environment
  <2>1. ~Crash
    <3>1. MaxCrashes = 0 /\ crashes \in 0..MaxCrashes
      BY DEF Whole, Tidy, Simulated, TypeInv, OutsideOK
    <3> QED
      BY <3>1 DEF Crash
  <2>2. \E q \in Prices : MarketMoves(q)
    BY <1>4, <2>1 DEF Environment, Whole, Tidy, Simulated, ExchangeTrades, LevelReplyLost, CounterReplyLost
  <2>3. UNCHANGED <<isActive, centre, ord, pc, fr>>
    BY <2>2 DEF MarketMoves, session
  <2> QED
    BY <2>3, SameShape
<1> QED
  BY <1>1, <1>2, <1>3, <1>4

LEMMA ShapeNext ==
  ASSUME TypeInv, GoneInv, OnceInv, BooksInv, ShapeInv, Whole, [Next]_vars
  PROVE  ShapeInv'
<1>1. Simulated
  BY DEF Whole, Tidy
<1>2. ASSUME NEW p \in Proc, Lifecycle(p) PROVE ShapeInv'
  BY <1>1, <1>2, OnlyTheLoop, LifecycleShape
<1>3. ~Reconciliation
  BY <1>1, NoExchange
<1>4. \A w \in Webs : ~(WebStart(w) \/ WebStop(w))
  BY <1>1 DEF Simulated
<1> QED
  BY <1>2, <1>3, <1>4, TickShape, OtherStepsShape DEF Next

(* However many fills, counter-orders, re-centrings and restarts it has     *)
(* been through, a running grid holds one order on every rung but one, the  *)
(* buys below that gap and the sells above: no rung is ever doubled or      *)
(* lost, and no counter-order lands beyond the ends of the ladder.          *)
THEOREM LadderKeepsShape ==
  ASSUME Whole
  PROVE  Spec => []GridShape
<1>1. Tidy
  BY DEF Whole
<1>2. Init => ShapeInv
  BY ShapeInit
<1>3. TypeInv /\ GoneInv /\ OnceInv /\ BooksInv /\ ShapeInv /\ [Next]_vars => ShapeInv'
  BY ShapeNext
<1>4. BooksInv /\ ShapeInv => GridShape
  <2> SUFFICES ASSUME BooksInv, ShapeInv, Quiet, isActive, Open # {}
               PROVE  \E gap \in Rungs(centre) :
                         /\ \A l \in Rungs(centre) \ {gap} : Cardinality({o \in Open : ord[o].at = l}) = 1
                         /\ \A o \in Open : /\ ord[o].at \in Rungs(centre)
                                            /\ ord[o].side = (IF ord[o].at < gap THEN "BUY" ELSE "SELL")
    BY DEF GridShape, Rungs
  <2>1. pc[Loop] = "idle"
    BY LoopIsTask DEF Quiet, BooksInv, AtRest
  <2>2. PICK gap \in Rungs(centre) : Ladder(Rungs(centre) \ {gap}, gap, Open, Now)
    BY <2>1 DEF ShapeInv, Shaped
  <2>3. \A o \in Open : Now[o].at = ord[o].at /\ Now[o].side = ord[o].side
    BY DEF Now, Open
  <2>4. ASSUME NEW l \in Rungs(centre) \ {gap} PROVE Cardinality({o \in Open : ord[o].at = l}) = 1
    <3>1. PICK a \in Open : ord[a].at = l
      BY <2>2, <2>3 DEF Ladder
    <3>2. {o \in Open : ord[o].at = l} = {a}
      BY <2>2, <2>3, <3>1 DEF Ladder
    <3> QED
      BY <3>2, FS_Singleton
  <2>5. \A o \in Open : /\ ord[o].at \in Rungs(centre)
                        /\ ord[o].side = (IF ord[o].at < gap THEN "BUY" ELSE "SELL")
    BY <2>2, <2>3 DEF Ladder
  <2> QED
    BY <2>4, <2>5
<1> QED
  BY <1>1, <1>2, <1>3, <1>4, BooksAlways, PTL DEF Spec
=============================================================================
