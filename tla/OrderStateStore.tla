-------------------------- MODULE OrderStateStore --------------------------
(***************************************************************************)
(* OrderStateManager: the records of all orders in memory, the file behind *)
(* them, the archive, and the reconciliation with a live exchange          *)
(* (bot_v2/execution/order_state_manager.py, with the calls that           *)
(* bot_v2/execution/order_manager.py and bot_v2/bot.py make on it).        *)
(*                                                                         *)
(* A task changes the records and takes a snapshot of them under the lock; *)
(* the snapshot is written by a worker thread after the lock is released,  *)
(* while the task awaits it.  The threads of several tasks run side by     *)
(* side.  One live symbol is modelled, so a reconciliation makes one query *)
(* for the open orders.                                                    *)
(***************************************************************************)
EXTENDS Naturals, FiniteSets

CONSTANTS
    Id,        \* orders; an id is used once
    Loop,      \* the main loop
    Web,       \* webhook commands that cancel orders
    Pruner,    \* prune_archive() tasks, started and left alone by the loop
    Faults,    \* what may fail, each kind once: "query", "save", "append", "crash"
    MaxFaults  \* bound on the number of failures

Proc == {Loop} \cup Web \cup Pruner

ASSUME ConstantsAssumption ==
    /\ Loop \notin Web \cup Pruner
    /\ Web \cap Pruner = {}
    /\ Faults \subseteq {"query", "save", "append", "crash"}
    /\ MaxFaults \in Nat

VARIABLES
    exch,     \* the orders on the exchange
    orders,   \* _orders["orders"]: the status of each record
    file,     \* orders_state.json: the status of each record in it
    archive,  \* orders_archive.json: the ids in it
    pc,       \* where each task is suspended
    snap,     \* the snapshot a task's worker thread writes
    batch,    \* to_archive of a pruning task
    seen,     \* what its worker thread read from the archive
    loc,      \* local_open of a reconciliation: status of each order in it
    listed,   \* exchange_orders
    verified, \* the order being looked up and the status found for it
    (* history *)
    overlap,  \* since the file was last up to date with no save under way, two saves
              \* were under way at once or one failed
    failed    \* the kinds of failures that have happened

tasks == <<pc, snap, batch, seen, loc, listed, verified>>
disk == <<file, archive>>
vars == <<exch, orders, disk, tasks, overlap, failed>>

-----------------------------------------------------------------------------
(* Records and snapshots *)

None == "none"
OpenStatus == {"NEW", "OPEN"}
PruneStatus == {"FILLED", "CANCELLED", "CLOSED", "STALE"}
Status == OpenStatus \cup PruneStatus \cup {"CANCELED"}

OnExchange == {"absent", "open", "closed", "canceled", "rejected"}

Records == [Id -> Status \cup {None}]
NoRecords == [o \in Id |-> None]

Known == {o \in Id : orders[o] # None}
\* as a mutation: get_open_orders() knows only NEW
LocalOpen_NewOnly == {o \in Id : orders[o] = "NEW"}
LocalOpen == {o \in Id : orders[o] \in OpenStatus}

Fail(kind) ==
    /\ kind \in Faults \ failed
    /\ Cardinality(failed) < MaxFaults
    /\ failed' = failed \cup {kind}

Place == {"idle", "save", "saveThenCheck", "saveThenAppend", "append", "replace",
          "record", "fetch", "check", "settle"}

Goto(p, label) == pc' = [pc EXCEPT ![p] = label]

\* as a mutation: the snapshot is taken before the change
Commit_Early(p, records, after) ==
    /\ orders' = records
    /\ snap' = [snap EXCEPT ![p] = orders]
    /\ Goto(p, after)

(* Under the lock: the records change and the task takes its snapshot.  The *)
(* task then awaits the thread that writes it.                              *)
Commit(p, records, after) ==
    /\ orders' = records
    /\ snap' = [snap EXCEPT ![p] = records]
    /\ Goto(p, after)

(* update_order_status(), mark_as_stale(): a record that is gone is left.   *)
SetStatus(p, o, status, after, otherwise) ==
    IF o \in Known
    THEN Commit(p, [orders EXCEPT ![o] = status], after)
    ELSE Goto(p, otherwise) /\ UNCHANGED <<orders, snap>>

-----------------------------------------------------------------------------
(* The file *)

Saving(p) == pc[p] \in {"save", "saveThenCheck", "saveThenAppend"}

AfterSave(p) ==
    CASE pc[p] = "save" -> "idle"
      [] pc[p] = "saveThenCheck" -> "check"
      [] pc[p] = "saveThenAppend" -> "append"

(* _save_sync(): the temporary file replaces the state file in one step; an *)
(* error is logged and the task goes on.                                    *)
SaveSync(p) ==
    /\ Saving(p)
    /\ \/ file' = snap[p] /\ UNCHANGED failed
       \/ UNCHANGED file /\ Fail("save")
    /\ Goto(p, AfterSave(p))
    /\ snap' = [snap EXCEPT ![p] = NoRecords]
    /\ UNCHANGED <<exch, orders, archive, batch, seen, loc, listed, verified>>

(* the thread of _append_to_archive() reads the archive ... *)
ReadArchive(p) ==
    /\ pc[p] = "append"
    /\ seen' = [seen EXCEPT ![p] = archive]
    /\ Goto(p, "replace")
    /\ UNCHANGED <<exch, orders, disk, snap, batch, loc, listed, verified, failed>>

(* ... and replaces it by what it read and its own orders. *)
ReplaceArchive(p) ==
    /\ pc[p] = "replace"
    /\ \/ archive' = seen[p] \cup batch[p] /\ UNCHANGED failed
       \/ UNCHANGED archive /\ Fail("append")
    /\ Goto(p, "idle")
    /\ batch' = [batch EXCEPT ![p] = {}]
    /\ seen' = [seen EXCEPT ![p] = {}]
    /\ UNCHANGED <<exch, orders, file, snap, loc, listed, verified>>

-----------------------------------------------------------------------------
(* What the loop and the commands do to the records *)

(* create_limit_order(), of the loop or of a command: the exchange has      *)
(* accepted the order.                                                      *)
AddOrder(p, o) ==
    /\ pc[p] = "idle"
    /\ exch[o] = "absent"
    /\ exch' = [exch EXCEPT ![o] = "open"]
    /\ Commit(p, [orders EXCEPT ![o] = "NEW"], "save")
    /\ UNCHANGED <<disk, batch, seen, loc, listed, verified, failed>>

(* the loop's fill pass has handled a fill of an order it saw open *)
RecordFill(o) ==
    /\ pc[Loop] = "idle"
    /\ exch[o] = "closed"
    /\ o \in LocalOpen
    /\ Commit(Loop, [orders EXCEPT ![o] = "FILLED"], "save")
    /\ UNCHANGED <<exch, disk, batch, seen, loc, listed, verified, failed>>

(* cancel_order() of a command: the exchange cancels the order ... *)
SendCancel(w, o) ==
    /\ pc[w] = "idle"
    /\ o \in LocalOpen
    /\ exch[o] = "open"
    /\ exch' = [exch EXCEPT ![o] = "canceled"]
    /\ batch' = [batch EXCEPT ![w] = {o}]
    /\ Goto(w, "record")
    /\ UNCHANGED <<orders, disk, snap, seen, loc, listed, verified, failed>>

(* ... and the reply comes back. *)
RecordCancel(w) ==
    /\ pc[w] = "record"
    /\ \E o \in batch[w] : SetStatus(w, o, "CANCELLED", "save", "idle")
    /\ batch' = [batch EXCEPT ![w] = {}]
    /\ UNCHANGED <<exch, disk, seen, loc, listed, verified, failed>>

(* Records older than the retention time: no task holds an earlier state of *)
(* them any more.                                                           *)
Aged(o) ==
    /\ loc[o] = None
    /\ \A p \in Proc : /\ Saving(p) => snap[p][o] = orders[o]
                       /\ o \notin batch[p]

Prunable == {o \in Id : orders[o] \in PruneStatus /\ Aged(o)}

\* as a mutation: every final record leaves, archived or not
Kept_OpenOnly(old) == [o \in Id |-> IF orders[o] \in PruneStatus THEN None ELSE orders[o]]
Kept(old) == [o \in Id |-> IF o \in old THEN None ELSE orders[o]]

(* prune_archive(), up to its first await *)
PruneArchive(p) ==
    /\ pc[p] = "idle"
    /\ \E old \in SUBSET Prunable \ {{}} :
           /\ batch' = [batch EXCEPT ![p] = old]
           /\ Commit(p, Kept(old), "saveThenAppend")
    /\ UNCHANGED <<exch, disk, seen, loc, listed, verified, failed>>

-----------------------------------------------------------------------------
(* reconcile_orders() *)

(* local_open is read once, before the first await. *)
ReconcileStart ==
    /\ pc[Loop] = "idle"
    /\ LocalOpen # {}
    /\ loc' = [o \in Id |-> IF o \in LocalOpen THEN orders[o] ELSE None]
    /\ Goto(Loop, "fetch")
    /\ UNCHANGED <<exch, orders, disk, snap, batch, seen, listed, verified, failed>>

(* The open orders are asked for; a failed query lists none. *)
FetchOpen ==
    /\ pc[Loop] = "fetch"
    /\ \/ listed' = {o \in Id : exch[o] = "open"} /\ UNCHANGED failed
       \/ listed' = {} /\ Fail("query")
    /\ Goto(Loop, "check")
    /\ UNCHANGED <<exch, orders, disk, snap, batch, seen, loc, verified>>

Checked(o) == loc' = [loc EXCEPT ![o] = None]

(* an order that is listed: open there, whatever happened since *)
CheckListed(o) ==
    /\ pc[Loop] = "check"
    /\ loc[o] # None
    /\ o \in listed
    /\ IF loc[o] # "OPEN"
       THEN SetStatus(Loop, o, "OPEN", "saveThenCheck", "check")
       ELSE UNCHANGED <<orders, snap, pc>>
    /\ Checked(o)
    /\ UNCHANGED <<exch, disk, batch, seen, listed, verified, failed>>

\* as a mutation: the exchange's spelling is not normalised
Found_Raw(o) == exch[o]

(* What fetch_order() says of an order that is not listed; an expired order *)
(* is like a cancelled one.                                                 *)
Found(o) ==
    CASE exch[o] = "closed" -> "CLOSED"
      [] exch[o] = "canceled" -> "CANCELED"
      [] exch[o] = "rejected" -> "REJECTED"
      [] exch[o] = "open" -> "OPEN"
      [] OTHER -> None

LookUp(o) ==
    /\ pc[Loop] = "check"
    /\ loc[o] # None
    /\ o \notin listed
    /\ \/ verified' = [id |-> {o}, status |-> Found(o)] /\ UNCHANGED failed
       \/ verified' = [id |-> {o}, status |-> None] /\ Fail("query")
    /\ Goto(Loop, "settle")
    /\ UNCHANGED <<exch, orders, disk, snap, batch, seen, loc, listed>>

\* as a mutation: CANCELED is not among the final statuses
Verdict_ClosedOnly(status) == IF status = "CLOSED" THEN status ELSE "STALE"

(* A final status is recorded, anything else makes the record STALE: an     *)
(* order that was found open, and one the exchange has rejected, which is   *)
(* not among the final statuses.                                            *)
Verdict(status) == IF status \in {"CLOSED", "CANCELED"} THEN status ELSE "STALE"

NoOrder == [id |-> {}, status |-> None]

Settle ==
    /\ pc[Loop] = "settle"
    /\ \E o \in verified.id :
           /\ SetStatus(Loop, o, Verdict(verified.status), "saveThenCheck", "check")
           /\ Checked(o)
    /\ verified' = NoOrder
    /\ UNCHANGED <<exch, disk, batch, seen, listed, failed>>

ReconcileEnd ==
    /\ pc[Loop] = "check"
    /\ loc = NoRecords
    /\ listed' = {}
    /\ Goto(Loop, "idle")
    /\ UNCHANGED <<exch, orders, disk, snap, batch, seen, loc, verified, failed>>

-----------------------------------------------------------------------------
(* The exchange and the machine *)

ExchangeFills(o) ==
    /\ exch[o] = "open"
    /\ exch' = [exch EXCEPT ![o] = "closed"]
    /\ UNCHANGED <<orders, disk, tasks, failed>>

(* the exchange drops an order that it had accepted *)
ExchangeRejects(o) ==
    /\ exch[o] = "open"
    /\ exch' = [exch EXCEPT ![o] = "rejected"]
    /\ UNCHANGED <<orders, disk, tasks, failed>>

AllProc(x) == [p \in Proc |-> x]

(* The process dies; the next one starts with _load(). *)
Crash ==
    /\ Fail("crash")
    /\ orders' = file
    /\ pc' = AllProc("idle")
    /\ snap' = AllProc(NoRecords)
    /\ batch' = AllProc({})
    /\ seen' = AllProc({})
    /\ loc' = NoRecords
    /\ listed' = {}
    /\ verified' = NoOrder
    /\ UNCHANGED <<exch, disk>>

-----------------------------------------------------------------------------
Init ==
    /\ exch = [o \in Id |-> "absent"]
    /\ orders = NoRecords
    /\ file = NoRecords
    /\ archive = {}
    /\ pc = AllProc("idle")
    /\ snap = AllProc(NoRecords)
    /\ batch = AllProc({})
    /\ seen = AllProc({})
    /\ loc = NoRecords
    /\ listed = {}
    /\ verified = NoOrder
    /\ overlap = FALSE
    /\ failed = {}

Reconcile ==
    \/ ReconcileStart
    \/ FetchOpen
    \/ \E o \in Id : CheckListed(o) \/ LookUp(o)
    \/ Settle
    \/ ReconcileEnd

RecordsChange ==
    \/ \E p \in {Loop} \cup Web, o \in Id : AddOrder(p, o)
    \/ \E o \in Id : RecordFill(o)
    \/ \E w \in Web, o \in Id : SendCancel(w, o)
    \/ \E w \in Web : RecordCancel(w)
    \/ \E p \in Pruner : PruneArchive(p)

FilesChange == \E p \in Proc : SaveSync(p) \/ ReadArchive(p) \/ ReplaceArchive(p)

Outside == Crash \/ \E o \in Id : ExchangeFills(o) \/ ExchangeRejects(o)

Quiet == \A p \in Proc : ~Saving(p)

(* The history variable follows every step. *)
Observe ==
    overlap' = IF Quiet' /\ file' = orders'
               THEN FALSE
               ELSE \/ overlap
                    \/ \E p, q \in Proc : p # q /\ Saving(p)' /\ Saving(q)'
                    \/ "save" \in failed' \ failed

Next == (Reconcile \/ RecordsChange \/ FilesChange \/ Outside) /\ Observe

Spec == Init /\ [][Next]_vars

(* The loop comes back to its reconciliation and its awaits end; threads    *)
(* finish.                                                                  *)
FairSpec ==
    /\ Spec
    /\ WF_vars(Reconcile /\ Observe)
    /\ \A p \in Proc : WF_vars(SaveSync(p) /\ Observe)

-----------------------------------------------------------------------------
(* Properties *)

TypeOK ==
    /\ exch \in [Id -> OnExchange]
    /\ orders \in Records
    /\ file \in Records
    /\ archive \in SUBSET Id
    /\ pc \in [Proc -> Place]
    /\ snap \in [Proc -> Records]
    /\ batch \in [Proc -> SUBSET Id]
    /\ seen \in [Proc -> SUBSET Id]
    /\ loc \in [Id -> OpenStatus \cup {None}]
    /\ listed \in SUBSET Id
    /\ verified \in [id : SUBSET Id, status : Status \cup {"REJECTED", None}]
    /\ overlap \in BOOLEAN
    /\ failed \in SUBSET Faults

(* The file lags behind the memory only while saves are under way or after  *)
(* saves that ran side by side or failed; one save at a time, and any       *)
(* restart, bring them together (_lock, _save_sync(), _load()).             *)
LateFileMeansOverlap == Quiet /\ ~overlap => file = orders

(* While the process lives and the archive can be written, an order that    *)
(* was recorded is in memory, in the archive, or on its way there           *)
(* (prune_archive()).                                                       *)
NothingLost ==
    failed \cap {"append", "crash"} = {} =>
        \A o \in Id : \/ exch[o] = "absent"
                      \/ o \in Known \cup archive
                      \/ \E p \in Pruner : o \in batch[p]

(* As long as no query fails only an order that the exchange rejected is    *)
(* given up as STALE, whatever orders are placed, filled and cancelled      *)
(* during the reconciliation: its list of open records is older than the    *)
(* exchange's, so an order that is missing there no longer rests on it      *)
(* (reconcile_orders()).                                                    *)
StaleNeedsFailure ==
    "query" \notin failed => \A o \in Id : orders[o] = "STALE" => exch[o] = "rejected"

(* A record that is open although its order is not is corrected in the end, *)
(* even when a reconciliation that was under way has overwritten a cancel,  *)
(* or a crash has brought back an older file (reconcile_orders()).          *)
ClosedOrdersAreNoticed ==
    \A o \in Id : exch[o] \notin {"absent", "open"} ~> orders[o] \notin OpenStatus
=============================================================================
