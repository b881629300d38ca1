---------------------------- MODULE Transaction ----------------------------
(***************************************************************************)
(* StateTransaction, TransactionJournal and TransactionManager             *)
(* (src/persistence/transaction.py): a list of operations is executed in   *)
(* order when the body of a with-statement ends, or earlier and as often   *)
(* as the body calls execute(), and undone in reverse if one fails or the  *)
(* time runs out, while another thread looks for transactions that have    *)
(* timed out and the process may die.                                      *)
(***************************************************************************)
EXTENDS Integers

CONSTANTS
    Txns,        \* the transactions that are ever begun
    N,           \* operations of a transaction
    Undoable,    \* those that have a rollback_fn
    MaxTries,    \* bound on the calls of execute() from the body
    MaxFaults,   \* bound on operations, rollbacks and journal writes that fail
    MaxCrashes   \* bound on restarts

Ops == 1..N

ASSUME TransactionAssumption ==
    /\ N \in Nat
    /\ Undoable \subseteq Ops
    /\ MaxTries \in Nat
    /\ MaxFaults \in Nat
    /\ MaxCrashes \in Nat

VARIABLES
    pc,         \* what the thread of each transaction does next
    managed,    \* begun by TransactionManager.transaction(), or used directly
    status,     \* status
    committed,  \* _committed
    expired,    \* is_expired()
    at,         \* the operation to execute next, or the last one left to undo
    erred,      \* the operations whose error is set
    inBody,     \* execute() was called from the body
    raised,     \* the body raised
    records,    \* TransactionJournal._records: the status there, or "none"
    journal,    \* the status in the journal file, or "none"
    (* history *)
    tries,      \* calls of execute()
    commits,    \* those that committed
    effect,     \* how often each operation is in effect
    kept,       \* operations whose rollback_fn failed
    faults,
    crashes

txn == <<managed, status, committed, expired, at, erred, inBody, raised>>
history == <<tries, commits, effect, kept, faults, crashes>>
vars == <<pc, txn, records, journal, history>>

Status == {"PENDING", "COMMITTED", "TIMED_OUT", "FAILED"}
Steps == {"idle", "body", "run", "undo", "exit", "report", "leave", "over", "dead"}

Running(t) == pc[t] \notin {"idle", "over", "dead"}

(* in _active_transactions *)
Active(t) == managed[t] /\ Running(t)

Fault == faults < MaxFaults /\ faults' = faults + 1

-----------------------------------------------------------------------------
(* TransactionJournal *)

(* _persist_record(): a file that cannot be written is only logged *)
Persist(t, s) ==
    \/ journal' = [journal EXCEPT ![t] = s] /\ UNCHANGED faults
    \/ Fault /\ UNCHANGED journal

(* update_status(), for an id that is in _records *)
UpdateStatus(t, s) ==
    IF records[t] = "none"
    THEN UNCHANGED <<records, journal, faults>>
    ELSE records' = [records EXCEPT ![t] = s] /\ Persist(t, s)

(* cleanup_old_records(): by age, whatever the status *)
CleanupOldRecords(t) ==
    /\ expired[t]
    /\ records[t] # "none"
    /\ records' = [records EXCEPT ![t] = "none"]
    /\ UNCHANGED <<pc, txn, journal, history>>

-----------------------------------------------------------------------------
(* The with-statement *)

BeginManaged(t) ==
    /\ pc[t] = "idle"
    /\ pc' = [pc EXCEPT ![t] = "body"]
    /\ managed' = [managed EXCEPT ![t] = TRUE]
    /\ records' = [records EXCEPT ![t] = "PENDING"]
    /\ Persist(t, "PENDING")
    /\ UNCHANGED <<status, committed, expired, at, erred, inBody, raised, tries, commits, effect, kept, crashes>>

BeginDirect(t) ==
    /\ pc[t] = "idle"
    /\ pc' = [pc EXCEPT ![t] = "body"]
    /\ UNCHANGED <<txn, records, journal, history>>

(* execute(), from the body or when the body ends.  An expired transaction *)
(* executes nothing.                                                        *)
Execute(t) ==
    /\ tries' = [tries EXCEPT ![t] = @ + 1]
    /\ at' = [at EXCEPT ![t] = 1]
    /\ IF expired[t]
       THEN status' = [status EXCEPT ![t] = "TIMED_OUT"] /\ pc' = [pc EXCEPT ![t] = "exit"]
       ELSE UNCHANGED status /\ pc' = [pc EXCEPT ![t] = "run"]

(* The body has control: at its start, and again after every execute() that *)
(* it called itself.                                                        *)
InBody(t) == pc[t] = "body" \/ (pc[t] = "exit" /\ inBody[t])

(* execute() has no guard: it can be called after a failure, and after a    *)
(* commit.                                                                  *)
BodyExecutes(t) ==
    /\ InBody(t)
    /\ tries[t] < MaxTries
    /\ inBody' = [inBody EXCEPT ![t] = TRUE]
    /\ Execute(t)
    /\ UNCHANGED <<managed, committed, expired, erred, raised, records, journal, commits, effect, kept, faults, crashes>>

(* When the body raises, StateTransaction.__exit__() executes even then,    *)
(* the manager does not; when it ends, both execute again what has failed   *)
(* in the body, and nothing once a call has committed.                      *)
BodyEnds(t) ==
    /\ InBody(t)
    /\ inBody' = [inBody EXCEPT ![t] = FALSE]
    /\ IF committed[t]
       THEN pc' = [pc EXCEPT ![t] = "leave"] /\ UNCHANGED <<tries, at, status>>
       ELSE Execute(t)
    /\ UNCHANGED <<managed, committed, expired, erred, raised, records, journal, commits, effect, kept, faults, crashes>>

BodyRaises(t) ==
    /\ InBody(t)
    /\ inBody' = [inBody EXCEPT ![t] = FALSE]
    /\ raised' = [raised EXCEPT ![t] = TRUE]
    /\ IF managed[t]
       THEN pc' = [pc EXCEPT ![t] = "report"] /\ UNCHANGED <<tries, at, status>>
       ELSE Execute(t)
    /\ UNCHANGED <<managed, committed, expired, erred, records, journal, commits, effect, kept, faults, crashes>>

-----------------------------------------------------------------------------
(* execute() *)

\* as a mutation: the last one executed is skipped
FirstToUndo_Skips(t) == IF at[t] <= 1 THEN 0 ELSE at[t] - 2
FirstToUndo(t) == at[t] - 1

Fails(t) ==
    /\ status' = [status EXCEPT ![t] = "FAILED"]
    /\ at' = [at EXCEPT ![t] = FirstToUndo(t)]
    /\ pc' = [pc EXCEPT ![t] = "undo"]

OperationRuns(t) ==
    /\ pc[t] = "run" /\ at[t] <= N
    /\ ~expired[t]
    /\ effect' = [effect EXCEPT ![t][at[t]] = @ + 1]
    /\ at' = [at EXCEPT ![t] = @ + 1]
    /\ UNCHANGED <<pc, managed, status, committed, expired, erred, inBody, raised, records, journal, tries, commits, kept, faults, crashes>>

OperationRaises(t) ==
    /\ pc[t] = "run" /\ at[t] <= N
    /\ ~expired[t]
    /\ Fault
    /\ erred' = [erred EXCEPT ![t] = @ \cup {at[t]}]
    /\ Fails(t)
    /\ UNCHANGED <<managed, committed, expired, inBody, raised, records, journal, tries, commits, effect, kept, crashes>>

OperationIsLate(t) ==
    /\ pc[t] = "run" /\ at[t] <= N
    /\ expired[t]
    /\ Fails(t)
    /\ UNCHANGED <<managed, committed, expired, erred, inBody, raised, records, journal, history>>

Commits(t) ==
    /\ pc[t] = "run" /\ at[t] = N + 1
    /\ status' = [status EXCEPT ![t] = "COMMITTED"]
    /\ committed' = [committed EXCEPT ![t] = TRUE]
    /\ commits' = [commits EXCEPT ![t] = @ + 1]
    /\ pc' = [pc EXCEPT ![t] = "exit"]
    /\ UNCHANGED <<managed, expired, at, erred, inBody, raised, records, journal, tries, effect, kept, faults, crashes>>

(* TransactionOperation.rollback(): nothing for an operation without        *)
(* rollback_fn, nor for one whose error was set by an earlier execute().    *)
Undoes(t, i) == i \in Undoable /\ i \notin erred[t]

OperationIsUndone(t) ==
    /\ pc[t] = "undo" /\ at[t] >= 1
    /\ at' = [at EXCEPT ![t] = @ - 1]
    /\ \/ /\ effect' = [effect EXCEPT ![t][at[t]] = IF Undoes(t, at[t]) THEN @ - 1 ELSE @]
          /\ UNCHANGED <<kept, faults>>
       \/ /\ Undoes(t, at[t])
          /\ Fault
          /\ kept' = [kept EXCEPT ![t] = @ \cup {at[t]}]
          /\ UNCHANGED effect
    /\ UNCHANGED <<pc, managed, status, committed, expired, erred, inBody, raised, records, journal, tries, commits, crashes>>

AllUndone(t) ==
    /\ pc[t] = "undo" /\ at[t] = 0
    /\ pc' = [pc EXCEPT ![t] = "exit"]
    /\ UNCHANGED <<txn, records, journal, history>>

-----------------------------------------------------------------------------
(* After execute() *)

Returns(t) ==
    /\ pc[t] = "exit" /\ ~inBody[t]
    /\ pc' = [pc EXCEPT ![t] = IF managed[t] THEN "report" ELSE "over"]
    /\ UNCHANGED <<txn, records, journal, history>>

(* the manager's update_status() *)
\* as a mutation: the outcome is read from status
Outcome_Status(t) == IF raised[t] THEN "FAILED" ELSE IF status[t] = "TIMED_OUT" THEN "FAILED" ELSE "COMMITTED"
Outcome(t) == IF committed[t] /\ ~raised[t] THEN "COMMITTED" ELSE "FAILED"

Reports(t) ==
    /\ pc[t] = "report"
    /\ pc' = [pc EXCEPT ![t] = "leave"]
    /\ UpdateStatus(t, Outcome(t))
    /\ UNCHANGED <<txn, tries, commits, effect, kept, crashes>>

(* _active_transactions.pop() *)
IsPopped(t) ==
    /\ pc[t] = "leave"
    /\ pc' = [pc EXCEPT ![t] = "over"]
    /\ UNCHANGED <<txn, records, journal, history>>

-----------------------------------------------------------------------------
(* Other threads, time, and the death of the process *)

Expires(t) ==
    /\ Running(t) \/ records[t] # "none"
    /\ ~expired[t]
    /\ expired' = [expired EXCEPT ![t] = TRUE]
    /\ UNCHANGED <<pc, managed, status, committed, at, erred, inBody, raised, records, journal, history>>

(* check_timeouts(), "forcing rollback": nothing but the two statuses *)
CheckTimeouts(t) ==
    /\ Active(t) /\ expired[t]
    /\ status' = [status EXCEPT ![t] = "TIMED_OUT"]
    /\ UpdateStatus(t, "TIMED_OUT")
    /\ UNCHANGED <<pc, managed, committed, expired, at, erred, inBody, raised, tries, commits, effect, kept, crashes>>

(* recover_incomplete(): of the transactions in memory, which a new process *)
(* has none of                                                              *)
RecoverIncomplete(t) ==
    /\ records[t] = "PENDING" /\ expired[t]
    /\ UpdateStatus(t, "TIMED_OUT")
    /\ UNCHANGED <<pc, txn, tries, commits, effect, kept, crashes>>

Crash ==
    /\ crashes < MaxCrashes
    /\ crashes' = crashes + 1
    /\ pc' = [t \in Txns |-> IF Running(t) THEN "dead" ELSE pc[t]]
    /\ records' = [t \in Txns |-> "none"]
    /\ UNCHANGED <<txn, journal, tries, commits, effect, kept, faults>>

-----------------------------------------------------------------------------
Init ==
    /\ pc = [t \in Txns |-> "idle"]
    /\ managed = [t \in Txns |-> FALSE]
    /\ status = [t \in Txns |-> "PENDING"]
    /\ committed = [t \in Txns |-> FALSE]
    /\ expired = [t \in Txns |-> FALSE]
    /\ at = [t \in Txns |-> 1]
    /\ erred = [t \in Txns |-> {}]
    /\ inBody = [t \in Txns |-> FALSE]
    /\ raised = [t \in Txns |-> FALSE]
    /\ records = [t \in Txns |-> "none"]
    /\ journal = [t \in Txns |-> "none"]
    /\ tries = [t \in Txns |-> 0]
    /\ commits = [t \in Txns |-> 0]
    /\ effect = [t \in Txns |-> [i \in Ops |-> 0]]
    /\ kept = [t \in Txns |-> {}]
    /\ faults = 0
    /\ crashes = 0

Thread(t) ==
    \/ BeginManaged(t) \/ BeginDirect(t)
    \/ BodyExecutes(t) \/ BodyEnds(t) \/ BodyRaises(t)
    \/ OperationRuns(t) \/ OperationRaises(t) \/ OperationIsLate(t) \/ Commits(t)
    \/ OperationIsUndone(t) \/ AllUndone(t)
    \/ Returns(t) \/ Reports(t) \/ IsPopped(t)

Others(t) == Expires(t) \/ CheckTimeouts(t) \/ RecoverIncomplete(t) \/ CleanupOldRecords(t)

Next == (\E t \in Txns : Thread(t) \/ Others(t)) \/ Crash

Spec == Init /\ [][Next]_vars

-----------------------------------------------------------------------------
(* Properties *)

(* Every variable has its type. *)
TypeOK ==
    /\ pc \in [Txns -> Steps]
    /\ managed \in [Txns -> BOOLEAN]
    /\ status \in [Txns -> Status]
    /\ committed \in [Txns -> BOOLEAN]
    /\ expired \in [Txns -> BOOLEAN]
    /\ at \in [Txns -> 0..(N + 1)]
    /\ erred \in [Txns -> SUBSET Ops]
    /\ inBody \in [Txns -> BOOLEAN]
    /\ raised \in [Txns -> BOOLEAN]
    /\ records \in [Txns -> Status \cup {"none"}]
    /\ journal \in [Txns -> Status \cup {"none"}]
    /\ tries \in [Txns -> Nat]
    /\ commits \in [Txns -> Nat]
    /\ effect \in [Txns -> [Ops -> Nat]]
    /\ kept \in [Txns -> SUBSET Ops]
    /\ {faults, crashes} \subseteq Nat

(* "All operations committed or all rolled back" (StateTransaction), call   *)
(* by call, for a body that calls execute() as often as it likes: between   *)
(* two calls and after the with-statement an operation that can be undone   *)
(* is in effect once for every call that committed, and no call that failed *)
(* leaves it or takes away what an earlier one committed.  Only an          *)
(* operation without rollback, one whose rollback failed, and one that      *)
(* failed in some call, which is never undone again, can be in effect more  *)
(* often; the last at most once for every other call.                       *)
AllOrNothing ==
    \A t \in Txns : pc[t] \notin {"run", "undo", "dead"} =>
        \A i \in Ops :
            /\ effect[t][i] >= commits[t]
            /\ i \in Undoable \ (kept[t] \cup erred[t]) => effect[t][i] = commits[t]
            /\ i \in erred[t] => effect[t][i] < tries[t]

(* The journal on disk says COMMITTED only of a managed transaction all of  *)
(* whose operations are in effect, also after timeouts seen by the other    *)
(* thread, lost journal writes and crashes; and FAILED of a committed one   *)
(* only if the body raised after committing it.                             *)
JournalTellsTruth ==
    \A t \in Txns :
        /\ journal[t] = "COMMITTED" => managed[t] /\ committed[t] /\ \A i \in Ops : effect[t][i] >= 1
        /\ journal[t] = "FAILED" /\ committed[t] => raised[t]
=============================================================================
