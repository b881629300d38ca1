------------------------- MODULE Transaction_proofs -------------------------
(***************************************************************************)
(* The journal tells the truth (JournalTellsTruth), and a transaction does *)
(* all or nothing (AllOrNothing), for any number of transactions,          *)
(* operations, failures and crashes.                                       *)
(*                                                                         *)
(* The invariant follows a transaction through any number of calls of      *)
(* execute(): every operation is in effect at least once for each call     *)
(* that committed, once more while the call under way has executed it and  *)
(* not yet undone it; and an outcome is in the journal only after the      *)
(* with-statement has reported it.                                         *)
(***************************************************************************)
EXTENDS Transaction, TLAPS

(* nothing of the transaction is to be reported any more *)
Left(t) == pc[t] \in {"leave", "over", "dead"}

(* of a transaction t *)
RunsInOrder(t) ==
    pc[t] = "run" => at[t] >= 1 /\ \A i \in Ops : i < at[t] => effect[t][i] >= commits[t] + 1
UndoesWhatRan(t) ==
    pc[t] = "undo" => at[t] <= N /\ \A i \in Ops : i <= at[t] => effect[t][i] >= commits[t] + 1
CommitsLast(t) ==
    /\ committed[t] => commits[t] >= 1
    /\ \A i \in Ops : effect[t][i] >= commits[t]
IdleIsNew(t) == pc[t] = "idle" => ~committed[t] /\ journal[t] = "none" /\ records[t] = "none"
RecordedIsManaged(t) == records[t] # "none" => managed[t]
ReportedIsLeft(t) ==
    journal[t] \in {"COMMITTED", "FAILED"} =>
        /\ managed[t] /\ Left(t)
        /\ journal[t] = "COMMITTED" <=> committed[t] /\ ~raised[t]

TInv(t) ==
    /\ RunsInOrder(t)
    /\ UndoesWhatRan(t)
    /\ CommitsLast(t)
    /\ IdleIsNew(t)
    /\ RecordedIsManaged(t)
    /\ ReportedIsLeft(t)

IInv == TypeOK /\ \A t \in Txns : TInv(t)

-----------------------------------------------------------------------------
(* A step that leaves a transaction alone *)

Untouched(t) ==
    /\ pc'[t] = pc[t] /\ managed'[t] = managed[t] /\ committed'[t] = committed[t]
    /\ at'[t] = at[t] /\ raised'[t] = raised[t] /\ effect'[t] = effect[t]
    /\ commits'[t] = commits[t]
    /\ records'[t] = records[t] /\ journal'[t] = journal[t]

LEMMA UntouchedKeeps == ASSUME NEW t \in Txns, TInv(t), Untouched(t) PROVE TInv(t)'
  BY DEF Untouched, TInv, RunsInOrder, UndoesWhatRan, CommitsLast, IdleIsNew, RecordedIsManaged, ReportedIsLeft, Left

(* What update_status() leaves: the record and, unless the write fails, the *)
(* file of one transaction.                                                 *)
LEMMA StatusUpdated ==
  ASSUME TypeOK, NEW t \in Txns, NEW s \in Status, UpdateStatus(t, s)
  PROVE  /\ records' \in [Txns -> Status \cup {"none"}]
         /\ journal' \in [Txns -> Status \cup {"none"}]
         /\ faults' \in Nat
         /\ \A u \in Txns : u # t => records'[u] = records[u] /\ journal'[u] = journal[u]
         /\ records[t] = "none" => records'[t] = "none" /\ journal'[t] = journal[t]
         /\ journal'[t] \in {s, journal[t]}
<1>1. CASE records[t] = "none"
  BY <1>1 DEF UpdateStatus, TypeOK
<1>2. CASE records[t] # "none"
  <2>1. records' = [records EXCEPT ![t] = s] /\ Persist(t, s)
    BY <1>2 DEF UpdateStatus
  <2>2. CASE journal' = [journal EXCEPT ![t] = s] /\ UNCHANGED faults
    BY <1>2, <2>1, <2>2 DEF TypeOK
  <2>3. CASE Fault /\ UNCHANGED journal
    BY <1>2, <2>1, <2>3 DEF TypeOK, Fault
  <2>4. QED
    BY <2>1, <2>2, <2>3 DEF Persist
<1>3. QED
  BY <1>1, <1>2

(* What execute() begins with *)
Begun(t) ==
    /\ pc' \in [Txns -> Steps] /\ status' \in [Txns -> Status]
    /\ at' \in [Txns -> 0..(N + 1)] /\ tries' \in [Txns -> Nat]
    /\ \A u \in Txns : u # t => pc'[u] = pc[u] /\ at'[u] = at[u]
    /\ pc'[t] = "run" => at'[t] = 1
    /\ pc'[t] \in {"run", "exit", "report", "leave"}

LEMMA ExecuteBegins ==
  ASSUME TypeOK, NEW t \in Txns, Execute(t)
  PROVE  Begun(t) /\ pc'[t] \in {"run", "exit"}
<1>1. tries' \in [Txns -> Nat]
  BY DEF Execute, TypeOK
<1>2. /\ at' \in [Txns -> 0..(N + 1)] /\ at'[t] = 1
      /\ \A u \in Txns : u # t => at'[u] = at[u]
  BY TransactionAssumption DEF Execute, TypeOK
<1>3. /\ pc' \in [Txns -> Steps] /\ pc'[t] \in {"run", "exit"}
      /\ \A u \in Txns : u # t => pc'[u] = pc[u]
  BY DEF Execute, TypeOK, Steps
<1>4. status' \in [Txns -> Status]
  BY DEF Execute, TypeOK, Status
<1>5. QED
  BY <1>1, <1>2, <1>3, <1>4 DEF Begun

LEMMA NothingBegins ==
  ASSUME TypeOK, NEW t \in Txns, NEW s \in {"report", "leave"},
         pc' = [pc EXCEPT ![t] = s], UNCHANGED <<tries, at, status>>
  PROVE  Begun(t) /\ pc'[t] = s
  BY DEF Begun, TypeOK, Steps

-----------------------------------------------------------------------------
(* The steps of and about a transaction t *)

LEMMA BeginManagedKeeps == ASSUME IInv, NEW t \in Txns, BeginManaged(t) PROVE IInv'
<1>1. TypeOK /\ TInv(t)
  BY DEF IInv
<1>2. TypeOK'
  <2>1. pc' \in [Txns -> Steps]
    BY <1>1, TransactionAssumption DEF BeginManaged, Persist, Fault, TypeOK, Steps
  <2>2. managed' \in [Txns -> BOOLEAN]
    BY <1>1, TransactionAssumption DEF BeginManaged, Persist, Fault, TypeOK
  <2>3. records' \in [Txns -> Status \cup {"none"}]
    BY <1>1, TransactionAssumption DEF BeginManaged, Persist, Fault, TypeOK, Status
  <2>4. journal' \in [Txns -> Status \cup {"none"}]
    BY <1>1, TransactionAssumption DEF BeginManaged, Persist, Fault, TypeOK, Status
  <2>5. faults' \in Nat
    BY <1>1, TransactionAssumption DEF BeginManaged, Persist, Fault, TypeOK
  <2>6. UNCHANGED <<status, committed, expired, at, erred, inBody, raised, tries, commits, effect, kept, crashes>>
    BY DEF BeginManaged, Persist, Fault
  <2>7. QED
    BY <1>1, <2>1, <2>2, <2>3, <2>4, <2>5, <2>6 DEF TypeOK
<1>3. ASSUME NEW u \in Txns, u # t PROVE TInv(u)'
  <2>1. Untouched(u)
    BY <1>1, <1>3 DEF BeginManaged, Persist, Fault, Untouched, TypeOK
  <2>2. QED
    BY <2>1, UntouchedKeeps DEF IInv
<1>4. TInv(t)'
  <2>1. RunsInOrder(t)'
    BY <1>1, TransactionAssumption DEF BeginManaged, Persist, Fault, TypeOK, Ops, TInv, RunsInOrder
  <2>2. UndoesWhatRan(t)'
    BY <1>1, TransactionAssumption DEF BeginManaged, Persist, Fault, TypeOK, Ops, TInv, RunsInOrder, UndoesWhatRan
  <2>3. CommitsLast(t)'
    BY <1>1 DEF BeginManaged, Persist, Fault, TypeOK, TInv, CommitsLast, IdleIsNew
  <2>4. IdleIsNew(t)'
    BY <1>1 DEF BeginManaged, Persist, Fault, TypeOK, TInv, IdleIsNew
  <2>5. RecordedIsManaged(t)'
    BY <1>1 DEF BeginManaged, Persist, Fault, TypeOK, TInv, RecordedIsManaged
  <2>6. ReportedIsLeft(t)'
    BY <1>1 DEF BeginManaged, Persist, Fault, TypeOK, TInv, ReportedIsLeft, Left, IdleIsNew
  <2>7. QED
    BY <2>1, <2>2, <2>3, <2>4, <2>5, <2>6 DEF TInv
<1>5. QED
  BY <1>2, <1>3, <1>4 DEF IInv

LEMMA BeginDirectKeeps == ASSUME IInv, NEW t \in Txns, BeginDirect(t) PROVE IInv'
<1>1. TypeOK /\ TInv(t)
  BY DEF IInv
<1>2. TypeOK'
  BY <1>1, TransactionAssumption DEF BeginDirect, txn, history, Ops, TypeOK, Status, Steps
<1>3. ASSUME NEW u \in Txns, u # t PROVE TInv(u)'
  <2>1. Untouched(u)
    BY <1>1, <1>3 DEF BeginDirect, txn, history, Untouched, TypeOK
  <2>2. QED
    BY <2>1, UntouchedKeeps DEF IInv
<1>4. TInv(t)'
  <2>1. RunsInOrder(t)'
    BY <1>1, TransactionAssumption DEF BeginDirect, txn, history, TypeOK, Ops, TInv, RunsInOrder
  <2>2. UndoesWhatRan(t)'
    BY <1>1, TransactionAssumption DEF BeginDirect, txn, history, TypeOK, Ops, TInv, RunsInOrder, UndoesWhatRan
  <2>3. CommitsLast(t)'
    BY <1>1 DEF BeginDirect, txn, history, TypeOK, TInv, CommitsLast, IdleIsNew
  <2>4. IdleIsNew(t)'
    BY <1>1 DEF BeginDirect, txn, history, TypeOK, TInv, IdleIsNew
  <2>5. RecordedIsManaged(t)'
    BY <1>1 DEF BeginDirect, txn, history, TypeOK, TInv, RecordedIsManaged
  <2>6. ReportedIsLeft(t)'
    BY <1>1 DEF BeginDirect, txn, history, TypeOK, TInv, ReportedIsLeft, Left, IdleIsNew
  <2>7. QED
    BY <2>1, <2>2, <2>3, <2>4, <2>5, <2>6 DEF TInv
<1>5. QED
  BY <1>2, <1>3, <1>4 DEF IInv

LEMMA BodyExecutesKeeps == ASSUME IInv, NEW t \in Txns, BodyExecutes(t) PROVE IInv'
<1>1. TypeOK /\ TInv(t)
  BY DEF IInv
<1>2. Begun(t) /\ pc'[t] \in {"run", "exit"}
  BY <1>1, ExecuteBegins DEF BodyExecutes
<1>3. TypeOK'
  <2>1. pc' \in [Txns -> Steps]
    BY <1>1, <1>2, TransactionAssumption DEF BodyExecutes, Begun, TypeOK, Steps
  <2>2. status' \in [Txns -> Status]
    BY <1>1, <1>2, TransactionAssumption DEF BodyExecutes, Begun, TypeOK, Status
  <2>3. at' \in [Txns -> 0..(N + 1)]
    BY <1>1, <1>2, TransactionAssumption DEF BodyExecutes, Begun, TypeOK, Ops, TInv, RunsInOrder, UndoesWhatRan
  <2>4. inBody' \in [Txns -> BOOLEAN]
    BY <1>1, <1>2, TransactionAssumption DEF BodyExecutes, Begun, TypeOK
  <2>5. tries' \in [Txns -> Nat]
    BY <1>1, <1>2, TransactionAssumption DEF BodyExecutes, Begun, TypeOK
  <2>6. UNCHANGED <<managed, committed, expired, erred, raised, records, journal, commits, effect, kept, faults, crashes>>
    BY DEF BodyExecutes, Begun
  <2>7. QED
    BY <1>1, <2>1, <2>2, <2>3, <2>4, <2>5, <2>6 DEF TypeOK
<1>4. ASSUME NEW u \in Txns, u # t PROVE TInv(u)'
  <2>1. Untouched(u)
    BY <1>1, <1>2, <1>4 DEF BodyExecutes, Begun, Untouched, TypeOK
  <2>2. QED
    BY <2>1, UntouchedKeeps DEF IInv
<1>5. TInv(t)'
  <2>1. RunsInOrder(t)'
    BY <1>1, <1>2, TransactionAssumption DEF BodyExecutes, Begun, TypeOK, Ops, TInv, RunsInOrder
  <2>2. UndoesWhatRan(t)'
    BY <1>1, <1>2, TransactionAssumption DEF BodyExecutes, Begun, TypeOK, Ops, TInv, RunsInOrder, UndoesWhatRan
  <2>3. CommitsLast(t)'
    BY <1>1, <1>2 DEF BodyExecutes, Begun, TypeOK, TInv, CommitsLast
  <2>4. IdleIsNew(t)'
    BY <1>1, <1>2 DEF BodyExecutes, Begun, TypeOK, TInv, IdleIsNew
  <2>5. RecordedIsManaged(t)'
    BY <1>1, <1>2 DEF BodyExecutes, Begun, TypeOK, TInv, RecordedIsManaged
  <2>6. ReportedIsLeft(t)'
    BY <1>1, <1>2 DEF BodyExecutes, InBody, Begun, TypeOK, TInv, ReportedIsLeft, Left
  <2>7. QED
    BY <2>1, <2>2, <2>3, <2>4, <2>5, <2>6 DEF TInv
<1>6. QED
  BY <1>3, <1>4, <1>5 DEF IInv

LEMMA BodyEndsKeeps == ASSUME IInv, NEW t \in Txns, BodyEnds(t) PROVE IInv'
<1>1. TypeOK /\ TInv(t)
  BY DEF IInv
<1>2. Begun(t) /\ (committed[t] => pc'[t] = "leave")
  BY <1>1, ExecuteBegins, NothingBegins DEF BodyEnds
<1>3. TypeOK'
  <2>1. pc' \in [Txns -> Steps]
    BY <1>1, <1>2, TransactionAssumption DEF BodyEnds, Begun, TypeOK, Steps
  <2>2. status' \in [Txns -> Status]
    BY <1>1, <1>2, TransactionAssumption DEF BodyEnds, Begun, TypeOK, Status
  <2>3. at' \in [Txns -> 0..(N + 1)]
    BY <1>1, <1>2, TransactionAssumption DEF BodyEnds, Begun, TypeOK, Ops, TInv, RunsInOrder, UndoesWhatRan
  <2>4. inBody' \in [Txns -> BOOLEAN]
    BY <1>1, <1>2, TransactionAssumption DEF BodyEnds, Begun, TypeOK
  <2>5. tries' \in [Txns -> Nat]
    BY <1>1, <1>2, TransactionAssumption DEF BodyEnds, Begun, TypeOK
  <2>6. UNCHANGED <<managed, committed, expired, erred, raised, records, journal, commits, effect, kept, faults, crashes>>
    BY DEF BodyEnds, Begun
  <2>7. QED
    BY <1>1, <2>1, <2>2, <2>3, <2>4, <2>5, <2>6 DEF TypeOK
<1>4. ASSUME NEW u \in Txns, u # t PROVE TInv(u)'
  <2>1. Untouched(u)
    BY <1>1, <1>2, <1>4 DEF BodyEnds, Begun, Untouched, TypeOK
  <2>2. QED
    BY <2>1, UntouchedKeeps DEF IInv
<1>5. TInv(t)'
  <2>1. RunsInOrder(t)'
    BY <1>1, <1>2, TransactionAssumption DEF BodyEnds, Begun, TypeOK, Ops, TInv, RunsInOrder
  <2>2. UndoesWhatRan(t)'
    BY <1>1, <1>2, TransactionAssumption DEF BodyEnds, Begun, TypeOK, Ops, TInv, RunsInOrder, UndoesWhatRan
  <2>3. CommitsLast(t)'
    BY <1>1, <1>2 DEF BodyEnds, Begun, TypeOK, TInv, CommitsLast
  <2>4. IdleIsNew(t)'
    BY <1>1, <1>2 DEF BodyEnds, Begun, TypeOK, TInv, IdleIsNew
  <2>5. RecordedIsManaged(t)'
    BY <1>1, <1>2 DEF BodyEnds, Begun, TypeOK, TInv, RecordedIsManaged
  <2>6. ReportedIsLeft(t)'
    BY <1>1, <1>2 DEF BodyEnds, InBody, Begun, TypeOK, TInv, ReportedIsLeft, Left
  <2>7. QED
    BY <2>1, <2>2, <2>3, <2>4, <2>5, <2>6 DEF TInv
<1>6. QED
  BY <1>3, <1>4, <1>5 DEF IInv

LEMMA BodyRaisesKeeps == ASSUME IInv, NEW t \in Txns, BodyRaises(t) PROVE IInv'
<1>1. TypeOK /\ TInv(t)
  BY DEF IInv
<1>2. Begun(t) /\ (managed[t] => pc'[t] = "report")
  BY <1>1, ExecuteBegins, NothingBegins DEF BodyRaises
<1>3. TypeOK'
  <2>1. pc' \in [Txns -> Steps]
    BY <1>1, <1>2, TransactionAssumption DEF BodyRaises, Begun, TypeOK, Steps
  <2>2. status' \in [Txns -> Status]
    BY <1>1, <1>2, TransactionAssumption DEF BodyRaises, Begun, TypeOK, Status
  <2>3. at' \in [Txns -> 0..(N + 1)]
    BY <1>1, <1>2, TransactionAssumption DEF BodyRaises, Begun, TypeOK, Ops, TInv, RunsInOrder, UndoesWhatRan
  <2>4. inBody' \in [Txns -> BOOLEAN]
    BY <1>1, <1>2, TransactionAssumption DEF BodyRaises, Begun, TypeOK
  <2>5. raised' \in [Txns -> BOOLEAN]
    BY <1>1, <1>2, TransactionAssumption DEF BodyRaises, Begun, TypeOK
  <2>6. tries' \in [Txns -> Nat]
    BY <1>1, <1>2, TransactionAssumption DEF BodyRaises, Begun, TypeOK
  <2>7. UNCHANGED <<managed, committed, expired, erred, records, journal, commits, effect, kept, faults, crashes>>
    BY DEF BodyRaises, Begun
  <2>8. QED
    BY <1>1, <2>1, <2>2, <2>3, <2>4, <2>5, <2>6, <2>7 DEF TypeOK
<1>4. ASSUME NEW u \in Txns, u # t PROVE TInv(u)'
  <2>1. Untouched(u)
    BY <1>1, <1>2, <1>4 DEF BodyRaises, Begun, Untouched, TypeOK
  <2>2. QED
    BY <2>1, UntouchedKeeps DEF IInv
<1>5. TInv(t)'
  <2>1. RunsInOrder(t)'
    BY <1>1, <1>2, TransactionAssumption DEF BodyRaises, Begun, TypeOK, Ops, TInv, RunsInOrder
  <2>2. UndoesWhatRan(t)'
    BY <1>1, <1>2, TransactionAssumption DEF BodyRaises, Begun, TypeOK, Ops, TInv, RunsInOrder, UndoesWhatRan
  <2>3. CommitsLast(t)'
    BY <1>1, <1>2 DEF BodyRaises, Begun, TypeOK, TInv, CommitsLast
  <2>4. IdleIsNew(t)'
    BY <1>1, <1>2 DEF BodyRaises, Begun, TypeOK, TInv, IdleIsNew
  <2>5. RecordedIsManaged(t)'
    BY <1>1, <1>2 DEF BodyRaises, Begun, TypeOK, TInv, RecordedIsManaged
  <2>6. ReportedIsLeft(t)'
    BY <1>1, <1>2 DEF BodyRaises, InBody, Begun, TypeOK, TInv, ReportedIsLeft, Left
  <2>7. QED
    BY <2>1, <2>2, <2>3, <2>4, <2>5, <2>6 DEF TInv
<1>6. QED
  BY <1>3, <1>4, <1>5 DEF IInv

LEMMA OperationRunsKeeps == ASSUME IInv, NEW t \in Txns, OperationRuns(t) PROVE IInv'
<1>1. TypeOK /\ TInv(t)
  BY DEF IInv
<1>2. TypeOK'
  <2>1. at' \in [Txns -> 0..(N + 1)]
    BY <1>1, TransactionAssumption, SMTT(30) DEF OperationRuns, TypeOK, Ops, TInv, RunsInOrder, UndoesWhatRan
  <2>2. effect' \in [Txns -> [Ops -> Nat]]
    BY <1>1, TransactionAssumption, SMTT(30) DEF OperationRuns, TypeOK, Ops, TInv, RunsInOrder, UndoesWhatRan
  <2>3. UNCHANGED <<pc, managed, status, committed, expired, erred, inBody, raised, records, journal, tries, commits, kept, faults, crashes>>
    BY DEF OperationRuns
  <2>4. QED
    BY <1>1, <2>1, <2>2, <2>3 DEF TypeOK
<1>3. ASSUME NEW u \in Txns, u # t PROVE TInv(u)'
  <2>1. Untouched(u)
    BY <1>1, <1>3 DEF OperationRuns, Untouched, TypeOK
  <2>2. QED
    BY <2>1, UntouchedKeeps DEF IInv
<1>4. TInv(t)'
  <2>1. RunsInOrder(t)'
    <3>1. /\ pc[t] = "run" /\ at[t] \in Ops /\ at'[t] = at[t] + 1 /\ commits' = commits
          /\ effect'[t] = [effect[t] EXCEPT ![at[t]] = effect[t][at[t]] + 1]
      BY <1>1, TransactionAssumption DEF OperationRuns, TypeOK, Ops, TInv, RunsInOrder
    <3>2. ASSUME NEW i \in Ops, i < at[t] + 1 PROVE effect'[t][i] >= commits[t] + 1
      <4>1. /\ effect[t] \in [Ops -> Nat] /\ commits[t] \in Nat /\ i \in Int
            /\ effect[t][i] >= commits[t] /\ (i < at[t] => effect[t][i] >= commits[t] + 1)
        BY <1>1, <3>1 DEF TypeOK, TInv, RunsInOrder, CommitsLast, Ops
      <4>2. CASE i = at[t]
        <5>1. effect'[t][i] = effect[t][i] + 1
          BY <3>1, <4>1, <4>2
        <5>2. QED
          BY <4>1, <5>1
      <4>3. CASE i # at[t]
        <5>1. effect'[t][i] = effect[t][i]
          BY <3>1, <4>1, <4>3
        <5>2. i < at[t]
          BY <3>1, <3>2, <4>1, <4>3 DEF Ops
        <5>3. QED
          BY <4>1, <5>1, <5>2
      <4>4. QED
        BY <4>2, <4>3
    <3>3. QED
      BY <3>1, <3>2 DEF RunsInOrder, Ops
  <2>2. UndoesWhatRan(t)'
    BY <1>1, TransactionAssumption DEF OperationRuns, TypeOK, Ops, TInv, RunsInOrder, UndoesWhatRan
  <2>3. CommitsLast(t)'
    <3>1. ASSUME NEW i \in Ops PROVE effect'[t][i] \in {effect[t][i], effect[t][i] + 1}
      BY <1>1, <3>1 DEF OperationRuns, TypeOK
    <3>2. ASSUME NEW i \in Ops PROVE effect[t][i] \in Nat /\ commits[t] \in Nat /\ effect[t][i] >= commits[t]
      BY <1>1, <3>2 DEF TypeOK, TInv, CommitsLast
    <3>3. commits' = commits /\ committed' = committed
      BY DEF OperationRuns
    <3>4. QED
      BY <1>1, <3>1, <3>2, <3>3 DEF TInv, CommitsLast
  <2>4. IdleIsNew(t)'
    BY <1>1 DEF OperationRuns, TypeOK, TInv, IdleIsNew
  <2>5. RecordedIsManaged(t)'
    BY <1>1 DEF OperationRuns, TypeOK, TInv, RecordedIsManaged
  <2>6. ReportedIsLeft(t)'
    BY <1>1 DEF OperationRuns, TypeOK, TInv, ReportedIsLeft, Left
  <2>7. QED
    BY <2>1, <2>2, <2>3, <2>4, <2>5, <2>6 DEF TInv
<1>5. QED
  BY <1>2, <1>3, <1>4 DEF IInv

LEMMA OperationRaisesKeeps == ASSUME IInv, NEW t \in Txns, OperationRaises(t) PROVE IInv'
<1>1. TypeOK /\ TInv(t)
  BY DEF IInv
<1>2. erred' \in [Txns -> SUBSET Ops]
  <2>1. at[t] \in Ops
    BY <1>1, TransactionAssumption DEF OperationRaises, Ops, TypeOK, TInv, RunsInOrder
  <2>2. QED
    BY <1>1, <2>1 DEF OperationRaises, TypeOK
<1>3. TypeOK'
  <2>1. pc' \in [Txns -> Steps]
    BY <1>1, <1>2, TransactionAssumption DEF OperationRaises, Fault, Fails, FirstToUndo, TypeOK, Steps
  <2>2. status' \in [Txns -> Status]
    BY <1>1, <1>2, TransactionAssumption DEF OperationRaises, Fault, Fails, FirstToUndo, TypeOK, Status
  <2>3. at' \in [Txns -> 0..(N + 1)]
    BY <1>1, <1>2, TransactionAssumption DEF OperationRaises, Fault, Fails, FirstToUndo, TypeOK, Ops, TInv, RunsInOrder, UndoesWhatRan
  <2>4. erred' \in [Txns -> SUBSET Ops]
    BY <1>1, <1>2, TransactionAssumption DEF OperationRaises, Fault, Fails, FirstToUndo, TypeOK, Ops
  <2>5. faults' \in Nat
    BY <1>1, <1>2, TransactionAssumption DEF OperationRaises, Fault, Fails, FirstToUndo, TypeOK
  <2>6. UNCHANGED <<managed, committed, expired, inBody, raised, records, journal, tries, commits, effect, kept, crashes>>
    BY DEF OperationRaises, Fault, Fails, FirstToUndo
  <2>7. QED
    BY <1>1, <2>1, <2>2, <2>3, <2>4, <2>5, <2>6 DEF TypeOK
<1>4. ASSUME NEW u \in Txns, u # t PROVE TInv(u)'
  <2>1. Untouched(u)
    BY <1>1, <1>2, <1>4 DEF OperationRaises, Fault, Fails, FirstToUndo, Untouched, TypeOK
  <2>2. QED
    BY <2>1, UntouchedKeeps DEF IInv
<1>5. TInv(t)'
  <2>1. RunsInOrder(t)'
    BY <1>1, <1>2, TransactionAssumption DEF OperationRaises, Fault, Fails, FirstToUndo, TypeOK, Ops, TInv, RunsInOrder
  <2>2. UndoesWhatRan(t)'
    BY <1>1, <1>2, TransactionAssumption DEF OperationRaises, Fault, Fails, FirstToUndo, TypeOK, Ops, TInv, RunsInOrder, UndoesWhatRan
  <2>3. CommitsLast(t)'
    BY <1>1, <1>2 DEF OperationRaises, Fault, Fails, FirstToUndo, TypeOK, TInv, CommitsLast
  <2>4. IdleIsNew(t)'
    BY <1>1, <1>2 DEF OperationRaises, Fault, Fails, FirstToUndo, TypeOK, TInv, IdleIsNew
  <2>5. RecordedIsManaged(t)'
    BY <1>1, <1>2 DEF OperationRaises, Fault, Fails, FirstToUndo, TypeOK, TInv, RecordedIsManaged
  <2>6. ReportedIsLeft(t)'
    BY <1>1, <1>2 DEF OperationRaises, Fault, Fails, FirstToUndo, TypeOK, TInv, ReportedIsLeft, Left
  <2>7. QED
    BY <2>1, <2>2, <2>3, <2>4, <2>5, <2>6 DEF TInv
<1>6. QED
  BY <1>3, <1>4, <1>5 DEF IInv

LEMMA OperationIsLateKeeps == ASSUME IInv, NEW t \in Txns, OperationIsLate(t) PROVE IInv'
<1>1. TypeOK /\ TInv(t)
  BY DEF IInv
<1>2. TypeOK'
  <2>1. pc' \in [Txns -> Steps]
    BY <1>1, TransactionAssumption DEF OperationIsLate, Fails, FirstToUndo, history, TypeOK, Steps
  <2>2. status' \in [Txns -> Status]
    BY <1>1, TransactionAssumption DEF OperationIsLate, Fails, FirstToUndo, history, TypeOK, Status
  <2>3. at' \in [Txns -> 0..(N + 1)]
    BY <1>1, TransactionAssumption DEF OperationIsLate, Fails, FirstToUndo, history, TypeOK, Ops, TInv, RunsInOrder, UndoesWhatRan
  <2>4. UNCHANGED <<managed, committed, expired, erred, inBody, raised, records, journal, tries, commits, effect, kept, faults, crashes>>
    BY DEF OperationIsLate, Fails, FirstToUndo, history
  <2>5. QED
    BY <1>1, <2>1, <2>2, <2>3, <2>4 DEF TypeOK
<1>3. ASSUME NEW u \in Txns, u # t PROVE TInv(u)'
  <2>1. Untouched(u)
    BY <1>1, <1>3 DEF OperationIsLate, Fails, FirstToUndo, history, Untouched, TypeOK
  <2>2. QED
    BY <2>1, UntouchedKeeps DEF IInv
<1>4. TInv(t)'
  <2>1. RunsInOrder(t)'
    BY <1>1, TransactionAssumption DEF OperationIsLate, Fails, FirstToUndo, history, TypeOK, Ops, TInv, RunsInOrder
  <2>2. UndoesWhatRan(t)'
    BY <1>1, TransactionAssumption DEF OperationIsLate, Fails, FirstToUndo, history, TypeOK, Ops, TInv, RunsInOrder, UndoesWhatRan
  <2>3. CommitsLast(t)'
    BY <1>1 DEF OperationIsLate, Fails, FirstToUndo, history, TypeOK, TInv, CommitsLast
  <2>4. IdleIsNew(t)'
    BY <1>1 DEF OperationIsLate, Fails, FirstToUndo, history, TypeOK, TInv, IdleIsNew
  <2>5. RecordedIsManaged(t)'
    BY <1>1 DEF OperationIsLate, Fails, FirstToUndo, history, TypeOK, TInv, RecordedIsManaged
  <2>6. ReportedIsLeft(t)'
    BY <1>1 DEF OperationIsLate, Fails, FirstToUndo, history, TypeOK, TInv, ReportedIsLeft, Left
  <2>7. QED
    BY <2>1, <2>2, <2>3, <2>4, <2>5, <2>6 DEF TInv
<1>5. QED
  BY <1>2, <1>3, <1>4 DEF IInv

LEMMA CommitsKeeps == ASSUME IInv, NEW t \in Txns, Commits(t) PROVE IInv'
<1>1. TypeOK /\ TInv(t)
  BY DEF IInv
<1>2. TypeOK'
  BY <1>1, TransactionAssumption DEF Commits, history, Ops, TypeOK, Status, Steps
<1>3. ASSUME NEW u \in Txns, u # t PROVE TInv(u)'
  <2>1. Untouched(u)
    BY <1>1, <1>3 DEF Commits, history, Untouched, TypeOK
  <2>2. QED
    BY <2>1, UntouchedKeeps DEF IInv
<1>4. TInv(t)'
  <2>1. RunsInOrder(t)'
    BY <1>1, TransactionAssumption DEF Commits, history, TypeOK, Ops, TInv, RunsInOrder
  <2>2. UndoesWhatRan(t)'
    BY <1>1, TransactionAssumption DEF Commits, history, TypeOK, Ops, TInv, RunsInOrder, UndoesWhatRan
  <2>3. CommitsLast(t)'
    BY <1>1, TransactionAssumption DEF Commits, history, TypeOK, Ops, TInv, CommitsLast, RunsInOrder
  <2>4. IdleIsNew(t)'
    BY <1>1 DEF Commits, history, TypeOK, TInv, IdleIsNew
  <2>5. RecordedIsManaged(t)'
    BY <1>1 DEF Commits, history, TypeOK, TInv, RecordedIsManaged
  <2>6. ReportedIsLeft(t)'
    BY <1>1 DEF Commits, history, TypeOK, TInv, ReportedIsLeft, Left
  <2>7. QED
    BY <2>1, <2>2, <2>3, <2>4, <2>5, <2>6 DEF TInv
<1>5. QED
  BY <1>2, <1>3, <1>4 DEF IInv

LEMMA OperationIsUndoneKeeps == ASSUME IInv, NEW t \in Txns, OperationIsUndone(t) PROVE IInv'
<1>1. TypeOK /\ TInv(t)
  BY DEF IInv
<1>2. /\ effect' \in [Txns -> [Ops -> Nat]]
      /\ \A u \in Txns : u # t => effect'[u] = effect[u]
      /\ \A i \in Ops : i < at[t] => effect'[t][i] = effect[t][i]
      /\ \A i \in Ops : effect'[t][i] >= commits[t]
      /\ kept' \in [Txns -> SUBSET Ops] /\ faults' \in Nat
  <2>1. at[t] \in Ops /\ effect[t][at[t]] \in Nat /\ commits[t] \in Nat
    BY <1>1, TransactionAssumption DEF OperationIsUndone, Ops, TypeOK, TInv, UndoesWhatRan
  <2>0. effect[t][at[t]] >= commits[t] + 1
    BY <1>1, <2>1 DEF OperationIsUndone, TInv, UndoesWhatRan, Ops
  <2>2. PICK x \in Nat : /\ x >= commits[t]
                        /\ (effect' = [effect EXCEPT ![t][at[t]] = x] \/ UNCHANGED effect)
    <3>1. effect[t][at[t]] - 1 \in Nat /\ effect[t][at[t]] - 1 >= commits[t]
      BY <2>0, <2>1
    <3>2. CASE UNCHANGED effect
      BY <2>1, <3>2
    <3>3. CASE effect' = [effect EXCEPT ![t][at[t]] = IF Undoes(t, at[t]) THEN @ - 1 ELSE @]
      <4>1. CASE Undoes(t, at[t])
        <5>1. effect' = [effect EXCEPT ![t][at[t]] = effect[t][at[t]] - 1]
          BY <3>3, <4>1
        <5>2. QED
          BY <3>1, <5>1
      <4>2. CASE ~Undoes(t, at[t])
        <5>1. effect' = [effect EXCEPT ![t][at[t]] = effect[t][at[t]]]
          BY <3>3, <4>2
        <5>2. effect[t][at[t]] \in Nat /\ effect[t][at[t]] >= commits[t]
          BY <2>0, <2>1
        <5>3. QED
          BY <5>1, <5>2
      <4>3. QED
        BY <4>1, <4>2
    <3>4. QED
      BY <3>2, <3>3 DEF OperationIsUndone
  <2>3. kept' \in [Txns -> SUBSET Ops] /\ faults' \in Nat
    BY <1>1, <2>1, SMTT(30) DEF OperationIsUndone, Fault, TypeOK
  <2>4. CASE effect' = [effect EXCEPT ![t][at[t]] = x]
    BY <1>1, <2>1, <2>2, <2>3, <2>4 DEF TypeOK, TInv, CommitsLast, Ops
  <2>5. CASE UNCHANGED effect
    BY <1>1, <2>3, <2>5 DEF TypeOK, TInv, CommitsLast
  <2>6. QED
    BY <2>2, <2>4, <2>5
<1>3. TypeOK'
  <2>1. at' \in [Txns -> 0..(N + 1)]
    BY <1>1, <1>2, TransactionAssumption, SMTT(30) DEF OperationIsUndone, TypeOK, Ops, TInv, RunsInOrder, UndoesWhatRan
  <2>2. effect' \in [Txns -> [Ops -> Nat]]
    BY <1>1, <1>2, TransactionAssumption DEF OperationIsUndone, TypeOK, Ops, TInv, RunsInOrder, UndoesWhatRan
  <2>3. kept' \in [Txns -> SUBSET Ops]
    BY <1>1, <1>2, TransactionAssumption DEF OperationIsUndone, TypeOK, Ops
  <2>4. faults' \in Nat
    BY <1>1, <1>2, TransactionAssumption DEF OperationIsUndone, TypeOK
  <2>5. UNCHANGED <<pc, managed, status, committed, expired, erred, inBody, raised, records, journal, tries, commits, crashes>>
    BY DEF OperationIsUndone
  <2>6. QED
    BY <1>1, <2>1, <2>2, <2>3, <2>4, <2>5 DEF TypeOK
<1>4. ASSUME NEW u \in Txns, u # t PROVE TInv(u)'
  <2>1. Untouched(u)
    BY <1>1, <1>2, <1>4 DEF OperationIsUndone, Untouched, TypeOK
  <2>2. QED
    BY <2>1, UntouchedKeeps DEF IInv
<1>5. TInv(t)'
  <2>1. RunsInOrder(t)'
    BY <1>1, <1>2, TransactionAssumption DEF OperationIsUndone, TypeOK, Ops, TInv, RunsInOrder
  <2>2. UndoesWhatRan(t)'
    <3>1. /\ pc[t] = "undo" /\ at[t] \in Nat /\ at[t] >= 1 /\ at[t] <= N
          /\ at'[t] = at[t] - 1
          /\ \A i \in Ops : i <= at[t] => effect[t][i] >= commits[t] + 1
          /\ commits' = commits
      BY <1>1, TransactionAssumption DEF OperationIsUndone, TypeOK, TInv, UndoesWhatRan
    <3>2. ASSUME NEW i \in Ops, i <= at'[t] PROVE effect'[t][i] >= commits[t] + 1
      <4>1. i \in Int /\ i < at[t] /\ i <= at[t]
        BY <3>1, <3>2 DEF Ops
      <4>2. effect'[t][i] = effect[t][i]
        BY <1>2, <4>1
      <4>3. QED
        BY <3>1, <4>1, <4>2
    <3>3. QED
      BY <3>1, <3>2, TransactionAssumption DEF UndoesWhatRan
  <2>3. CommitsLast(t)'
    <3>1. commits' = commits /\ committed' = committed
      BY DEF OperationIsUndone
    <3>2. QED
      BY <1>1, <1>2, <3>1 DEF TInv, CommitsLast
  <2>4. IdleIsNew(t)'
    BY <1>1, <1>2 DEF OperationIsUndone, TypeOK, TInv, IdleIsNew
  <2>5. RecordedIsManaged(t)'
    BY <1>1, <1>2 DEF OperationIsUndone, TypeOK, TInv, RecordedIsManaged
  <2>6. ReportedIsLeft(t)'
    BY <1>1, <1>2 DEF OperationIsUndone, TypeOK, TInv, ReportedIsLeft, Left
  <2>7. QED
    BY <2>1, <2>2, <2>3, <2>4, <2>5, <2>6 DEF TInv
<1>6. QED
  BY <1>3, <1>4, <1>5 DEF IInv

LEMMA AllUndoneKeeps == ASSUME IInv, NEW t \in Txns, AllUndone(t) PROVE IInv'
<1>1. TypeOK /\ TInv(t)
  BY DEF IInv
<1>2. TypeOK'
  BY <1>1, TransactionAssumption DEF AllUndone, txn, history, Ops, TypeOK, Status, Steps
<1>3. ASSUME NEW u \in Txns, u # t PROVE TInv(u)'
  <2>1. Untouched(u)
    BY <1>1, <1>3 DEF AllUndone, txn, history, Untouched, TypeOK
  <2>2. QED
    BY <2>1, UntouchedKeeps DEF IInv
<1>4. TInv(t)'
  <2>1. RunsInOrder(t)'
    BY <1>1, TransactionAssumption DEF AllUndone, txn, history, TypeOK, Ops, TInv, RunsInOrder
  <2>2. UndoesWhatRan(t)'
    BY <1>1, TransactionAssumption DEF AllUndone, txn, history, TypeOK, Ops, TInv, RunsInOrder, UndoesWhatRan
  <2>3. CommitsLast(t)'
    BY <1>1 DEF AllUndone, txn, history, TypeOK, TInv, CommitsLast
  <2>4. IdleIsNew(t)'
    BY <1>1 DEF AllUndone, txn, history, TypeOK, TInv, IdleIsNew
  <2>5. RecordedIsManaged(t)'
    BY <1>1 DEF AllUndone, txn, history, TypeOK, TInv, RecordedIsManaged
  <2>6. ReportedIsLeft(t)'
    BY <1>1 DEF AllUndone, txn, history, TypeOK, TInv, ReportedIsLeft, Left
  <2>7. QED
    BY <2>1, <2>2, <2>3, <2>4, <2>5, <2>6 DEF TInv
<1>5. QED
  BY <1>2, <1>3, <1>4 DEF IInv

LEMMA ReturnsKeeps == ASSUME IInv, NEW t \in Txns, Returns(t) PROVE IInv'
<1>1. TypeOK /\ TInv(t)
  BY DEF IInv
<1>2. TypeOK'
  BY <1>1, TransactionAssumption DEF Returns, txn, history, Ops, TypeOK, Status, Steps
<1>3. ASSUME NEW u \in Txns, u # t PROVE TInv(u)'
  <2>1. Untouched(u)
    BY <1>1, <1>3 DEF Returns, txn, history, Untouched, TypeOK
  <2>2. QED
    BY <2>1, UntouchedKeeps DEF IInv
<1>4. TInv(t)'
  <2>1. RunsInOrder(t)'
    BY <1>1, TransactionAssumption DEF Returns, txn, history, TypeOK, Ops, TInv, RunsInOrder
  <2>2. UndoesWhatRan(t)'
    BY <1>1, TransactionAssumption DEF Returns, txn, history, TypeOK, Ops, TInv, RunsInOrder, UndoesWhatRan
  <2>3. CommitsLast(t)'
    BY <1>1 DEF Returns, txn, history, TypeOK, TInv, CommitsLast
  <2>4. IdleIsNew(t)'
    BY <1>1 DEF Returns, txn, history, TypeOK, TInv, IdleIsNew
  <2>5. RecordedIsManaged(t)'
    BY <1>1 DEF Returns, txn, history, TypeOK, TInv, RecordedIsManaged
  <2>6. ReportedIsLeft(t)'
    BY <1>1 DEF Returns, txn, history, TypeOK, TInv, ReportedIsLeft, Left
  <2>7. QED
    BY <2>1, <2>2, <2>3, <2>4, <2>5, <2>6 DEF TInv
<1>5. QED
  BY <1>2, <1>3, <1>4 DEF IInv

LEMMA ReportsKeeps == ASSUME IInv, NEW t \in Txns, Reports(t) PROVE IInv'
<1>1. TypeOK /\ TInv(t)
  BY DEF IInv
<1>2. Outcome(t) \in Status /\ UpdateStatus(t, Outcome(t))
  BY DEF Reports, Outcome, txn, Status
<1>3. /\ records' \in [Txns -> Status \cup {"none"}]
      /\ journal' \in [Txns -> Status \cup {"none"}]
      /\ faults' \in Nat
      /\ \A u \in Txns : u # t => records'[u] = records[u] /\ journal'[u] = journal[u]
      /\ records[t] = "none" => records'[t] = "none" /\ journal'[t] = journal[t]
      /\ journal'[t] \in {Outcome(t), journal[t]}
  BY <1>1, <1>2, StatusUpdated
<1>4. TypeOK'
  <2>1. pc' \in [Txns -> Steps]
    BY <1>1, <1>3, TransactionAssumption DEF Reports, Outcome, txn, TypeOK, Steps
  <2>2. records' \in [Txns -> Status \cup {"none"}]
    BY <1>1, <1>3, TransactionAssumption DEF Reports, Outcome, txn, TypeOK, Status
  <2>3. journal' \in [Txns -> Status \cup {"none"}]
    BY <1>1, <1>3, TransactionAssumption DEF Reports, Outcome, txn, TypeOK, Status
  <2>4. faults' \in Nat
    BY <1>1, <1>3, TransactionAssumption DEF Reports, Outcome, txn, TypeOK
  <2>5. UNCHANGED <<managed, status, committed, expired, at, erred, inBody, raised, tries, commits, effect, kept, crashes>>
    BY DEF Reports, Outcome, txn
  <2>6. QED
    BY <1>1, <2>1, <2>2, <2>3, <2>4, <2>5 DEF TypeOK
<1>5. ASSUME NEW u \in Txns, u # t PROVE TInv(u)'
  <2>1. Untouched(u)
    BY <1>1, <1>3, <1>5 DEF Reports, Outcome, txn, Untouched, TypeOK
  <2>2. QED
    BY <2>1, UntouchedKeeps DEF IInv
<1>6. TInv(t)'
  <2>1. RunsInOrder(t)'
    BY <1>1, <1>3, TransactionAssumption DEF Reports, Outcome, txn, TypeOK, Ops, TInv, RunsInOrder
  <2>2. UndoesWhatRan(t)'
    BY <1>1, <1>3, TransactionAssumption DEF Reports, Outcome, txn, TypeOK, Ops, TInv, RunsInOrder, UndoesWhatRan
  <2>3. CommitsLast(t)'
    BY <1>1, <1>3 DEF Reports, Outcome, txn, TypeOK, TInv, CommitsLast
  <2>4. IdleIsNew(t)'
    BY <1>1, <1>3 DEF Reports, Outcome, txn, TypeOK, TInv, IdleIsNew
  <2>5. RecordedIsManaged(t)'
    BY <1>1, <1>3 DEF Reports, Outcome, txn, TypeOK, TInv, RecordedIsManaged
  <2>6. ReportedIsLeft(t)'
    BY <1>1, <1>3 DEF Reports, Outcome, txn, TypeOK, TInv, ReportedIsLeft, Left, RecordedIsManaged
  <2>7. QED
    BY <2>1, <2>2, <2>3, <2>4, <2>5, <2>6 DEF TInv
<1>7. QED
  BY <1>4, <1>5, <1>6 DEF IInv

LEMMA IsPoppedKeeps == ASSUME IInv, NEW t \in Txns, IsPopped(t) PROVE IInv'
<1>1. TypeOK /\ TInv(t)
  BY DEF IInv
<1>2. TypeOK'
  BY <1>1, TransactionAssumption DEF IsPopped, txn, history, Ops, TypeOK, Status, Steps
<1>3. ASSUME NEW u \in Txns, u # t PROVE TInv(u)'
  <2>1. Untouched(u)
    BY <1>1, <1>3 DEF IsPopped, txn, history, Untouched, TypeOK
  <2>2. QED
    BY <2>1, UntouchedKeeps DEF IInv
<1>4. TInv(t)'
  <2>1. RunsInOrder(t)'
    BY <1>1, TransactionAssumption DEF IsPopped, txn, history, TypeOK, Ops, TInv, RunsInOrder
  <2>2. UndoesWhatRan(t)'
    BY <1>1, TransactionAssumption DEF IsPopped, txn, history, TypeOK, Ops, TInv, RunsInOrder, UndoesWhatRan
  <2>3. CommitsLast(t)'
    BY <1>1 DEF IsPopped, txn, history, TypeOK, TInv, CommitsLast
  <2>4. IdleIsNew(t)'
    BY <1>1 DEF IsPopped, txn, history, TypeOK, TInv, IdleIsNew
  <2>5. RecordedIsManaged(t)'
    BY <1>1 DEF IsPopped, txn, history, TypeOK, TInv, RecordedIsManaged
  <2>6. ReportedIsLeft(t)'
    BY <1>1 DEF IsPopped, txn, history, TypeOK, TInv, ReportedIsLeft, Left
  <2>7. QED
    BY <2>1, <2>2, <2>3, <2>4, <2>5, <2>6 DEF TInv
<1>5. QED
  BY <1>2, <1>3, <1>4 DEF IInv

LEMMA ExpiresKeeps == ASSUME IInv, NEW t \in Txns, Expires(t) PROVE IInv'
<1>1. TypeOK /\ TInv(t)
  BY DEF IInv
<1>2. TypeOK'
  BY <1>1, TransactionAssumption DEF Expires, history, Ops, TypeOK, Status, Steps
<1>3. ASSUME NEW u \in Txns, u # t PROVE TInv(u)'
  <2>1. Untouched(u)
    BY <1>1, <1>3 DEF Expires, history, Untouched, TypeOK
  <2>2. QED
    BY <2>1, UntouchedKeeps DEF IInv
<1>4. TInv(t)'
  <2>1. RunsInOrder(t)'
    BY <1>1, TransactionAssumption DEF Expires, history, TypeOK, Ops, TInv, RunsInOrder
  <2>2. UndoesWhatRan(t)'
    BY <1>1, TransactionAssumption DEF Expires, history, TypeOK, Ops, TInv, RunsInOrder, UndoesWhatRan
  <2>3. CommitsLast(t)'
    BY <1>1 DEF Expires, history, TypeOK, TInv, CommitsLast
  <2>4. IdleIsNew(t)'
    BY <1>1 DEF Expires, history, TypeOK, TInv, IdleIsNew
  <2>5. RecordedIsManaged(t)'
    BY <1>1 DEF Expires, history, TypeOK, TInv, RecordedIsManaged
  <2>6. ReportedIsLeft(t)'
    BY <1>1 DEF Expires, history, TypeOK, TInv, ReportedIsLeft, Left
  <2>7. QED
    BY <2>1, <2>2, <2>3, <2>4, <2>5, <2>6 DEF TInv
<1>5. QED
  BY <1>2, <1>3, <1>4 DEF IInv

LEMMA CheckTimeoutsKeeps == ASSUME IInv, NEW t \in Txns, CheckTimeouts(t) PROVE IInv'
<1>1. TypeOK /\ TInv(t)
  BY DEF IInv
<1>2. "TIMED_OUT" \in Status /\ UpdateStatus(t, "TIMED_OUT")
  BY DEF CheckTimeouts, Active, Running, Status
<1>3. /\ records' \in [Txns -> Status \cup {"none"}]
      /\ journal' \in [Txns -> Status \cup {"none"}]
      /\ faults' \in Nat
      /\ \A u \in Txns : u # t => records'[u] = records[u] /\ journal'[u] = journal[u]
      /\ records[t] = "none" => records'[t] = "none" /\ journal'[t] = journal[t]
      /\ journal'[t] \in {"TIMED_OUT", journal[t]}
  BY <1>1, <1>2, StatusUpdated
<1>4. TypeOK'
  <2>1. status' \in [Txns -> Status]
    BY <1>1, <1>3, TransactionAssumption DEF CheckTimeouts, Active, Running, TypeOK, Status
  <2>2. records' \in [Txns -> Status \cup {"none"}]
    BY <1>1, <1>3, TransactionAssumption DEF CheckTimeouts, Active, Running, TypeOK, Status
  <2>3. journal' \in [Txns -> Status \cup {"none"}]
    BY <1>1, <1>3, TransactionAssumption DEF CheckTimeouts, Active, Running, TypeOK, Status
  <2>4. faults' \in Nat
    BY <1>1, <1>3, TransactionAssumption DEF CheckTimeouts, Active, Running, TypeOK
  <2>5. UNCHANGED <<pc, managed, committed, expired, at, erred, inBody, raised, tries, commits, effect, kept, crashes>>
    BY DEF CheckTimeouts, Active, Running
  <2>6. QED
    BY <1>1, <2>1, <2>2, <2>3, <2>4, <2>5 DEF TypeOK
<1>5. ASSUME NEW u \in Txns, u # t PROVE TInv(u)'
  <2>1. Untouched(u)
    BY <1>1, <1>3, <1>5 DEF CheckTimeouts, Active, Running, Untouched, TypeOK
  <2>2. QED
    BY <2>1, UntouchedKeeps DEF IInv
<1>6. TInv(t)'
  <2>1. RunsInOrder(t)'
    BY <1>1, <1>3, TransactionAssumption DEF CheckTimeouts, Active, Running, TypeOK, Ops, TInv, RunsInOrder
  <2>2. UndoesWhatRan(t)'
    BY <1>1, <1>3, TransactionAssumption DEF CheckTimeouts, Active, Running, TypeOK, Ops, TInv, RunsInOrder, UndoesWhatRan
  <2>3. CommitsLast(t)'
    BY <1>1, <1>3 DEF CheckTimeouts, Active, Running, TypeOK, TInv, CommitsLast
  <2>4. IdleIsNew(t)'
    BY <1>1, <1>3 DEF CheckTimeouts, Active, Running, TypeOK, TInv, IdleIsNew
  <2>5. RecordedIsManaged(t)'
    BY <1>1, <1>3 DEF CheckTimeouts, Active, Running, TypeOK, TInv, RecordedIsManaged
  <2>6. ReportedIsLeft(t)'
    BY <1>1, <1>3 DEF CheckTimeouts, Active, Running, TypeOK, TInv, ReportedIsLeft, Left
  <2>7. QED
    BY <2>1, <2>2, <2>3, <2>4, <2>5, <2>6 DEF TInv
<1>7. QED
  BY <1>4, <1>5, <1>6 DEF IInv

LEMMA RecoverIncompleteKeeps == ASSUME IInv, NEW t \in Txns, RecoverIncomplete(t) PROVE IInv'
<1>1. TypeOK /\ TInv(t)
  BY DEF IInv
<1>2. "TIMED_OUT" \in Status /\ UpdateStatus(t, "TIMED_OUT")
  BY DEF RecoverIncomplete, txn, Status
<1>3. /\ records' \in [Txns -> Status \cup {"none"}]
      /\ journal' \in [Txns -> Status \cup {"none"}]
      /\ faults' \in Nat
      /\ \A u \in Txns : u # t => records'[u] = records[u] /\ journal'[u] = journal[u]
      /\ records[t] = "none" => records'[t] = "none" /\ journal'[t] = journal[t]
      /\ journal'[t] \in {"TIMED_OUT", journal[t]}
  BY <1>1, <1>2, StatusUpdated
<1>4. TypeOK'
  <2>1. records' \in [Txns -> Status \cup {"none"}]
    BY <1>1, <1>3, TransactionAssumption DEF RecoverIncomplete, txn, TypeOK, Status
  <2>2. journal' \in [Txns -> Status \cup {"none"}]
    BY <1>1, <1>3, TransactionAssumption DEF RecoverIncomplete, txn, TypeOK, Status
  <2>3. faults' \in Nat
    BY <1>1, <1>3, TransactionAssumption DEF RecoverIncomplete, txn, TypeOK
  <2>4. UNCHANGED <<pc, managed, status, committed, expired, at, erred, inBody, raised, tries, commits, effect, kept, crashes>>
    BY DEF RecoverIncomplete, txn
  <2>5. QED
    BY <1>1, <2>1, <2>2, <2>3, <2>4 DEF TypeOK
<1>5. ASSUME NEW u \in Txns, u # t PROVE TInv(u)'
  <2>1. Untouched(u)
    BY <1>1, <1>3, <1>5 DEF RecoverIncomplete, txn, Untouched, TypeOK
  <2>2. QED
    BY <2>1, UntouchedKeeps DEF IInv
<1>6. TInv(t)'
  <2>1. RunsInOrder(t)'
    BY <1>1, <1>3, TransactionAssumption DEF RecoverIncomplete, txn, TypeOK, Ops, TInv, RunsInOrder
  <2>2. UndoesWhatRan(t)'
    BY <1>1, <1>3, TransactionAssumption DEF RecoverIncomplete, txn, TypeOK, Ops, TInv, RunsInOrder, UndoesWhatRan
  <2>3. CommitsLast(t)'
    BY <1>1, <1>3 DEF RecoverIncomplete, txn, TypeOK, TInv, CommitsLast
  <2>4. IdleIsNew(t)'
    BY <1>1, <1>3 DEF RecoverIncomplete, txn, TypeOK, TInv, IdleIsNew
  <2>5. RecordedIsManaged(t)'
    BY <1>1, <1>3 DEF RecoverIncomplete, txn, TypeOK, TInv, RecordedIsManaged
  <2>6. ReportedIsLeft(t)'
    BY <1>1, <1>3 DEF RecoverIncomplete, txn, TypeOK, TInv, ReportedIsLeft, Left
  <2>7. QED
    BY <2>1, <2>2, <2>3, <2>4, <2>5, <2>6 DEF TInv
<1>7. QED
  BY <1>4, <1>5, <1>6 DEF IInv

LEMMA CleanupOldRecordsKeeps == ASSUME IInv, NEW t \in Txns, CleanupOldRecords(t) PROVE IInv'
<1>1. TypeOK /\ TInv(t)
  BY DEF IInv
<1>2. TypeOK'
  BY <1>1, TransactionAssumption DEF CleanupOldRecords, txn, history, Ops, TypeOK, Status, Steps
<1>3. ASSUME NEW u \in Txns, u # t PROVE TInv(u)'
  <2>1. Untouched(u)
    BY <1>1, <1>3 DEF CleanupOldRecords, txn, history, Untouched, TypeOK
  <2>2. QED
    BY <2>1, UntouchedKeeps DEF IInv
<1>4. TInv(t)'
  <2>1. RunsInOrder(t)'
    BY <1>1, TransactionAssumption DEF CleanupOldRecords, txn, history, TypeOK, Ops, TInv, RunsInOrder
  <2>2. UndoesWhatRan(t)'
    BY <1>1, TransactionAssumption DEF CleanupOldRecords, txn, history, TypeOK, Ops, TInv, RunsInOrder, UndoesWhatRan
  <2>3. CommitsLast(t)'
    BY <1>1 DEF CleanupOldRecords, txn, history, TypeOK, TInv, CommitsLast
  <2>4. IdleIsNew(t)'
    BY <1>1 DEF CleanupOldRecords, txn, history, TypeOK, TInv, IdleIsNew
  <2>5. RecordedIsManaged(t)'
    BY <1>1 DEF CleanupOldRecords, txn, history, TypeOK, TInv, RecordedIsManaged
  <2>6. ReportedIsLeft(t)'
    BY <1>1 DEF CleanupOldRecords, txn, history, TypeOK, TInv, ReportedIsLeft, Left
  <2>7. QED
    BY <2>1, <2>2, <2>3, <2>4, <2>5, <2>6 DEF TInv
<1>5. QED
  BY <1>2, <1>3, <1>4 DEF IInv

-----------------------------------------------------------------------------
LEMMA CrashKeeps == ASSUME IInv, Crash PROVE IInv'
<1>1. TypeOK'
  BY DEF Crash, txn, IInv, TypeOK, Status, Steps
<1>2. ASSUME NEW t \in Txns PROVE TInv(t)'
  BY DEF Crash, txn, Running, IInv, TypeOK, Steps, TInv, RunsInOrder, UndoesWhatRan, CommitsLast, IdleIsNew, RecordedIsManaged, ReportedIsLeft, Left
<1>3. QED
  BY <1>1, <1>2 DEF IInv

LEMMA InitIInv == ASSUME Init PROVE IInv
<1>1. TypeOK
  BY TransactionAssumption DEF Init, Ops, TypeOK, Status, Steps
<1>2. ASSUME NEW t \in Txns PROVE TInv(t)
  BY DEF Init, TInv, RunsInOrder, UndoesWhatRan, CommitsLast, IdleIsNew, RecordedIsManaged, ReportedIsLeft, Left
<1>3. QED
  BY <1>1, <1>2 DEF IInv

LEMMA NextKeeps == ASSUME IInv, [Next]_vars PROVE IInv'
<1>1. ASSUME NEW t \in Txns, Thread(t) PROVE IInv'
  BY <1>1, BeginManagedKeeps, BeginDirectKeeps, BodyExecutesKeeps, BodyEndsKeeps,
     BodyRaisesKeeps, OperationRunsKeeps, OperationRaisesKeeps, OperationIsLateKeeps,
     CommitsKeeps, OperationIsUndoneKeeps, AllUndoneKeeps, ReturnsKeeps, ReportsKeeps,
     IsPoppedKeeps DEF Thread
<1>2. ASSUME NEW t \in Txns, Others(t) PROVE IInv'
  BY <1>2, ExpiresKeeps, CheckTimeoutsKeeps, RecoverIncompleteKeeps,
     CleanupOldRecordsKeeps DEF Others
<1>3. CASE UNCHANGED vars
  BY <1>3 DEF vars, txn, history, IInv, TypeOK, TInv, RunsInOrder, UndoesWhatRan, CommitsLast, IdleIsNew, RecordedIsManaged, ReportedIsLeft, Left
<1>4. QED
  BY <1>1, <1>2, <1>3, CrashKeeps DEF Next

THEOREM Invariant == Spec => []IInv
<1>1. Init => IInv
  BY InitIInv
<1>2. IInv /\ [Next]_vars => IInv'
  BY NextKeeps
<1>3. QED
  BY <1>1, <1>2, PTL DEF Spec

(* Every variable keeps its type: in particular no operation is undone more *)
(* often than it was executed (execute(), _rollback_operations()).          *)
THEOREM TypeCorrect == Spec => []TypeOK
<1>1. IInv => TypeOK
  BY DEF IInv
<1>2. QED
  BY <1>1, Invariant, PTL

(* The journal says COMMITTED only of a managed transaction whose           *)
(* operations are all in effect, and FAILED of a committed one only if the  *)
(* body raised (TransactionManager.transaction()).                          *)
THEOREM JournalCorrect == Spec => []JournalTellsTruth
<1>1. IInv => JournalTellsTruth
  <2>1. ASSUME IInv, NEW t \in Txns, committed[t], NEW i \in Ops PROVE effect[t][i] >= 1
    <3>1. effect[t][i] \in Nat /\ commits[t] \in Nat
      BY <2>1 DEF IInv, TypeOK
    <3>2. effect[t][i] >= commits[t] /\ commits[t] >= 1
      BY <2>1 DEF IInv, TInv, CommitsLast
    <3>3. QED
      BY <3>1, <3>2
  <2>2. QED
    BY <2>1 DEF IInv, TInv, ReportedIsLeft, JournalTellsTruth
<1>2. QED
  BY <1>1, Invariant, PTL

-----------------------------------------------------------------------------
(* All or nothing.  Call by call, for every operation of a transaction t.   *)

(* executed by the call under way, and not yet undone *)
Here(t, i) == (pc[t] = "run" /\ i < at[t]) \/ (pc[t] = "undo" /\ i <= at[t])

(* an operation that is always undone *)
Exact(t) ==
    pc[t] # "dead" => \A i \in Undoable \ (kept[t] \cup erred[t]) :
        effect[t][i] = IF Here(t, i) THEN commits[t] + 1 ELSE commits[t]

(* A call executes an operation at most once, and not at all if it fails. *)
OncePerCall(t) ==
    \A i \in Ops :
        /\ effect[t][i] <= tries[t]
        /\ i \in erred[t] => effect[t][i] + 1 <= tries[t]
        /\ pc[t] = "run" /\ i >= at[t] =>
              /\ effect[t][i] + 1 <= tries[t]
              /\ i \in erred[t] => effect[t][i] + 2 <= tries[t]

AInv(t) == Exact(t) /\ OncePerCall(t)

(* what the invariant reads of t besides pc stays as it is *)
Same(t) ==
    /\ commits'[t] = commits[t] /\ at'[t] = at[t] /\ erred'[t] = erred[t]
    /\ tries'[t] = tries[t] /\ effect'[t] = effect[t] /\ kept'[t] = kept[t]

Still(t) == Same(t) /\ pc'[t] = pc[t]

LEMMA StillKeeps == ASSUME NEW t \in Txns, AInv(t), Still(t) PROVE AInv(t)'
  BY DEF Still, Same, AInv, Exact, Here, OncePerCall

(* between two calls, or dead: nothing is under way *)
Between == {"idle", "body", "exit", "report", "leave", "over"}

LEMMA BetweenKeeps ==
  ASSUME NEW t \in Txns, AInv(t), Same(t),
         (pc[t] \in Between /\ pc'[t] \in Between) \/ pc'[t] = "dead"
  PROVE  AInv(t)'
  BY DEF Same, AInv, Exact, Here, OncePerCall, Between

LEMMA Typed ==
  ASSUME IInv, NEW t \in Txns, NEW i \in Ops
  PROVE  /\ effect[t][i] \in Nat /\ commits[t] \in Nat /\ tries[t] \in Nat
         /\ i \in Int /\ i >= 1 /\ at[t] \in Int
  BY TransactionAssumption DEF IInv, TypeOK, Ops

(* execute() begins: one call more, which has executed nothing yet. *)
LEMMA ExecuteKeeps ==
  ASSUME IInv, NEW t \in Txns, AInv(t), Execute(t), pc[t] \in Between,
         UNCHANGED <<commits, erred, effect, kept>>
  PROVE  AInv(t)'
<1>1. tries'[t] = tries[t] + 1 /\ at'[t] = 1 /\ pc'[t] \in {"run", "exit"}
  <2>1. TypeOK
    BY DEF IInv
  <2>2. tries'[t] = tries[t] + 1
    BY <2>1 DEF Execute, TypeOK
  <2>3. at'[t] = 1
    BY <2>1 DEF Execute, TypeOK
  <2>4. pc'[t] \in {"run", "exit"}
    BY <2>1 DEF Execute, TypeOK
  <2> QED
    BY <2>2, <2>3, <2>4
<1>2. Exact(t)'
  <2> SUFFICES ASSUME NEW i \in Undoable \ (kept[t] \cup erred[t])
               PROVE  effect[t][i] = (IF Here(t, i)' THEN commits[t] + 1 ELSE commits[t])
    BY DEF Exact
  <2>1. ~Here(t, i)
    BY DEF Here, Between
  <2>2. effect[t][i] = commits[t]
    BY <2>1 DEF AInv, Exact, Between
  <2>3. ~(i < 1)
    BY Typed, TransactionAssumption
  <2>4. ~Here(t, i)'
    BY <1>1, <2>3 DEF Here
  <2> QED
    BY <2>2, <2>4
<1>3. OncePerCall(t)'
  <2> SUFFICES ASSUME NEW i \in Ops
               PROVE  /\ effect[t][i] + 1 <= tries'[t]
                      /\ i \in erred[t] => effect[t][i] + 2 <= tries'[t]
    BY <1>1, Typed DEF OncePerCall
  <2> QED
    BY <1>1, Typed DEF AInv, OncePerCall
<1> QED
  BY <1>2, <1>3 DEF AInv

(* pc'[t] after a step of t that sets it *)
LEMMA PcSet ==
  ASSUME IInv, NEW t \in Txns, NEW s, pc' = [pc EXCEPT ![t] = s]
  PROVE  pc'[t] = s
  BY DEF IInv, TypeOK

LEMMA BodyCounts ==
  ASSUME IInv, NEW t \in Txns, AInv(t), BodyExecutes(t) \/ BodyEnds(t) \/ BodyRaises(t)
  PROVE  AInv(t)'
<1>1. pc[t] \in Between /\ UNCHANGED <<commits, erred, effect, kept>>
  BY DEF BodyExecutes, BodyEnds, BodyRaises, InBody, Between
<1>2. CASE Execute(t)
  BY <1>1, <1>2, ExecuteKeeps
<1>3. CASE ~Execute(t)
  <2>1. UNCHANGED <<tries, at>>
    BY <1>3 DEF BodyExecutes, BodyEnds, BodyRaises
  <2>2. pc'[t] \in {"leave", "report"}
    BY <1>3, PcSet DEF BodyExecutes, BodyEnds, BodyRaises
  <2>3. Same(t)
    BY <1>1, <2>1 DEF Same
  <2> QED
    BY <1>1, <2>2, <2>3, BetweenKeeps DEF Between
<1> QED
  BY <1>2, <1>3

LEMMA OperationRunsCounts ==
  ASSUME IInv, NEW t \in Txns, AInv(t), OperationRuns(t)
  PROVE  AInv(t)'
<1>1. /\ pc[t] = "run" /\ pc' = pc /\ at[t] \in Ops
      /\ UNCHANGED <<commits, erred, tries, kept>>
  BY TransactionAssumption DEF OperationRuns, IInv, TypeOK, TInv, RunsInOrder, Ops
<1>2. at'[t] = at[t] + 1
  BY DEF OperationRuns, IInv, TypeOK
<1>3. \A i \in Ops : effect'[t][i] = IF i = at[t] THEN effect[t][i] + 1 ELSE effect[t][i]
  BY <1>1 DEF OperationRuns, IInv, TypeOK
<1>4. Exact(t)'
  <2> SUFFICES ASSUME NEW i \in Undoable \ (kept[t] \cup erred[t])
               PROVE  effect'[t][i] = (IF i < at[t] + 1 THEN commits[t] + 1 ELSE commits[t])
    BY <1>1, <1>2 DEF Exact, Here
  <2>1. i \in Ops
    BY TransactionAssumption
  <2>2. effect[t][i] = IF i < at[t] THEN commits[t] + 1 ELSE commits[t]
    BY <1>1 DEF AInv, Exact, Here
  <2> QED
    BY <2>1, <2>2, <1>3, Typed
<1>5. OncePerCall(t)'
  <2> SUFFICES ASSUME NEW i \in Ops
               PROVE  /\ effect'[t][i] <= tries[t]
                      /\ i \in erred[t] => effect'[t][i] + 1 <= tries[t]
                      /\ i >= at[t] + 1 =>
                            /\ effect'[t][i] + 1 <= tries[t]
                            /\ i \in erred[t] => effect'[t][i] + 2 <= tries[t]
    BY <1>1, <1>2 DEF OncePerCall
  <2>1. /\ effect[t][i] <= tries[t]
        /\ i \in erred[t] => effect[t][i] + 1 <= tries[t]
        /\ i >= at[t] =>
              /\ effect[t][i] + 1 <= tries[t]
              /\ i \in erred[t] => effect[t][i] + 2 <= tries[t]
    BY <1>1 DEF AInv, OncePerCall
  <2> QED
    BY <2>1, <1>3, Typed
<1> QED
  BY <1>4, <1>5 DEF AInv

(* An operation fails, or comes too late: those before it are to be undone. *)
LEMMA FailsCounts ==
  ASSUME IInv, NEW t \in Txns, AInv(t), pc[t] = "run", at[t] <= N, Fails(t),
         UNCHANGED <<commits, tries, effect, kept>>,
         erred'[t] \in {erred[t], erred[t] \cup {at[t]}}
  PROVE  AInv(t)'
<1>1. pc'[t] = "undo" /\ at'[t] = at[t] - 1 /\ at[t] \in Ops
  BY TransactionAssumption DEF Fails, FirstToUndo, IInv, TypeOK, TInv, RunsInOrder, Ops
<1>2. Exact(t)'
  <2> SUFFICES ASSUME NEW i \in Undoable \ (kept[t] \cup erred[t])
               PROVE  effect[t][i] = (IF i <= at[t] - 1 THEN commits[t] + 1 ELSE commits[t])
    BY <1>1 DEF Exact, Here
  <2>1. effect[t][i] = IF i < at[t] THEN commits[t] + 1 ELSE commits[t]
    BY DEF AInv, Exact, Here
  <2>2. i \in Ops
    BY TransactionAssumption
  <2> QED
    BY <2>1, <2>2, Typed
<1>3. OncePerCall(t)'
  <2> SUFFICES ASSUME NEW i \in Ops
               PROVE  effect[t][i] <= tries[t] /\ (i \in erred'[t] => effect[t][i] + 1 <= tries[t])
    BY <1>1 DEF OncePerCall
  <2> QED
    BY <1>1, Typed DEF AInv, OncePerCall
<1> QED
  BY <1>2, <1>3 DEF AInv

LEMMA FailureCounts ==
  ASSUME IInv, NEW t \in Txns, AInv(t), OperationRaises(t) \/ OperationIsLate(t)
  PROVE  AInv(t)'
<1>1. erred'[t] \in {erred[t], erred[t] \cup {at[t]}}
  BY DEF OperationRaises, OperationIsLate, IInv, TypeOK
<1> QED
  BY <1>1, FailsCounts DEF OperationRaises, OperationIsLate, history

LEMMA CommitsCounts ==
  ASSUME IInv, NEW t \in Txns, AInv(t), Commits(t)
  PROVE  AInv(t)'
<1>1. /\ pc[t] = "run" /\ at[t] = N + 1 /\ pc'[t] = "exit" /\ commits'[t] = commits[t] + 1
      /\ UNCHANGED <<erred, tries, effect, kept>>
  BY DEF Commits, IInv, TypeOK
<1>2. \A i \in Undoable : i < N + 1
  BY TransactionAssumption DEF Ops
<1>3. Exact(t)'
  BY <1>1, <1>2 DEF AInv, Exact, Here
<1>4. OncePerCall(t)'
  BY <1>1 DEF AInv, OncePerCall
<1> QED
  BY <1>3, <1>4 DEF AInv

LEMMA UndoneCounts ==
  ASSUME IInv, NEW t \in Txns, AInv(t), OperationIsUndone(t)
  PROVE  AInv(t)'
<1>1. /\ pc[t] = "undo" /\ pc' = pc /\ at[t] \in Ops
      /\ UNCHANGED <<commits, erred, tries>>
  BY TransactionAssumption DEF OperationIsUndone, IInv, TypeOK, TInv, UndoesWhatRan, Ops
<1>2. at'[t] = at[t] - 1
  BY DEF OperationIsUndone, IInv, TypeOK
<1>3. \/ /\ kept' = kept
         /\ \A i \in Ops : effect'[t][i] = IF i = at[t] /\ Undoes(t, i) THEN effect[t][i] - 1 ELSE effect[t][i]
      \/ effect' = effect /\ kept'[t] = kept[t] \cup {at[t]}
  BY <1>1 DEF OperationIsUndone, IInv, TypeOK
<1>4. Exact(t)'
  <2> SUFFICES ASSUME NEW i \in Undoable \ (kept'[t] \cup erred[t])
               PROVE  effect'[t][i] = (IF i <= at[t] - 1 THEN commits[t] + 1 ELSE commits[t])
    BY <1>1, <1>2 DEF Exact, Here
  <2>1. i \in Ops
    BY TransactionAssumption
  <2>2. i \in Undoable \ (kept[t] \cup erred[t])
    BY <1>3
  <2>3. effect[t][i] = IF i <= at[t] THEN commits[t] + 1 ELSE commits[t]
    BY <1>1, <2>2 DEF AInv, Exact, Here
  <2>4. effect'[t][i] = IF i = at[t] THEN effect[t][i] - 1 ELSE effect[t][i]
    BY <1>3, <2>1 DEF Undoes
  <2> QED
    BY <2>1, <2>3, <2>4, Typed
<1>5. OncePerCall(t)'
  <2> SUFFICES ASSUME NEW i \in Ops
               PROVE  effect'[t][i] <= tries[t] /\ (i \in erred[t] => effect'[t][i] + 1 <= tries[t])
    BY <1>1 DEF OncePerCall
  <2>1. effect'[t][i] \in {effect[t][i], effect[t][i] - 1}
    BY <1>3
  <2>2. effect[t][i] <= tries[t] /\ (i \in erred[t] => effect[t][i] + 1 <= tries[t])
    BY DEF AInv, OncePerCall
  <2> QED
    BY <2>1, <2>2, Typed
<1> QED
  BY <1>4, <1>5 DEF AInv

LEMMA AllUndoneCounts ==
  ASSUME IInv, NEW t \in Txns, AInv(t), AllUndone(t)
  PROVE  AInv(t)'
<1>1. /\ pc[t] = "undo" /\ at[t] = 0 /\ pc'[t] = "exit"
      /\ UNCHANGED <<commits, erred, tries, effect, kept>>
  BY DEF AllUndone, txn, history, IInv, TypeOK
<1>2. \A i \in Undoable : ~(i <= 0)
  BY TransactionAssumption DEF Ops
<1>3. Exact(t)'
  BY <1>1, <1>2 DEF AInv, Exact, Here
<1>4. OncePerCall(t)'
  BY <1>1 DEF AInv, OncePerCall
<1> QED
  BY <1>3, <1>4 DEF AInv

LEMMA OutsideCounts ==
  ASSUME IInv, NEW t \in Txns, AInv(t),
         BeginManaged(t) \/ BeginDirect(t) \/ Returns(t) \/ Reports(t) \/ IsPopped(t)
  PROVE  AInv(t)'
<1>1. Same(t)
  BY DEF Same, BeginManaged, BeginDirect, Returns, Reports, IsPopped, txn, history
<1>2. pc[t] \in Between /\ pc'[t] \in Between
  BY DEF BeginManaged, BeginDirect, Returns, Reports, IsPopped, IInv, TypeOK, Between
<1> QED
  BY <1>1, <1>2, BetweenKeeps

(* a step of one transaction, or about it, leaves the others alone *)
LEMMA ThreadIsAlone ==
  ASSUME IInv, NEW t \in Txns, Thread(t), NEW u \in Txns, u # t
  PROVE  Still(u)
<1>1. TypeOK
  BY DEF IInv
<1>2. CASE BeginManaged(t) \/ BeginDirect(t)
  BY <1>1, <1>2 DEF BeginManaged, BeginDirect, txn, history, Still, Same, TypeOK
<1>3. CASE BodyExecutes(t) \/ BodyEnds(t) \/ BodyRaises(t)
  BY <1>1, <1>3 DEF BodyExecutes, BodyEnds, BodyRaises, Execute, Still, Same, TypeOK
<1>4. CASE OperationRuns(t) \/ Commits(t) \/ AllUndone(t)
  BY <1>1, <1>4 DEF OperationRuns, Commits, AllUndone, txn, history, Still, Same, TypeOK
<1>5. CASE OperationRaises(t) \/ OperationIsLate(t)
  BY <1>1, <1>5 DEF OperationRaises, OperationIsLate, Fails, history, Still, Same, TypeOK
<1>6. CASE OperationIsUndone(t)
  BY <1>1, <1>6 DEF OperationIsUndone, Still, Same, TypeOK
<1>7. CASE Returns(t) \/ Reports(t) \/ IsPopped(t)
  BY <1>1, <1>7 DEF Returns, Reports, IsPopped, txn, history, Still, Same, TypeOK
<1> QED
  BY <1>2, <1>3, <1>4, <1>5, <1>6, <1>7 DEF Thread

LEMMA ThreadCounts ==
  ASSUME IInv, NEW t \in Txns, AInv(t), Thread(t)
  PROVE  AInv(t)'
  BY BodyCounts, OperationRunsCounts, FailureCounts, CommitsCounts, UndoneCounts,
     AllUndoneCounts, OutsideCounts DEF Thread

LEMMA OthersLeaveAlone ==
  ASSUME IInv, NEW t \in Txns, Others(t), NEW u \in Txns
  PROVE  Still(u)
  BY DEF Others, Expires, CheckTimeouts, RecoverIncomplete, CleanupOldRecords, txn, history, Still, Same

LEMMA CrashCounts ==
  ASSUME NEW t \in Txns, AInv(t), Crash
  PROVE  AInv(t)'
<1>1. Same(t) /\ pc'[t] = IF Running(t) THEN "dead" ELSE pc[t]
  BY DEF Crash, txn, Same
<1>2. CASE Running(t)
  BY <1>1, <1>2, BetweenKeeps
<1>3. CASE ~Running(t)
  BY <1>1, <1>3, StillKeeps DEF Still
<1> QED
  BY <1>2, <1>3

LEMMA CountsInit ==
  ASSUME Init
  PROVE  \A t \in Txns : AInv(t)
<1> SUFFICES ASSUME NEW t \in Txns PROVE AInv(t)
  OBVIOUS
<1>1. /\ pc[t] = "idle" /\ tries[t] = 0 /\ commits[t] = 0 /\ erred[t] = {}
      /\ \A i \in Ops : effect[t][i] = 0
  BY DEF Init
<1>2. Exact(t)
  BY <1>1, TransactionAssumption DEF Exact, Here
<1>3. OncePerCall(t)
  BY <1>1 DEF OncePerCall
<1> QED
  BY <1>2, <1>3 DEF AInv

LEMMA CountsNext ==
  ASSUME IInv, \A t \in Txns : AInv(t), [Next]_vars
  PROVE  \A t \in Txns : AInv(t)'
<1>1. ASSUME NEW t \in Txns, Thread(t), NEW u \in Txns PROVE AInv(u)'
  <2>1. CASE u = t
    BY <1>1, <2>1, ThreadCounts
  <2>2. CASE u # t
    BY <1>1, <2>2, ThreadIsAlone, StillKeeps
  <2> QED
    BY <2>1, <2>2
<1>2. ASSUME NEW t \in Txns, Others(t), NEW u \in Txns PROVE AInv(u)'
  BY <1>2, OthersLeaveAlone, StillKeeps
<1>3. ASSUME UNCHANGED vars, NEW u \in Txns PROVE AInv(u)'
  BY <1>3, StillKeeps DEF vars, txn, history, Still, Same
<1> QED
  BY <1>1, <1>2, <1>3, CrashCounts DEF Next

(* "All operations committed or all rolled back", call by call, however     *)
(* often the body calls execute(): what can be undone is in effect once for *)
(* every call that committed, but for failed rollbacks and for operations   *)
(* that failed in some call (StateTransaction, __exit__()).                 *)
THEOREM AllOrNone == Spec => []AllOrNothing
<1> DEFINE Counts == \A t \in Txns : AInv(t)
<1>1. Init => Counts
  BY CountsInit
<1>2. IInv /\ Counts /\ [Next]_vars => Counts'
  BY CountsNext
<1>3. IInv /\ Counts => AllOrNothing
  <2> SUFFICES ASSUME IInv, Counts, NEW t \in Txns, NEW i \in Ops,
                      pc[t] \notin {"run", "undo", "dead"}
               PROVE  /\ effect[t][i] >= commits[t]
                      /\ i \in Undoable \ (kept[t] \cup erred[t]) => effect[t][i] = commits[t]
                      /\ i \in erred[t] => effect[t][i] < tries[t]
    BY DEF AllOrNothing
  <2>1. effect[t][i] >= commits[t]
    BY DEF IInv, TInv, CommitsLast
  <2>2. i \in Undoable \ (kept[t] \cup erred[t]) => effect[t][i] = commits[t]
    BY DEF AInv, Exact, Here
  <2>3. i \in erred[t] => effect[t][i] < tries[t]
    BY Typed DEF AInv, OncePerCall
  <2> QED
    BY <2>1, <2>2, <2>3
<1> HIDE DEF Counts
<1> QED
  BY <1>1, <1>2, <1>3, Invariant, PTL DEF Spec
=============================================================================
