---------------------- MODULE OrderStateStore_proofs ----------------------
(***************************************************************************)
(* Proofs about OrderStateStore for every value of its constants.          *)
(***************************************************************************)
EXTENDS OrderStateStore, TLAPS

(* The steps that commit, and the types of what they commit. *)
LEMMA CommitType ==
  ASSUME TypeOK, NEW p \in Proc, NEW records \in Records, NEW after \in Place,
         Commit(p, records, after)
  PROVE  orders' \in Records /\ snap' \in [Proc -> Records] /\ pc' \in [Proc -> Place]
  BY DEF TypeOK, Commit, Goto

LEMMA GotoType ==
  ASSUME TypeOK, NEW p \in Proc, NEW place \in Place, Goto(p, place)
  PROVE  pc' \in [Proc -> Place]
  BY DEF TypeOK, Goto

LEMMA StatusType ==
  ASSUME TypeOK, NEW o \in Id, NEW status \in Status
  PROVE  [orders EXCEPT ![o] = status] \in Records
  BY DEF TypeOK, Records

LEMMA SetStatusType ==
  ASSUME TypeOK, NEW p \in Proc, NEW o \in Id, NEW status \in Status,
         NEW after \in Place, NEW otherwise \in Place,
         SetStatus(p, o, status, after, otherwise)
  PROVE  orders' \in Records /\ snap' \in [Proc -> Records] /\ pc' \in [Proc -> Place]
<1>1. CASE o \in Known
  BY <1>1, StatusType, CommitType DEF SetStatus
<1>2. CASE o \notin Known
  BY <1>2, GotoType DEF SetStatus, TypeOK
<1> QED
  BY <1>1, <1>2

LEMMA AfterSavePlace ==
  ASSUME NEW p \in Proc, Saving(p)
  PROVE  AfterSave(p) \in {"idle", "check", "append"}
  BY DEF Saving, AfterSave

LEMMA NoRecordsType == NoRecords \in Records
  BY DEF NoRecords, Records

LEMMA LoopIsProc == Loop \in Proc
  BY DEF Proc

LEMMA FoundStatus ==
  ASSUME NEW o \in Id
  PROVE  Found(o) \in Status \cup {"REJECTED", None}
  BY DEF Found, Status, OpenStatus, PruneStatus

LEMMA VerdictStatus ==
  ASSUME NEW status
  PROVE  Verdict(status) \in Status
  BY DEF Verdict, Status, OpenStatus, PruneStatus

-----------------------------------------------------------------------------
(* Type correctness, action by action *)

LEMMA TypeReconcile ==
  ASSUME TypeOK, Reconcile, overlap' \in BOOLEAN
  PROVE  TypeOK'
<1> USE LoopIsProc
<1>1. CASE ReconcileStart
  <2>1. loc' \in [Id -> OpenStatus \cup {None}]
    BY <1>1 DEF ReconcileStart, LocalOpen
  <2>2. pc' \in [Proc -> Place]
    BY <1>1, GotoType DEF ReconcileStart, Place
  <2> QED
    BY <1>1, <2>1, <2>2 DEF ReconcileStart, TypeOK, disk
<1>2. CASE FetchOpen
  <2>1. pc' \in [Proc -> Place]
    BY <1>2, GotoType DEF FetchOpen, Place
  <2>2. listed' \in SUBSET Id /\ failed' \in SUBSET Faults
    BY <1>2 DEF FetchOpen, TypeOK, Fail
  <2> QED
    BY <1>2, <2>1, <2>2 DEF FetchOpen, TypeOK, disk
<1>3. ASSUME NEW o \in Id, CheckListed(o) PROVE TypeOK'
  <2>1. orders' \in Records /\ snap' \in [Proc -> Records] /\ pc' \in [Proc -> Place]
    <3>1. CASE loc[o] # "OPEN"
      <4>1. SetStatus(Loop, o, "OPEN", "saveThenCheck", "check")
        BY <1>3, <3>1 DEF CheckListed
      <4> QED
        BY <4>1, SetStatusType DEF Status, OpenStatus, Place
    <3>2. CASE loc[o] = "OPEN"
      BY <1>3, <3>2 DEF CheckListed, TypeOK
    <3> QED
      BY <3>1, <3>2
  <2>2. loc' \in [Id -> OpenStatus \cup {None}]
    BY <1>3 DEF CheckListed, Checked, TypeOK
  <2> QED
    BY <1>3, <2>1, <2>2 DEF CheckListed, TypeOK, disk
<1>4. ASSUME NEW o \in Id, LookUp(o) PROVE TypeOK'
  <2>1. pc' \in [Proc -> Place]
    BY <1>4, GotoType DEF LookUp, Place
  <2>2. verified' \in [id : SUBSET Id, status : Status \cup {"REJECTED", None}]
    BY <1>4, FoundStatus DEF LookUp
  <2>3. failed' \in SUBSET Faults
    BY <1>4 DEF LookUp, TypeOK, Fail
  <2> QED
    BY <1>4, <2>1, <2>2, <2>3 DEF LookUp, TypeOK, disk
<1>5. CASE Settle
  <2>1. PICK o \in verified.id :
            /\ SetStatus(Loop, o, Verdict(verified.status), "saveThenCheck", "check")
            /\ Checked(o)
    BY <1>5 DEF Settle
  <2>2. o \in Id
    BY <2>1 DEF TypeOK
  <2>3. orders' \in Records /\ snap' \in [Proc -> Records] /\ pc' \in [Proc -> Place]
    BY <2>1, <2>2, VerdictStatus, SetStatusType DEF Place
  <2>4. loc' \in [Id -> OpenStatus \cup {None}]
    BY <2>1, <2>2 DEF Checked, TypeOK
  <2>5. verified' \in [id : SUBSET Id, status : Status \cup {None}]
    BY <1>5 DEF Settle, NoOrder
  <2> QED
    BY <1>5, <2>3, <2>4, <2>5 DEF Settle, TypeOK, disk
<1>6. CASE ReconcileEnd
  <2>1. pc' \in [Proc -> Place]
    BY <1>6, GotoType DEF ReconcileEnd, Place
  <2> QED
    BY <1>6, <2>1 DEF ReconcileEnd, TypeOK, disk
<1> QED
  BY <1>1, <1>2, <1>3, <1>4, <1>5, <1>6 DEF Reconcile

LEMMA TypeRecords ==
  ASSUME TypeOK, RecordsChange, overlap' \in BOOLEAN
  PROVE  TypeOK'
<1> USE LoopIsProc
<1>1. ASSUME NEW p \in {Loop} \cup Web, NEW o \in Id, AddOrder(p, o) PROVE TypeOK'
  <2>1. p \in Proc
    BY DEF Proc
  <2>2. orders' \in Records /\ snap' \in [Proc -> Records] /\ pc' \in [Proc -> Place]
    BY <1>1, <2>1, StatusType, CommitType DEF AddOrder, Status, OpenStatus, Place
  <2>3. exch' \in [Id -> OnExchange]
    BY <1>1 DEF AddOrder, TypeOK, OnExchange
  <2> QED
    BY <1>1, <2>2, <2>3 DEF AddOrder, TypeOK, disk
<1>2. ASSUME NEW o \in Id, RecordFill(o) PROVE TypeOK'
  <2>1. orders' \in Records /\ snap' \in [Proc -> Records] /\ pc' \in [Proc -> Place]
    BY <1>2, StatusType, CommitType DEF RecordFill, Status, PruneStatus, Place
  <2> QED
    BY <1>2, <2>1 DEF RecordFill, TypeOK, disk
<1>3. ASSUME NEW w \in Web, NEW o \in Id, SendCancel(w, o) PROVE TypeOK'
  <2>1. w \in Proc
    BY DEF Proc
  <2>2. pc' \in [Proc -> Place]
    BY <1>3, <2>1, GotoType DEF SendCancel, Place
  <2>3. exch' \in [Id -> OnExchange] /\ batch' \in [Proc -> SUBSET Id]
    BY <1>3 DEF SendCancel, TypeOK, OnExchange
  <2> QED
    BY <1>3, <2>2, <2>3 DEF SendCancel, TypeOK, disk
<1>4. ASSUME NEW w \in Web, RecordCancel(w) PROVE TypeOK'
  <2>1. w \in Proc
    BY DEF Proc
  <2>2. PICK o \in batch[w] : SetStatus(w, o, "CANCELLED", "save", "idle")
    BY <1>4 DEF RecordCancel
  <2>3. o \in Id
    BY <2>1, <2>2 DEF TypeOK
  <2>4. orders' \in Records /\ snap' \in [Proc -> Records] /\ pc' \in [Proc -> Place]
    BY <2>1, <2>2, <2>3, SetStatusType DEF Status, PruneStatus, Place
  <2>5. batch' \in [Proc -> SUBSET Id]
    BY <1>4 DEF RecordCancel, TypeOK
  <2> QED
    BY <1>4, <2>4, <2>5 DEF RecordCancel, TypeOK, disk
<1>5. ASSUME NEW p \in Pruner, PruneArchive(p) PROVE TypeOK'
  <2>1. p \in Proc
    BY DEF Proc
  <2>2. PICK old \in SUBSET Prunable : /\ batch' = [batch EXCEPT ![p] = old]
                                       /\ Commit(p, Kept(old), "saveThenAppend")
    BY <1>5 DEF PruneArchive
  <2>3. Kept(old) \in Records
    BY DEF Kept, Records, TypeOK
  <2>4. orders' \in Records /\ snap' \in [Proc -> Records] /\ pc' \in [Proc -> Place]
    BY <2>1, <2>2, <2>3, CommitType DEF Place
  <2>5. batch' \in [Proc -> SUBSET Id]
    BY <2>2 DEF TypeOK, Prunable
  <2> QED
    BY <1>5, <2>4, <2>5 DEF PruneArchive, TypeOK, disk
<1> QED
  BY <1>1, <1>2, <1>3, <1>4, <1>5 DEF RecordsChange

LEMMA TypeFiles ==
  ASSUME TypeOK, FilesChange, overlap' \in BOOLEAN
  PROVE  TypeOK'
<1>1. ASSUME NEW p \in Proc, SaveSync(p) PROVE TypeOK'
  <2>1. pc' \in [Proc -> Place]
    BY <1>1, AfterSavePlace, GotoType DEF SaveSync, Place
  <2>2. file' \in Records /\ failed' \in SUBSET Faults
    BY <1>1 DEF SaveSync, TypeOK, Fail
  <2>3. snap' \in [Proc -> Records]
    BY <1>1, NoRecordsType DEF SaveSync, TypeOK
  <2> QED
    BY <1>1, <2>1, <2>2, <2>3 DEF SaveSync, TypeOK
<1>2. ASSUME NEW p \in Proc, ReadArchive(p) PROVE TypeOK'
  <2>1. pc' \in [Proc -> Place]
    BY <1>2, GotoType DEF ReadArchive, Place
  <2> QED
    BY <1>2, <2>1 DEF ReadArchive, TypeOK, disk
<1>3. ASSUME NEW p \in Proc, ReplaceArchive(p) PROVE TypeOK'
  <2>1. pc' \in [Proc -> Place]
    BY <1>3, GotoType DEF ReplaceArchive, Place
  <2>2. archive' \in SUBSET Id /\ failed' \in SUBSET Faults
    BY <1>3 DEF ReplaceArchive, TypeOK, Fail
  <2>3. batch' \in [Proc -> SUBSET Id] /\ seen' \in [Proc -> SUBSET Id]
    BY <1>3 DEF ReplaceArchive, TypeOK
  <2> QED
    BY <1>3, <2>1, <2>2, <2>3 DEF ReplaceArchive, TypeOK
<1> QED
  BY <1>1, <1>2, <1>3 DEF FilesChange

LEMMA TypeOutside ==
  ASSUME TypeOK, Outside, overlap' \in BOOLEAN
  PROVE  TypeOK'
<1>1. CASE Crash
  <2>1. pc' \in [Proc -> Place] /\ snap' \in [Proc -> Records]
    BY <1>1, NoRecordsType DEF Crash, AllProc, Place
  <2>2. batch' \in [Proc -> SUBSET Id] /\ seen' \in [Proc -> SUBSET Id] /\ listed' \in SUBSET Id
    BY <1>1 DEF Crash, AllProc
  <2>3. loc' \in [Id -> OpenStatus \cup {None}]
    BY <1>1 DEF Crash, NoRecords
  <2>4. verified' \in [id : SUBSET Id, status : Status \cup {None}]
    BY <1>1 DEF Crash, NoOrder
  <2>5. orders' \in Records /\ failed' \in SUBSET Faults
    BY <1>1 DEF Crash, Fail, TypeOK
  <2> QED
    BY <1>1, <2>1, <2>2, <2>3, <2>4, <2>5 DEF Crash, TypeOK, disk
<1>2. ASSUME NEW o \in Id, ExchangeFills(o) \/ ExchangeRejects(o) PROVE TypeOK'
  BY <1>2 DEF ExchangeFills, ExchangeRejects, TypeOK, OnExchange, disk, tasks
<1> QED
  BY <1>1, <1>2 DEF Outside

LEMMA ObservedType ==
  ASSUME TypeOK, Observe
  PROVE  overlap' \in BOOLEAN
  BY DEF TypeOK, Observe

LEMMA TypeInit == Init => TypeOK
<1> SUFFICES ASSUME Init PROVE TypeOK
  OBVIOUS
<1>1. exch \in [Id -> OnExchange] /\ loc \in [Id -> OpenStatus \cup {None}]
  BY DEF Init, OnExchange, NoRecords
<1>2. orders \in Records /\ file \in Records /\ snap \in [Proc -> Records]
  BY NoRecordsType DEF Init, AllProc
<1>3. pc \in [Proc -> Place]
  BY DEF Init, AllProc, Place
<1>4. batch \in [Proc -> SUBSET Id] /\ seen \in [Proc -> SUBSET Id]
  BY DEF Init, AllProc
<1>5. /\ archive \in SUBSET Id
      /\ listed \in SUBSET Id
      /\ verified \in [id : SUBSET Id, status : Status \cup {None}]
      /\ overlap \in BOOLEAN
      /\ failed \in SUBSET Faults
  BY DEF Init, NoOrder
<1> QED
  BY <1>1, <1>2, <1>3, <1>4, <1>5 DEF TypeOK

LEMMA TypeStep == TypeOK /\ [Next]_vars => TypeOK'
<1> SUFFICES ASSUME TypeOK, [Next]_vars PROVE TypeOK'
  OBVIOUS
<1>1. CASE Next
  BY <1>1, ObservedType, TypeReconcile, TypeRecords, TypeFiles, TypeOutside DEF Next
<1>2. CASE UNCHANGED vars
  BY <1>2 DEF vars, TypeOK, disk, tasks
<1> QED
  BY <1>1, <1>2

(* Every reachable state of the store is well typed. *)
THEOREM TypeCorrect == Spec => []TypeOK
  BY TypeInit, TypeStep, PTL DEF Spec

-----------------------------------------------------------------------------
(* Saves.  Unless saves have overlapped or failed, at most one is under way, *)
(* and it writes what is in memory.                                         *)
SerialSaves ==
    ~overlap => /\ \A p, q \in Proc : Saving(p) /\ Saving(q) => p = q
                /\ \A p \in Proc : Saving(p) => snap[p] = orders
                /\ Quiet => file = orders

(* A task that commits was not saving before and is now. *)
LEMMA CommitSaves ==
  ASSUME TypeOK, SerialSaves, Observe, UNCHANGED file,
         NEW p \in Proc, ~Saving(p), NEW records \in Records,
         NEW after \in {"save", "saveThenCheck", "saveThenAppend"},
         Commit(p, records, after)
  PROVE  SerialSaves'
<1>1. Saving(p)' /\ snap'[p] = orders'
  BY DEF Commit, Goto, Saving, TypeOK
<1>2. \A q \in Proc : q # p => (Saving(q)' <=> Saving(q)) /\ snap'[q] = snap[q]
  BY DEF Commit, Goto, Saving, TypeOK
<1>3. ~Quiet'
  BY <1>1 DEF Quiet
<1>4. ASSUME ~overlap'
      PROVE  \A q \in Proc : Saving(q)' => q = p
  <2>1. \A q, r \in Proc : ~(q # r /\ Saving(q)' /\ Saving(r)')
    BY <1>3, <1>4 DEF Observe
  <2> QED
    BY <1>1, <2>1
<1> QED
  BY <1>1, <1>3, <1>4 DEF SerialSaves

(* A step that neither starts nor ends a save. *)
LEMMA OtherSaves ==
  ASSUME TypeOK, SerialSaves, Observe, UNCHANGED <<orders, file, snap>>,
         \A p \in Proc : Saving(p)' <=> Saving(p)
  PROVE  SerialSaves'
<1>1. Quiet' <=> Quiet
  BY DEF Quiet
<1>2. CASE ~overlap
  BY <1>1, <1>2 DEF SerialSaves
<1>3. CASE overlap
  <2>1. ~overlap' => Quiet' /\ file' = orders'
    BY <1>3 DEF Observe
  <2> QED
    BY <2>1 DEF SerialSaves, Quiet
<1> QED
  BY <1>2, <1>3

(* A step of a task between two places where it is not saving. *)
LEMMA MoveSaves ==
  ASSUME TypeOK, SerialSaves, Observe, UNCHANGED <<orders, file, snap>>,
         NEW p \in Proc, ~Saving(p), NEW place \in Place, Goto(p, place),
         place \notin {"save", "saveThenCheck", "saveThenAppend"}
  PROVE  SerialSaves'
<1>1. \A q \in Proc : Saving(q)' <=> Saving(q)
  BY DEF Saving, Goto, TypeOK
<1> QED
  BY <1>1, OtherSaves

LEMMA SetStatusSaves ==
  ASSUME TypeOK, SerialSaves, Observe, UNCHANGED file,
         NEW p \in Proc, ~Saving(p), NEW o \in Id, NEW status \in Status,
         NEW after \in {"save", "saveThenCheck", "saveThenAppend"},
         NEW otherwise \in {"idle", "check"},
         SetStatus(p, o, status, after, otherwise)
  PROVE  SerialSaves'
<1>1. CASE o \in Known
  BY <1>1, StatusType, CommitSaves DEF SetStatus
<1>2. CASE o \notin Known
  BY <1>2, MoveSaves DEF SetStatus, Place
<1> QED
  BY <1>1, <1>2

LEMMA SavesReconcile ==
  ASSUME TypeOK, SerialSaves, Reconcile, Observe
  PROVE  SerialSaves'
<1> USE LoopIsProc
<1>1. CASE ReconcileStart
  BY <1>1, MoveSaves DEF ReconcileStart, Saving, Place, disk
<1>2. CASE FetchOpen
  BY <1>2, MoveSaves DEF FetchOpen, Saving, Place, disk
<1>3. ASSUME NEW o \in Id, CheckListed(o) PROVE SerialSaves'
  <2>1. ~Saving(Loop) /\ UNCHANGED file
    BY <1>3 DEF CheckListed, Saving, disk
  <2>2. CASE loc[o] # "OPEN"
    <3>1. SetStatus(Loop, o, "OPEN", "saveThenCheck", "check")
      BY <1>3, <2>2 DEF CheckListed
    <3> QED
      BY <2>1, <3>1, SetStatusSaves DEF Status, OpenStatus
  <2>3. CASE loc[o] = "OPEN"
    <3>1. UNCHANGED <<orders, snap, pc>>
      BY <1>3, <2>3 DEF CheckListed
    <3> QED
      BY <2>1, <3>1, OtherSaves DEF Saving
  <2> QED
    BY <2>2, <2>3
<1>4. ASSUME NEW o \in Id, LookUp(o) PROVE SerialSaves'
  BY <1>4, MoveSaves DEF LookUp, Saving, Place, disk
<1>5. CASE Settle
  <2>1. PICK o \in verified.id :
            SetStatus(Loop, o, Verdict(verified.status), "saveThenCheck", "check")
    BY <1>5 DEF Settle
  <2>2. o \in Id
    BY <2>1 DEF TypeOK
  <2>3. ~Saving(Loop) /\ UNCHANGED file
    BY <1>5 DEF Settle, Saving, disk
  <2> QED
    BY <2>1, <2>2, <2>3, VerdictStatus, SetStatusSaves
<1>6. CASE ReconcileEnd
  BY <1>6, MoveSaves DEF ReconcileEnd, Saving, Place, disk
<1> QED
  BY <1>1, <1>2, <1>3, <1>4, <1>5, <1>6 DEF Reconcile

LEMMA SavesRecords ==
  ASSUME TypeOK, SerialSaves, RecordsChange, Observe
  PROVE  SerialSaves'
<1> USE LoopIsProc
<1>1. ASSUME NEW p \in {Loop} \cup Web, NEW o \in Id, AddOrder(p, o) PROVE SerialSaves'
  <2>1. p \in Proc /\ ~Saving(p) /\ UNCHANGED file
    BY <1>1 DEF Proc, AddOrder, Saving, disk
  <2>2. [orders EXCEPT ![o] = "NEW"] \in Records
    BY StatusType DEF Status, OpenStatus
  <2> QED
    BY <1>1, <2>1, <2>2, CommitSaves DEF AddOrder
<1>2. ASSUME NEW o \in Id, RecordFill(o) PROVE SerialSaves'
  <2>1. ~Saving(Loop) /\ UNCHANGED file
    BY <1>2 DEF RecordFill, Saving, disk
  <2>2. [orders EXCEPT ![o] = "FILLED"] \in Records
    BY StatusType DEF Status, PruneStatus
  <2> QED
    BY <1>2, <2>1, <2>2, CommitSaves DEF RecordFill
<1>3. ASSUME NEW w \in Web, NEW o \in Id, SendCancel(w, o) PROVE SerialSaves'
  <2>1. w \in Proc
    BY DEF Proc
  <2> QED
    BY <1>3, <2>1, MoveSaves DEF SendCancel, Saving, Place, disk
<1>4. ASSUME NEW w \in Web, RecordCancel(w) PROVE SerialSaves'
  <2>1. w \in Proc /\ ~Saving(w) /\ UNCHANGED file
    BY <1>4 DEF Proc, RecordCancel, Saving, disk
  <2>2. PICK o \in batch[w] : SetStatus(w, o, "CANCELLED", "save", "idle")
    BY <1>4 DEF RecordCancel
  <2>3. o \in Id
    BY <2>1, <2>2 DEF TypeOK
  <2> QED
    BY <2>1, <2>2, <2>3, SetStatusSaves DEF Status, PruneStatus
<1>5. ASSUME NEW p \in Pruner, PruneArchive(p) PROVE SerialSaves'
  <2>1. p \in Proc /\ ~Saving(p) /\ UNCHANGED file
    BY <1>5 DEF Proc, PruneArchive, Saving, disk
  <2>2. PICK old \in SUBSET Prunable : Commit(p, Kept(old), "saveThenAppend")
    BY <1>5 DEF PruneArchive
  <2>3. Kept(old) \in Records
    BY DEF Kept, Records, TypeOK
  <2> QED
    BY <2>1, <2>2, <2>3, CommitSaves
<1> QED
  BY <1>1, <1>2, <1>3, <1>4, <1>5 DEF RecordsChange

(* The write itself: alone it brings the file up to date, and a failure is  *)
(* remembered.                                                              *)
LEMMA SavesWrite ==
  ASSUME TypeOK, SerialSaves, Observe, NEW p \in Proc, SaveSync(p)
  PROVE  SerialSaves'
<1>1. AfterSave(p) \in {"idle", "check", "append"}
  BY AfterSavePlace DEF SaveSync
<1>2. ~Saving(p)' /\ \A q \in Proc : q # p => (Saving(q)' <=> Saving(q)) /\ snap'[q] = snap[q]
  BY <1>1 DEF SaveSync, Saving, Goto, TypeOK
<1>3. CASE Quiet' /\ file' = orders'
  BY <1>3 DEF SerialSaves, Quiet
<1>4. CASE ~(Quiet' /\ file' = orders')
  <2> SUFFICES ASSUME ~overlap' PROVE FALSE
    BY DEF SerialSaves
  <2>1. ~overlap /\ "save" \notin failed' \ failed
    BY <1>4 DEF Observe
  <2>2. file' = snap[p]
    BY <2>1 DEF SaveSync, Fail
  <2>3. snap[p] = orders /\ \A q \in Proc : q # p => ~Saving(q)
    BY <2>1 DEF SerialSaves, SaveSync
  <2>4. Quiet'
    BY <1>2, <2>3 DEF Quiet
  <2> QED
    BY <1>4, <2>2, <2>3, <2>4 DEF SaveSync
<1> QED
  BY <1>3, <1>4

LEMMA SavesFiles ==
  ASSUME TypeOK, SerialSaves, FilesChange, Observe
  PROVE  SerialSaves'
<1>1. ASSUME NEW p \in Proc, ReadArchive(p) PROVE SerialSaves'
  BY <1>1, MoveSaves DEF ReadArchive, Saving, Place, disk
<1>2. ASSUME NEW p \in Proc, ReplaceArchive(p) PROVE SerialSaves'
  BY <1>2, MoveSaves DEF ReplaceArchive, Saving, Place
<1> QED
  BY <1>1, <1>2, SavesWrite DEF FilesChange

LEMMA SavesOutside ==
  ASSUME TypeOK, SerialSaves, Outside, Observe
  PROVE  SerialSaves'
<1>1. CASE Crash
  <2>1. file' = orders' /\ \A p \in Proc : ~Saving(p)'
    BY <1>1 DEF Crash, AllProc, Saving, disk
  <2> QED
    BY <2>1 DEF SerialSaves
<1>2. ASSUME NEW o \in Id, ExchangeFills(o) \/ ExchangeRejects(o) PROVE SerialSaves'
  BY <1>2, OtherSaves DEF ExchangeFills, ExchangeRejects, Saving, disk, tasks
<1> QED
  BY <1>1, <1>2 DEF Outside

LEMMA SavesStep == TypeOK /\ SerialSaves /\ [Next]_vars => SerialSaves'
<1> SUFFICES ASSUME TypeOK, SerialSaves, [Next]_vars PROVE SerialSaves'
  OBVIOUS
<1>1. CASE Next
  BY <1>1, SavesReconcile, SavesRecords, SavesFiles, SavesOutside DEF Next
<1>2. CASE UNCHANGED vars
  BY <1>2 DEF vars, SerialSaves, Quiet, Saving, disk, tasks
<1> QED
  BY <1>1, <1>2

(* Only overlapping or failed saves leave a file that differs from memory.  *)
THEOREM LateFile == Spec => []LateFileMeansOverlap
<1>1. Init => SerialSaves
  BY DEF Init, SerialSaves, Saving, AllProc
<1>2. SerialSaves => LateFileMeansOverlap
  BY DEF SerialSaves, LateFileMeansOverlap
<1> QED
  BY <1>1, <1>2, SavesStep, TypeCorrect, PTL DEF Spec

-----------------------------------------------------------------------------
(* Reconciliation.  Without a failed query only rejected orders have a      *)
(* record, in memory, on disk or on its way there, that is STALE; an order  *)
(* on the working list that the exchange did not list is final there.       *)
Sound(records) ==
    \A o \in Id : /\ records[o] = "STALE" => exch[o] = "rejected"
                  /\ records[o] # None => exch[o] # "absent"

(* What a step makes of given records: exch alone is primed.                *)
SoundNext(records) ==
    \A o \in Id : /\ records[o] = "STALE" => exch'[o] = "rejected"
                  /\ records[o] # None => exch'[o] # "absent"

Final == {"closed", "canceled", "rejected"}

Working ==
    /\ pc[Loop] = "fetch" => \A o \in Id : loc[o] # None => exch[o] # "absent"
    /\ pc[Loop] \in {"check", "saveThenCheck", "settle"} =>
           \A o \in Id : loc[o] # None /\ o \notin listed => exch[o] \in Final
    /\ pc[Loop] = "settle" =>
           \/ verified.status \in {"CLOSED", "CANCELED"}
           \/ \A o \in verified.id : exch[o] = "rejected"

Grounded ==
    "query" \notin failed =>
        /\ Sound(orders) /\ Sound(file)
        /\ \A p \in Proc : Sound(snap[p])
        /\ Working

(* The exchange never takes an order back. *)
LEMMA ExchangeMoves ==
  ASSUME TypeOK, Reconcile \/ RecordsChange \/ FilesChange \/ Outside, NEW o \in Id
  PROVE  /\ exch[o] # "absent" => exch'[o] # "absent"
         /\ exch[o] \in Final => exch'[o] \in Final
         /\ exch[o] = "rejected" => exch'[o] = "rejected"
<1>1. CASE Reconcile
  BY <1>1 DEF Reconcile, ReconcileStart, FetchOpen, CheckListed, LookUp, Settle, ReconcileEnd
<1>2. ASSUME NEW p \in {Loop} \cup Web, NEW x \in Id, AddOrder(p, x)
      PROVE  /\ exch[o] # "absent" => exch'[o] # "absent"
             /\ exch[o] \in Final => exch'[o] \in Final
             /\ exch[o] = "rejected" => exch'[o] = "rejected"
  BY <1>2 DEF AddOrder, Final, TypeOK
<1>3. ASSUME NEW w \in Web, NEW x \in Id, SendCancel(w, x)
      PROVE  /\ exch[o] # "absent" => exch'[o] # "absent"
             /\ exch[o] \in Final => exch'[o] \in Final
             /\ exch[o] = "rejected" => exch'[o] = "rejected"
  BY <1>3 DEF SendCancel, Final, TypeOK
<1>4. CASE RecordsChange
  BY <1>2, <1>3, <1>4 DEF RecordsChange, RecordFill, RecordCancel, PruneArchive
<1>5. CASE FilesChange
  BY <1>5 DEF FilesChange, SaveSync, ReadArchive, ReplaceArchive
<1>6. CASE Outside
  BY <1>6 DEF Outside, Crash, ExchangeFills, ExchangeRejects, Final, TypeOK
<1> QED
  BY <1>1, <1>4, <1>5, <1>6

(* No kind of failure is ever forgotten. *)
LEMMA FailuresStay ==
  ASSUME Reconcile \/ RecordsChange \/ FilesChange \/ Outside
  PROVE  failed \subseteq failed'
<1>1. CASE Reconcile
  BY <1>1 DEF Reconcile, ReconcileStart, FetchOpen, CheckListed, LookUp, Settle, ReconcileEnd, Fail
<1>2. CASE RecordsChange
  BY <1>2 DEF RecordsChange, AddOrder, RecordFill, SendCancel, RecordCancel, PruneArchive
<1>3. CASE FilesChange
  BY <1>3 DEF FilesChange, SaveSync, ReadArchive, ReplaceArchive, Fail
<1>4. CASE Outside
  BY <1>4 DEF Outside, Crash, ExchangeFills, ExchangeRejects, Fail
<1> QED
  BY <1>1, <1>2, <1>3, <1>4

LEMMA SoundStays ==
  ASSUME TypeOK, Reconcile \/ RecordsChange \/ FilesChange \/ Outside,
         NEW records, Sound(records)
  PROVE  Sound(records)'
  BY ExchangeMoves DEF Sound

LEMMA GroundedReconcile ==
  ASSUME TypeOK, Grounded, Reconcile
  PROVE  Grounded'
<1> USE LoopIsProc
<1> SUFFICES ASSUME "query" \notin failed' PROVE Grounded'
  BY DEF Grounded
<1>0. /\ "query" \notin failed /\ exch' = exch /\ file' = file
      /\ Sound(orders) /\ Sound(file) /\ \A p \in Proc : Sound(snap[p])
      /\ Working
  <2>1. "query" \notin failed
    BY FailuresStay
  <2>2. exch' = exch /\ file' = file
    BY DEF Reconcile, ReconcileStart, FetchOpen, CheckListed, LookUp, Settle, ReconcileEnd, disk
  <2> QED
    BY <2>1, <2>2 DEF Grounded
<1>1. CASE ReconcileStart
  <2>1. pc'[Loop] = "fetch" /\ \A o \in Id : loc'[o] # None => orders[o] # None
    BY <1>1 DEF ReconcileStart, Goto, TypeOK, LocalOpen, OpenStatus, None
  <2>2. orders' = orders /\ snap' = snap
    BY <1>1 DEF ReconcileStart
  <2> QED
    BY <1>0, <2>1, <2>2 DEF Grounded, Working, Sound
<1>2. CASE FetchOpen
  <2>1. pc'[Loop] = "check" /\ loc' = loc /\ listed' = {o \in Id : exch[o] = "open"}
    BY <1>2, <1>0 DEF FetchOpen, Goto, TypeOK, Fail
  <2>2. \A o \in Id : loc[o] # None => exch[o] # "absent"
    BY <1>2, <1>0 DEF FetchOpen, Working
  <2>3. orders' = orders /\ snap' = snap
    BY <1>2 DEF FetchOpen
  <2> QED
    BY <1>0, <2>1, <2>2, <2>3 DEF Grounded, Working, Sound, TypeOK, OnExchange, Final
<1>3. ASSUME NEW o \in Id, NEW status \in Status, status = "STALE" => exch[o] = "rejected",
             SetStatus(Loop, o, status, "saveThenCheck", "check")
      PROVE  Sound(orders)' /\ \A p \in Proc : Sound(snap[p])'
  <2>1. CASE o \in Known
    <3>1. orders' = [orders EXCEPT ![o] = status] /\ snap' = [snap EXCEPT ![Loop] = orders']
      BY <1>3, <2>1 DEF SetStatus, Commit
    <3>2. exch[o] # "absent"
      BY <1>0, <2>1 DEF Sound, Known
    <3>3. Sound(orders)'
      BY <1>0, <1>3, <3>1, <3>2 DEF Sound, TypeOK, Records
    <3> QED
      BY <1>0, <3>1, <3>3 DEF Sound, TypeOK
  <2>2. CASE o \notin Known
    BY <1>0, <1>3, <2>2 DEF SetStatus, Sound
  <2> QED
    BY <2>1, <2>2
<1>4. ASSUME NEW o \in Id, NEW status,
             SetStatus(Loop, o, status, "saveThenCheck", "check")
      PROVE  pc'[Loop] \in {"check", "saveThenCheck"}
  BY <1>4 DEF SetStatus, Commit, Goto, TypeOK
<1>5. ASSUME NEW o \in Id, CheckListed(o) PROVE Grounded'
  <2>1. pc'[Loop] \in {"check", "saveThenCheck"}
    BY <1>4, <1>5 DEF CheckListed
  <2>2. Sound(orders)' /\ \A p \in Proc : Sound(snap[p])'
    <3>1. CASE loc[o] # "OPEN"
      BY <1>3, <1>5, <3>1 DEF CheckListed, Status, OpenStatus
    <3>2. CASE loc[o] = "OPEN"
      BY <1>0, <1>5, <3>2 DEF CheckListed, Sound
    <3> QED
      BY <3>1, <3>2
  <2>3. listed' = listed /\ \A x \in Id : loc'[x] # None => loc[x] # None
    BY <1>5 DEF CheckListed, Checked, TypeOK
  <2>4. pc[Loop] = "check"
    BY <1>5 DEF CheckListed
  <2>5. Working'
    BY <1>0, <2>1, <2>3, <2>4 DEF Working
  <2> QED
    BY <1>0, <2>2, <2>5 DEF Grounded, Sound
<1>6. ASSUME NEW o \in Id, LookUp(o) PROVE Grounded'
  <2>1. /\ pc[Loop] = "check" /\ pc'[Loop] = "settle"
        /\ loc' = loc /\ listed' = listed /\ orders' = orders /\ snap' = snap
    BY <1>6 DEF LookUp, Goto, TypeOK
  <2>2. verified' = [id |-> {o}, status |-> Found(o)] /\ loc[o] # None /\ o \notin listed
    BY <1>0, <1>6 DEF LookUp, Fail
  <2>3. exch[o] \in Final
    BY <1>0, <2>1, <2>2 DEF Working
  <2>4. Found(o) \in {"CLOSED", "CANCELED"} \/ exch[o] = "rejected"
    BY <2>3 DEF Found, Final
  <2>5. Working'
    BY <1>0, <1>6, <2>1, <2>2, <2>4 DEF Working, LookUp
  <2> QED
    BY <1>0, <2>1, <2>5 DEF Grounded, Sound
<1>7. CASE Settle
  <2>1. PICK o \in verified.id :
            /\ SetStatus(Loop, o, Verdict(verified.status), "saveThenCheck", "check")
            /\ Checked(o)
    BY <1>7 DEF Settle
  <2>2. o \in Id
    BY <2>1 DEF TypeOK
  <2>3. Verdict(verified.status) = "STALE" => exch[o] = "rejected"
    BY <1>0, <1>7, <2>1 DEF Settle, Working, Verdict
  <2>4. Sound(orders)' /\ \A p \in Proc : Sound(snap[p])'
    BY <1>3, <2>1, <2>2, <2>3, VerdictStatus
  <2>5. pc'[Loop] \in {"check", "saveThenCheck"}
    BY <1>4, <2>1, <2>2
  <2>6. /\ pc[Loop] = "settle" /\ listed' = listed
        /\ \A x \in Id : loc'[x] # None => loc[x] # None
    BY <1>7, <2>1, <2>2 DEF Settle, Checked, TypeOK
  <2>7. Working'
    BY <1>0, <2>5, <2>6 DEF Working
  <2> QED
    BY <1>0, <2>4, <2>7 DEF Grounded, Sound
<1>8. CASE ReconcileEnd
  <2>1. pc'[Loop] = "idle" /\ orders' = orders /\ snap' = snap
    BY <1>8 DEF ReconcileEnd, Goto, TypeOK
  <2> QED
    BY <1>0, <2>1 DEF Grounded, Working, Sound
<1> QED
  BY <1>1, <1>2, <1>5, <1>6, <1>7, <1>8 DEF Reconcile

(* Steps that leave the reconciliation where it is, or begin a save of the  *)
(* loop outside it, keep what it relies on.                                 *)
LEMMA WorkingStays ==
  ASSUME TypeOK, Working, RecordsChange \/ FilesChange \/ Outside,
         UNCHANGED <<loc, listed, verified>>,
         \/ pc'[Loop] = pc[Loop]
         \/ pc[Loop] = "saveThenCheck" /\ pc'[Loop] = "check"
         \/ pc'[Loop] \in {"idle", "save", "append", "replace"}
  PROVE  Working'
  BY ExchangeMoves DEF Working, TypeOK

LEMMA GroundedRecords ==
  ASSUME TypeOK, Grounded, RecordsChange
  PROVE  Grounded'
<1> USE LoopIsProc
<1> SUFFICES ASSUME "query" \notin failed PROVE Grounded'
  BY FailuresStay DEF Grounded
<1>0. /\ Sound(orders) /\ Sound(file) /\ \A p \in Proc : Sound(snap[p])
      /\ Working
  BY DEF Grounded
<1>1. ASSUME NEW p \in Proc, NEW records, NEW after, SoundNext(records),
             Commit(p, records, after)
      PROVE  Sound(orders)' /\ \A q \in Proc : Sound(snap[q])'
  <2>1. orders' = records /\ snap' = [snap EXCEPT ![p] = records]
    BY <1>1 DEF Commit
  <2>2. \A q \in Proc : snap'[q] = records \/ snap'[q] = snap[q]
    BY <2>1 DEF TypeOK
  <2>3. \A q \in Proc : SoundNext(snap[q])
    BY <1>0, ExchangeMoves DEF Sound, SoundNext
  <2> QED
    BY <1>1, <2>1, <2>2, <2>3 DEF Sound, SoundNext
<1>2. Sound(file)'
  <2>1. file' = file
    BY DEF RecordsChange, AddOrder, RecordFill, SendCancel, RecordCancel, PruneArchive, disk
  <2> QED
    BY <1>0, <2>1, ExchangeMoves DEF Sound
<1>3. ASSUME Working', Sound(orders)', \A q \in Proc : Sound(snap[q])' PROVE Grounded'
  BY <1>2, <1>3 DEF Grounded
<1>4. UNCHANGED <<loc, listed, verified>>
  BY DEF RecordsChange, AddOrder, RecordFill, SendCancel, RecordCancel, PruneArchive
<1>5. ASSUME NEW p \in {Loop} \cup Web, NEW o \in Id, AddOrder(p, o) PROVE Grounded'
  <2>1. p \in Proc
    BY DEF Proc
  <2>2. SoundNext([orders EXCEPT ![o] = "NEW"])
    BY <1>0, <1>5, ExchangeMoves DEF AddOrder, Sound, SoundNext, TypeOK, Records
  <2>3. pc'[Loop] = pc[Loop] \/ pc'[Loop] = "save"
    BY <1>5, <2>1 DEF AddOrder, Commit, Goto, TypeOK
  <2> QED
    BY <1>0, <1>1, <1>3, <1>4, <1>5, <2>1, <2>2, <2>3, WorkingStays DEF AddOrder
<1>6. ASSUME NEW o \in Id, RecordFill(o) PROVE Grounded'
  <2>1. SoundNext([orders EXCEPT ![o] = "FILLED"])
    BY <1>0, <1>6, ExchangeMoves DEF RecordFill, Sound, SoundNext, TypeOK, Records, Final
  <2>2. pc'[Loop] = "save"
    BY <1>6 DEF RecordFill, Commit, Goto, TypeOK
  <2> QED
    BY <1>0, <1>1, <1>3, <1>4, <1>6, <2>1, <2>2, WorkingStays DEF RecordFill
<1>7. ASSUME NEW w \in Web, NEW o \in Id, SendCancel(w, o) PROVE Grounded'
  <2>1. pc'[Loop] = pc[Loop] /\ orders' = orders /\ snap' = snap
    BY <1>7, ConstantsAssumption DEF SendCancel, Goto, TypeOK
  <2> QED
    BY <1>0, <1>3, <1>4, <2>1, WorkingStays, ExchangeMoves DEF Sound
<1>8. ASSUME NEW w \in Web, RecordCancel(w) PROVE Grounded'
  <2>1. w \in Proc /\ w # Loop
    BY ConstantsAssumption DEF Proc
  <2>2. PICK o \in batch[w] : SetStatus(w, o, "CANCELLED", "save", "idle")
    BY <1>8 DEF RecordCancel
  <2>3. o \in Id /\ pc'[Loop] = pc[Loop]
    BY <2>1, <2>2 DEF TypeOK, SetStatus, Commit, Goto
  <2>4. CASE o \in Known
    <3>1. SoundNext([orders EXCEPT ![o] = "CANCELLED"])
      BY <1>0, <2>3, <2>4, ExchangeMoves DEF Sound, SoundNext, TypeOK, Records, Known
    <3>2. Commit(w, [orders EXCEPT ![o] = "CANCELLED"], "save")
      BY <2>2, <2>4 DEF SetStatus
    <3> QED
      BY <1>0, <1>1, <1>3, <1>4, <2>1, <2>3, <3>1, <3>2, WorkingStays
  <2>5. CASE o \notin Known
    <3>1. orders' = orders /\ snap' = snap
      BY <2>2, <2>5 DEF SetStatus
    <3> QED
      BY <1>0, <1>3, <1>4, <2>3, <3>1, WorkingStays, ExchangeMoves DEF Sound
  <2> QED
    BY <2>4, <2>5
<1>9. ASSUME NEW p \in Pruner, PruneArchive(p) PROVE Grounded'
  <2>1. p \in Proc /\ p # Loop
    BY ConstantsAssumption DEF Proc
  <2>2. PICK old \in SUBSET Prunable : Commit(p, Kept(old), "saveThenAppend")
    BY <1>9 DEF PruneArchive
  <2>3. SoundNext(Kept(old))
    BY <1>0, ExchangeMoves DEF Sound, SoundNext, Kept, None
  <2>4. pc'[Loop] = pc[Loop]
    BY <2>1, <2>2 DEF Commit, Goto, TypeOK
  <2> QED
    BY <1>0, <1>1, <1>3, <1>4, <2>1, <2>2, <2>3, <2>4, WorkingStays
<1> QED
  BY <1>5, <1>6, <1>7, <1>8, <1>9 DEF RecordsChange

LEMMA GroundedFiles ==
  ASSUME TypeOK, Grounded, FilesChange
  PROVE  Grounded'
<1> USE LoopIsProc
<1> SUFFICES ASSUME "query" \notin failed PROVE Grounded'
  BY FailuresStay DEF Grounded
<1>0. /\ Sound(orders) /\ Sound(file) /\ \A p \in Proc : Sound(snap[p])
      /\ Working
  BY DEF Grounded
<1>1. exch' = exch /\ orders' = orders /\ UNCHANGED <<loc, listed, verified>>
  BY DEF FilesChange, SaveSync, ReadArchive, ReplaceArchive
<1>2. ASSUME NEW p \in Proc, SaveSync(p) PROVE Grounded'
  <2>1. Sound(file)'
    BY <1>0, <1>1, <1>2 DEF SaveSync, Sound
  <2>2. \A q \in Proc : Sound(snap[q])'
    BY <1>0, <1>1, <1>2 DEF SaveSync, Sound, TypeOK, NoRecords, None
  <2>3. \/ pc'[Loop] = pc[Loop]
        \/ pc[Loop] = "saveThenCheck" /\ pc'[Loop] = "check"
        \/ pc'[Loop] \in {"idle", "append"}
    BY <1>2 DEF SaveSync, Goto, TypeOK, Saving, AfterSave
  <2> QED
    BY <1>0, <1>1, <2>1, <2>2, <2>3, WorkingStays DEF Grounded, Sound
<1>3. ASSUME NEW p \in Proc, ReadArchive(p) \/ ReplaceArchive(p) PROVE Grounded'
  <2>1. pc'[Loop] = pc[Loop] \/ pc'[Loop] \in {"replace", "idle"}
    BY <1>3 DEF ReadArchive, ReplaceArchive, Goto, TypeOK
  <2>2. snap' = snap /\ file' = file
    BY <1>3 DEF ReadArchive, ReplaceArchive, disk
  <2> QED
    BY <1>0, <1>1, <2>1, <2>2, WorkingStays DEF Grounded, Sound
<1> QED
  BY <1>2, <1>3 DEF FilesChange

LEMMA GroundedOutside ==
  ASSUME TypeOK, Grounded, Outside
  PROVE  Grounded'
<1> USE LoopIsProc
<1> SUFFICES ASSUME "query" \notin failed PROVE Grounded'
  BY FailuresStay DEF Grounded
<1>0. /\ Sound(orders) /\ Sound(file) /\ \A p \in Proc : Sound(snap[p])
      /\ Working
  BY DEF Grounded
<1>1. CASE Crash
  <2>1. exch' = exch /\ file' = file /\ orders' = file /\ pc'[Loop] = "idle"
    BY <1>1 DEF Crash, AllProc, disk
  <2>2. \A p \in Proc : Sound(snap[p])'
    BY <1>1 DEF Crash, AllProc, Sound, NoRecords, None
  <2> QED
    BY <1>0, <2>1, <2>2 DEF Grounded, Working, Sound
<1>2. ASSUME NEW o \in Id, ExchangeFills(o) \/ ExchangeRejects(o) PROVE Grounded'
  <2>1. /\ orders' = orders /\ file' = file /\ snap' = snap
        /\ pc' = pc /\ UNCHANGED <<loc, listed, verified>>
    BY <1>2 DEF ExchangeFills, ExchangeRejects, disk, tasks
  <2> QED
    BY <1>0, <2>1, WorkingStays, ExchangeMoves DEF Grounded, Sound
<1> QED
  BY <1>1, <1>2 DEF Outside

LEMMA GroundedStep == TypeOK /\ Grounded /\ [Next]_vars => Grounded'
<1> SUFFICES ASSUME TypeOK, Grounded, [Next]_vars PROVE Grounded'
  OBVIOUS
<1>1. CASE Next
  BY <1>1, GroundedReconcile, GroundedRecords, GroundedFiles, GroundedOutside DEF Next
<1>2. CASE UNCHANGED vars
  BY <1>2 DEF vars, Grounded, Sound, Working, disk, tasks
<1> QED
  BY <1>1, <1>2

(* Without a failed query reconciliation gives up only the record of an     *)
(* order that the exchange has rejected.                                    *)
THEOREM StaleOnlyAfterFailure == Spec => []StaleNeedsFailure
<1>1. Init => Grounded
  BY LoopIsProc DEF Init, Grounded, Sound, Working, AllProc, NoRecords, None
<1>2. Grounded => StaleNeedsFailure
  BY DEF Grounded, Sound, StaleNeedsFailure
<1> QED
  BY <1>1, <1>2, GroundedStep, TypeCorrect, PTL DEF Spec

-----------------------------------------------------------------------------
(* Pruning.  With one pruning task at a time nothing else replaces the      *)
(* archive, and a pruned order stays in the batch until it is in there.     *)
OnePruner == \A p, q \in Pruner : p = q

Pruning == {"saveThenAppend", "append", "replace"}

Held(o) == \/ exch[o] = "absent"
           \/ o \in Known \cup archive
           \/ \E p \in Pruner : o \in batch[p]

NoLoss == failed \cap {"append", "crash"} = {}

Accounted ==
    NoLoss =>
        /\ \A o \in Id : Held(o)
        /\ \A p \in Proc : pc[p] \in Pruning => p \in Pruner
        /\ \A p \in Pruner : /\ pc[p] \in Pruning \cup {"idle"}
                             /\ pc[p] = "idle" => batch[p] = {}
                             /\ pc[p] = "replace" => seen[p] = archive

LEMMA PrunersAreProcs == Pruner \subseteq Proc /\ Loop \notin Pruner /\ Web \cap Pruner = {}
  BY ConstantsAssumption DEF Proc

(* A step of other tasks: pruning tasks stay where they are, and no record  *)
(* disappears.                                                              *)
LEMMA OthersKeep ==
  ASSUME TypeOK, Accounted, NoLoss,
         \A p \in Proc : pc'[p] = pc[p] \/ (p \notin Pruner /\ pc'[p] \notin Pruning),
         UNCHANGED <<archive, seen>>,
         \A p \in Pruner : batch'[p] = batch[p],
         \A o \in Id : o \in Known => o \in Known',
         \A o \in Id : exch[o] = "absent" => exch'[o] = "absent" \/ o \in Known'
  PROVE  Accounted'
<1>1. \A o \in Id : Held(o)'
  BY DEF Accounted, Held
<1>2. \A p \in Proc : pc'[p] \in Pruning => p \in Pruner
  BY DEF Accounted
<1>3. \A p \in Pruner : pc'[p] = pc[p]
  BY PrunersAreProcs
<1> QED
  BY <1>1, <1>2, <1>3 DEF Accounted

LEMMA KnownAfter ==
  ASSUME TypeOK, NEW o \in Id, NEW status \in Status, orders' = [orders EXCEPT ![o] = status]
  PROVE  o \in Known' /\ \A x \in Id : x \in Known => x \in Known'
  BY DEF Known, TypeOK, Records, Status, OpenStatus, PruneStatus, None

LEMMA SetStatusKeeps ==
  ASSUME TypeOK, NEW p \in Proc, NEW o \in Id, NEW status \in Status,
         NEW after, NEW otherwise, SetStatus(p, o, status, after, otherwise)
  PROVE  /\ \A x \in Id : x \in Known => x \in Known'
         /\ \A q \in Proc : pc'[q] = pc[q] \/ (q = p /\ pc'[q] \in {after, otherwise})
<1>1. \A q \in Proc : pc'[q] = pc[q] \/ (q = p /\ pc'[q] \in {after, otherwise})
  BY DEF SetStatus, Commit, Goto, TypeOK
<1>2. CASE o \in Known
  BY <1>1, <1>2, KnownAfter DEF SetStatus, Commit
<1>3. CASE o \notin Known
  BY <1>1, <1>3 DEF SetStatus, Known
<1> QED
  BY <1>2, <1>3

LEMMA AccountedReconcile ==
  ASSUME TypeOK, Accounted, NoLoss, Reconcile
  PROVE  Accounted'
<1> USE LoopIsProc, PrunersAreProcs
<1>1. UNCHANGED <<archive, seen, batch, exch>>
  BY DEF Reconcile, ReconcileStart, FetchOpen, CheckListed, LookUp, Settle, ReconcileEnd, disk
<1>2. ASSUME \A x \in Id : x \in Known => x \in Known',
             \A q \in Proc : pc'[q] = pc[q] \/ (q = Loop /\ pc'[q] \notin Pruning)
      PROVE  Accounted'
  BY <1>1, <1>2, OthersKeep
<1>3. CASE ReconcileStart \/ FetchOpen \/ ReconcileEnd \/ \E o \in Id : LookUp(o)
  <2>1. orders' = orders
    BY <1>3 DEF ReconcileStart, FetchOpen, ReconcileEnd, LookUp
  <2>2. \A q \in Proc : pc'[q] = pc[q] \/ (q = Loop /\ pc'[q] \in {"fetch", "check", "idle", "settle"})
    BY <1>3 DEF ReconcileStart, FetchOpen, ReconcileEnd, LookUp, Goto, TypeOK
  <2> QED
    BY <1>2, <2>1, <2>2 DEF Known, Pruning
<1>4. ASSUME NEW o \in Id, CheckListed(o) PROVE Accounted'
  <2>1. CASE loc[o] # "OPEN"
    <3>1. SetStatus(Loop, o, "OPEN", "saveThenCheck", "check")
      BY <1>4, <2>1 DEF CheckListed
    <3>2. "OPEN" \in Status
      BY DEF Status, OpenStatus
    <3> QED
      BY <1>2, <3>1, <3>2, SetStatusKeeps DEF Pruning
  <2>2. CASE loc[o] = "OPEN"
    BY <1>2, <1>4, <2>2 DEF CheckListed, Known
  <2> QED
    BY <2>1, <2>2
<1>5. CASE Settle
  <2>1. PICK o \in verified.id :
            SetStatus(Loop, o, Verdict(verified.status), "saveThenCheck", "check")
    BY <1>5 DEF Settle
  <2>2. o \in Id
    BY <2>1 DEF TypeOK
  <2> QED
    BY <1>2, <2>1, <2>2, VerdictStatus, SetStatusKeeps DEF Pruning
<1> QED
  BY <1>3, <1>4, <1>5 DEF Reconcile

LEMMA AccountedRecords ==
  ASSUME TypeOK, Accounted, NoLoss, RecordsChange
  PROVE  Accounted'
<1> USE LoopIsProc, PrunersAreProcs
<1>1. UNCHANGED <<archive, seen>>
  BY DEF RecordsChange, AddOrder, RecordFill, SendCancel, RecordCancel, PruneArchive, disk
<1>2. ASSUME NEW p \in {Loop} \cup Web, NEW o \in Id, AddOrder(p, o) PROVE Accounted'
  <2>1. p \in Proc /\ p \notin Pruner
    BY DEF Proc
  <2>2. orders' = [orders EXCEPT ![o] = "NEW"] /\ "NEW" \in Status
    BY <1>2 DEF AddOrder, Commit, Status, OpenStatus
  <2>3. \A q \in Proc : pc'[q] = pc[q] \/ (q = p /\ pc'[q] = "save")
    BY <1>2, <2>1 DEF AddOrder, Commit, Goto, TypeOK
  <2>4. batch' = batch /\ exch' = [exch EXCEPT ![o] = "open"]
    BY <1>2 DEF AddOrder
  <2>5. \A x \in Id : exch[x] = "absent" => exch'[x] = "absent" \/ x \in Known'
    BY <2>2, <2>4, KnownAfter DEF TypeOK
  <2> QED
    BY <1>1, <2>1, <2>2, <2>3, <2>4, <2>5, KnownAfter, OthersKeep DEF Pruning
<1>3. ASSUME NEW o \in Id, RecordFill(o) PROVE Accounted'
  <2>1. orders' = [orders EXCEPT ![o] = "FILLED"] /\ "FILLED" \in Status
    BY <1>3 DEF RecordFill, Commit, Status, PruneStatus
  <2>2. \A q \in Proc : pc'[q] = pc[q] \/ (q = Loop /\ pc'[q] = "save")
    BY <1>3 DEF RecordFill, Commit, Goto, TypeOK
  <2>3. batch' = batch /\ exch' = exch
    BY <1>3 DEF RecordFill
  <2> QED
    BY <1>1, <2>1, <2>2, <2>3, KnownAfter, OthersKeep DEF Pruning
<1>4. ASSUME NEW w \in Web, NEW o \in Id, SendCancel(w, o) PROVE Accounted'
  <2>1. w \in Proc /\ w \notin Pruner
    BY DEF Proc
  <2>2. \A q \in Proc : pc'[q] = pc[q] \/ (q = w /\ pc'[q] = "record")
    BY <1>4, <2>1 DEF SendCancel, Goto, TypeOK
  <2>3. orders' = orders /\ \A q \in Pruner : batch'[q] = batch[q]
    BY <1>4, <2>1 DEF SendCancel, TypeOK
  <2>4. \A x \in Id : exch[x] = "absent" => exch'[x] = "absent"
    BY <1>4 DEF SendCancel, TypeOK
  <2> QED
    BY <1>1, <2>1, <2>2, <2>3, <2>4, OthersKeep DEF Pruning, Known
<1>5. ASSUME NEW w \in Web, RecordCancel(w) PROVE Accounted'
  <2>1. w \in Proc /\ w \notin Pruner
    BY DEF Proc
  <2>2. PICK o \in batch[w] : SetStatus(w, o, "CANCELLED", "save", "idle")
    BY <1>5 DEF RecordCancel
  <2>3. o \in Id /\ "CANCELLED" \in Status
    BY <2>1, <2>2 DEF TypeOK, Status, PruneStatus
  <2>4. exch' = exch /\ \A q \in Pruner : batch'[q] = batch[q]
    BY <1>5, <2>1 DEF RecordCancel, TypeOK
  <2>5. /\ \A x \in Id : x \in Known => x \in Known'
        /\ \A q \in Proc : pc'[q] = pc[q] \/ (q = w /\ pc'[q] \in {"save", "idle"})
    BY <2>1, <2>2, <2>3, SetStatusKeeps
  <2> QED
    BY <1>1, <2>1, <2>4, <2>5, OthersKeep DEF Pruning
<1>6. ASSUME NEW p \in Pruner, PruneArchive(p) PROVE Accounted'
  <2>1. p \in Proc /\ pc[p] = "idle" /\ batch[p] = {}
    BY <1>6 DEF PruneArchive, Accounted
  <2>2. PICK old \in SUBSET Prunable : /\ batch' = [batch EXCEPT ![p] = old]
                                       /\ Commit(p, Kept(old), "saveThenAppend")
    BY <1>6 DEF PruneArchive
  <2>3. orders' = Kept(old) /\ pc' = [pc EXCEPT ![p] = "saveThenAppend"] /\ exch' = exch
    BY <1>6, <2>2 DEF Commit, Goto, PruneArchive
  <2>4. \A o \in Id : o \in Known => o \in old \/ o \in Known'
    BY <2>3 DEF Known, Kept
  <2>5. batch'[p] = old /\ \A q \in Pruner : q # p => batch'[q] = batch[q]
    BY <2>1, <2>2 DEF TypeOK
  <2>6. ASSUME NEW o \in Id PROVE Held(o)'
    <3>1. Held(o)
      BY DEF Accounted
    <3> QED
      BY <1>1, <2>1, <2>3, <2>4, <2>5, <3>1 DEF Held
  <2>7. \A q \in Proc : pc'[q] = IF q = p THEN "saveThenAppend" ELSE pc[q]
    BY <2>3 DEF TypeOK
  <2> QED
    BY <1>1, <1>6, <2>1, <2>5, <2>6, <2>7 DEF Accounted, Pruning
<1> QED
  BY <1>2, <1>3, <1>4, <1>5, <1>6 DEF RecordsChange

LEMMA AccountedFiles ==
  ASSUME OnePruner, TypeOK, Accounted, NoLoss, NoLoss', FilesChange
  PROVE  Accounted'
<1> USE PrunersAreProcs
<1>1. exch' = exch /\ orders' = orders
  BY DEF FilesChange, SaveSync, ReadArchive, ReplaceArchive
<1>2. ASSUME NEW p \in Proc, SaveSync(p) PROVE Accounted'
  <2>1. UNCHANGED <<archive, batch, seen>>
    BY <1>2 DEF SaveSync
  <2>2. \A q \in Proc : pc'[q] = IF q = p THEN AfterSave(p) ELSE pc[q]
    BY <1>2 DEF SaveSync, Goto, TypeOK
  <2>3. CASE p \in Pruner
    <3>1. AfterSave(p) = "append"
      BY <1>2, <2>3 DEF Accounted, SaveSync, Saving, AfterSave, Pruning
    <3>2. \A o \in Id : Held(o)'
      BY <1>1, <2>1 DEF Accounted, Held, Known
    <3> QED
      BY <2>1, <2>2, <2>3, <3>1, <3>2 DEF Accounted, Pruning
  <2>4. CASE p \notin Pruner
    <3>1. AfterSave(p) \notin Pruning
      BY <1>2, <2>4 DEF Accounted, SaveSync, Saving, AfterSave, Pruning
    <3> QED
      BY <1>1, <2>1, <2>2, <2>4, <3>1, OthersKeep DEF Known
  <2> QED
    BY <2>3, <2>4
<1>3. ASSUME NEW p \in Proc, ReadArchive(p) PROVE Accounted'
  <2>1. p \in Pruner
    BY <1>3 DEF ReadArchive, Accounted, Pruning
  <2>2. archive' = archive /\ batch' = batch /\ seen' = [seen EXCEPT ![p] = archive]
    BY <1>3 DEF ReadArchive, disk
  <2>3. \A q \in Proc : pc'[q] = IF q = p THEN "replace" ELSE pc[q]
    BY <1>3 DEF ReadArchive, Goto, TypeOK
  <2>4. \A o \in Id : Held(o)'
    BY <1>1, <2>2 DEF Accounted, Held, Known
  <2>5. \A q \in Proc : seen'[q] = IF q = p THEN archive ELSE seen[q]
    BY <2>2 DEF TypeOK
  <2> QED
    BY <2>1, <2>2, <2>3, <2>4, <2>5 DEF Accounted, Pruning
<1>4. ASSUME NEW p \in Proc, ReplaceArchive(p) PROVE Accounted'
  <2>1. p \in Pruner /\ \A q \in Pruner : q = p
    BY <1>4 DEF ReplaceArchive, Accounted, Pruning, OnePruner
  <2>2. archive' = archive \cup batch[p]
    BY <1>4, <2>1 DEF ReplaceArchive, Accounted, NoLoss, Fail
  <2>3. batch'[p] = {} /\ \A q \in Proc : pc'[q] = IF q = p THEN "idle" ELSE pc[q]
    BY <1>4 DEF ReplaceArchive, Goto, TypeOK
  <2>4. ASSUME NEW o \in Id PROVE Held(o)'
    <3>1. Held(o)
      BY DEF Accounted
    <3> QED
      BY <1>1, <2>1, <2>2, <3>1 DEF Held, Known
  <2> QED
    BY <2>1, <2>3, <2>4 DEF Accounted, Pruning
<1> QED
  BY <1>2, <1>3, <1>4 DEF FilesChange

LEMMA AccountedOutside ==
  ASSUME TypeOK, Accounted, NoLoss, NoLoss', Outside
  PROVE  Accounted'
<1>1. ~Crash
  BY DEF Crash, Fail, NoLoss
<1>2. PICK o \in Id : ExchangeFills(o) \/ ExchangeRejects(o)
  BY <1>1 DEF Outside
<1>3. \A x \in Id : exch[x] = "absent" => exch'[x] = "absent"
  BY <1>2 DEF ExchangeFills, ExchangeRejects, TypeOK
<1> QED
  BY <1>2, <1>3, OthersKeep DEF ExchangeFills, ExchangeRejects, disk, tasks, Known

LEMMA AccountedStep ==
  ASSUME OnePruner
  PROVE  TypeOK /\ Accounted /\ [Next]_vars => Accounted'
<1> SUFFICES ASSUME TypeOK, Accounted, [Next]_vars PROVE Accounted'
  OBVIOUS
<1>1. CASE Next
  <2> SUFFICES ASSUME NoLoss' PROVE Accounted'
    BY DEF Accounted
  <2>1. NoLoss
    BY <1>1, FailuresStay DEF Next, NoLoss
  <2> QED
    BY <1>1, <2>1, AccountedReconcile, AccountedRecords, AccountedFiles, AccountedOutside DEF Next
<1>2. CASE UNCHANGED vars
  BY <1>2 DEF vars, Accounted, Held, Known, NoLoss, disk, tasks
<1> QED
  BY <1>1, <1>2

(* With one pruning task at a time no record is lost while the process      *)
(* lives and its archive can be written, whatever happens to the state file.*)
THEOREM RecordsAreKept ==
  ASSUME OnePruner
  PROVE  Spec => []NothingLost
<1>1. Init => Accounted
  BY PrunersAreProcs DEF Init, Accounted, Held, AllProc, Pruning
<1>2. Accounted => NothingLost
  BY DEF Accounted, NothingLost, Held, NoLoss
<1>3. TypeOK /\ Accounted /\ [Next]_vars => Accounted'
  BY AccountedStep
<1> QED
  BY <1>1, <1>2, <1>3, TypeCorrect, PTL DEF Spec
=============================================================================
