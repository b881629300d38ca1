----------------------------- MODULE Wal_proofs -----------------------------
(***************************************************************************)
(* Proofs about Wal for any number of appends, faults, files and restarts: *)
(* type correctness, the order of a replay, what acknowledged entries are  *)
(* read back after cut writes and archivings, and what a rotation leaves.  *)
(***************************************************************************)
EXTENDS Wal, FiniteSetTheorems, TLAPS

-----------------------------------------------------------------------------
(* The invariant *)

(* the file being written is the last by name *)
AtNewest == cur \in files => \A g \in files : g <= cur

Placed(lines, at, op) == \A l \in lines : l.at < at /\ l.op < op

(* places follow the files; no two lines share one; numbers of calls follow *)
(* the places                                                               *)
FilesFollow(lines) == \A a, b \in lines : a.at < b.at => a.file <= b.file
Apart(lines) == \A a, b \in lines : a.at = b.at => a = b
OpsFollow(lines) == \A a, b \in Entries(lines) : a.at < b.at => a.op < b.op

LinesOK ==
    /\ IsFiniteSet(log)
    /\ Placed(log, place, next)
    /\ FilesFollow(log)
    /\ Apart(log)
    /\ "copy" \notin gone => OpsFollow(log)

Base == TypeOK /\ clock >= 1 /\ AtNewest /\ LinesOK /\ \A o \in acked : o < next

(* Of each cut write either the half line is still the end of a file, or it *)
(* hides the entry that was written onto it.                                *)
Cut(lines) == {l \in lines : l.kind = "torn"}
Found == OpsOf(Entries(log)) \cup OpsOf(RecoverFromArchive)
Hidden == acked \ Found
HiddenOK == gone \subseteq {"archive"} => Cardinality(Hidden) + Cardinality(Cut(log)) <= torn

(* Without failed writes every file holds acknowledged entries only, and    *)
(* what is no longer there has Keep later ones.                             *)
Later(o) == {p \in acked : p > o}
Plain ==
    faults = 0 /\ gone \subseteq {"cleanup"} =>
        /\ \A l \in log : IsEntry(l) /\ l.op \in acked
        /\ \A f \in files : LinesOf(f) # {}
        /\ \A o \in acked : o \in OpsOf(log) \/ Cardinality(Later(o)) >= Keep

WalInv == Base /\ HiddenOK /\ Plain

-----------------------------------------------------------------------------
(* Lines *)

LEMMA SpoiledLine ==
  ASSUME NEW l \in Line
  PROVE  /\ Spoiled(l) \in Line
         /\ Spoiled(l).kind = "junk"
         /\ Spoiled(l).file = l.file
         /\ Spoiled(l).at = l.at
         /\ Spoiled(l).seq = l.seq
         /\ Spoiled(l).op = l.op
  BY DEF Line, Spoiled

LEMMA CopiedLine ==
  ASSUME NEW l \in Line, NEW f \in Nat, NEW p \in Nat
  PROVE  /\ Copied(l, f, p) \in Line
         /\ Copied(l, f, p).kind = l.kind
         /\ Copied(l, f, p).file = f
         /\ Copied(l, f, p).at = l.at + p
         /\ Copied(l, f, p).op = l.op
<1>1. l.at + p \in Nat
  BY DEF Line
<1> QED
  BY <1>1 DEF Line, Copied

(* What writing a line makes of some lines: at most one changes, a torn one *)
(* that becomes junk.                                                       *)
TornEnd(lines, f) == {l \in LastOf(InFile(lines, f)) : l.kind = "torn"}
Junk(lines) == {Spoiled(l) : l \in lines}

LEMMA FiniteJunk ==
  ASSUME NEW lines, IsFiniteSet(lines)
  PROVE  IsFiniteSet(Junk(lines))
<1> DEFINE f == [l \in lines |-> Spoiled(l)]
<1>1. f \in Surjection(lines, Junk(lines))
  BY DEF Surjection, Junk
<1> QED
  BY <1>1, FS_Surjection

LEMMA WrittenIs ==
  ASSUME NEW lines, NEW line
  PROVE  Written(lines, line) =
           IF TornEnd(lines, line.file) = {} THEN lines \cup {line}
           ELSE IF line.kind = "torn" THEN lines
           ELSE (lines \ TornEnd(lines, line.file)) \cup Junk(TornEnd(lines, line.file))
  BY DEF Written, TornEnd, Junk

LEMMA TornEndIs ==
  ASSUME NEW lines, NEW f
  PROVE  /\ TornEnd(lines, f) \subseteq lines
         /\ \A l \in TornEnd(lines, f) : l.kind = "torn" /\ l.file = f
  BY DEF TornEnd, LastOf, InFile

LEMMA WrittenType ==
  ASSUME NEW lines \in SUBSET Line, NEW line \in Line, IsFiniteSet(lines)
  PROVE  Written(lines, line) \in SUBSET Line /\ IsFiniteSet(Written(lines, line))
<1> DEFINE t == TornEnd(lines, line.file)
<1>1. t \subseteq lines
  BY TornEndIs
<1>2. Junk(t) \subseteq Line
  BY <1>1, SpoiledLine DEF Junk
<1>3. IsFiniteSet(t)
  BY <1>1, FS_Subset
<1>4. IsFiniteSet(Junk(t))
  BY <1>3, FiniteJunk
<1>5. IsFiniteSet(lines \ t) /\ IsFiniteSet(lines \cup {line})
  BY FS_Subset, FS_AddElement
<1>6. IsFiniteSet((lines \ t) \cup Junk(t))
  BY <1>4, <1>5, FS_Union
<1> HIDE DEF t
<1> QED
  BY <1>1, <1>2, <1>5, <1>6, WrittenIs DEF t

(* the lines after a write, one by one *)
LEMMA WrittenLines ==
  ASSUME NEW lines \in SUBSET Line, NEW line \in Line, NEW l \in Written(lines, line)
  PROVE  \/ l = line
         \/ \E m \in lines :
              /\ l.file = m.file /\ l.at = m.at /\ l.op = m.op
              /\ l = m \/ l.kind = "junk"
<1> DEFINE t == TornEnd(lines, line.file)
<1>1. t \subseteq lines
  BY TornEndIs
<1>2. l = line \/ l \in lines \/ l \in Junk(t)
  BY WrittenIs
<1>3. ASSUME l \in Junk(t)
      PROVE  \E m \in lines : /\ l.file = m.file /\ l.at = m.at /\ l.op = m.op
                              /\ l.kind = "junk"
  BY <1>1, <1>3, SpoiledLine DEF Junk
<1> QED
  BY <1>2, <1>3

LEMMA WrittenKeeps ==
  ASSUME NEW lines \in SUBSET Line, NEW line \in Line, line.kind \in {"entry", "torn"},
         Placed(lines, line.at, line.op), \A l \in lines : l.file <= line.file,
         FilesFollow(lines), Apart(lines)
  PROVE  LET after == Written(lines, line)
         IN  /\ Placed(after, line.at + 1, line.op + 1)
             /\ FilesFollow(after)
             /\ Apart(after)
             /\ OpsFollow(lines) => OpsFollow(after)
             /\ \A l \in after : l.file <= line.file
<1> DEFINE after == Written(lines, line)
           t == TornEnd(lines, line.file)
<1>0. \A l \in Line : l.at \in Nat /\ l.op \in Nat /\ l.file \in Nat /\ l.seq \in Nat
  BY DEF Line
<1>1. \A l \in after : l = line \/ \E m \in lines : l.file = m.file /\ l.at = m.at /\ l.op = m.op
  BY WrittenLines
<1>2. \A l \in after : IsEntry(l) => l = line \/ l \in lines
  BY WrittenLines DEF IsEntry
<1>3. Placed(after, line.at + 1, line.op + 1) /\ \A l \in after : l.file <= line.file
  <2> SUFFICES ASSUME NEW l \in after
               PROVE  l.at < line.at + 1 /\ l.op < line.op + 1 /\ l.file <= line.file
    BY DEF Placed
  <2>1. CASE l = line
    BY <2>1, <1>0
  <2>2. CASE \E m \in lines : l.file = m.file /\ l.at = m.at /\ l.op = m.op
    <3>1. PICK m \in lines : l.file = m.file /\ l.at = m.at /\ l.op = m.op
      BY <2>2
    <3>2. m \in Line
      OBVIOUS
    <3> QED
      BY <3>1, <3>2, <1>0 DEF Placed
  <2> QED
    BY <1>1, <2>1, <2>2
<1>4. FilesFollow(after)
  <2> SUFFICES ASSUME NEW a \in after, NEW b \in after, a.at < b.at PROVE a.file <= b.file
    BY DEF FilesFollow
  <2>1. CASE a = line
    <3>1. b = line \/ b.at < line.at
      BY <1>1 DEF Placed
    <3>2. b.at <= line.at /\ b.at \in Nat
      BY <3>1, <1>0, WrittenLines
    <3> QED
      BY <2>1, <3>2, <1>0
  <2>2. CASE b = line
    BY <2>2, <1>3
  <2>3. CASE a # line /\ b # line
    BY <2>3, <1>1 DEF FilesFollow
  <2> QED
    BY <2>1, <2>2, <2>3
<1>5. Apart(after)
  <2>1. CASE t = {}
    <3>1. after = lines \cup {line}
      BY <2>1, WrittenIs
    <3> HIDE DEF after
    <3> QED
      BY <3>1, <1>0 DEF Apart, Placed
  <2>2. CASE line.kind = "torn" /\ t # {}
    <3>1. after = lines
      BY <2>2, WrittenIs
    <3> QED
      BY <3>1
  <2>3. CASE line.kind # "torn" /\ t # {}
    <3>1. after = (lines \ t) \cup Junk(t)
      BY <2>3, WrittenIs
    <3>2. t \subseteq lines
      BY TornEndIs
    <3>3. \A l \in Junk(t) : \E m \in t : l = Spoiled(m) /\ l.at = m.at
      BY <3>2, SpoiledLine DEF Junk
    <3> HIDE DEF after, t
    <3> QED
      BY <3>1, <3>2, <3>3 DEF Apart
  <2> QED
    BY <2>1, <2>2, <2>3
<1>6. OpsFollow(lines) => OpsFollow(after)
  <2> SUFFICES ASSUME OpsFollow(lines), NEW a \in Entries(after), NEW b \in Entries(after), a.at < b.at
               PROVE  a.op < b.op
    BY DEF OpsFollow
  <2>1. (a = line \/ a \in Entries(lines)) /\ (b = line \/ b \in Entries(lines))
    BY <1>2 DEF Entries
  <2>2. \A l \in Entries(lines) : l \in lines
    BY DEF Entries
  <2>3. a = line => b.at < line.at \/ b = line
    BY <2>1, <2>2 DEF Placed
  <2>4. a # line
    BY <2>1, <2>2, <2>3, <1>0
  <2> QED
    BY <2>1, <2>2, <2>4 DEF OpsFollow, Placed
<1> HIDE DEF after
<1> QED
  BY <1>3, <1>4, <1>5, <1>6 DEF after

(* what holds of some lines holds of fewer *)
LEMMA FewerLines ==
  ASSUME NEW lines, NEW few \in SUBSET lines, NEW at, NEW op
  PROVE  /\ Placed(lines, at, op) => Placed(few, at, op)
         /\ FilesFollow(lines) => FilesFollow(few)
         /\ Apart(lines) => Apart(few)
         /\ OpsFollow(lines) => OpsFollow(few)
  BY DEF Placed, FilesFollow, Apart, OpsFollow, Entries

-----------------------------------------------------------------------------
(* Files and numbers *)

LEMMA BaseTypes ==
  ASSUME Base
  PROVE  /\ clock \in Nat /\ clock >= 1 /\ seq \in Nat
         /\ place \in Nat /\ next \in Nat /\ boot \in Nat /\ faults \in Nat /\ moves \in Nat /\ torn \in Nat
         /\ log \in SUBSET Line /\ archive \in SUBSET [line : Line, on : 1..clock] /\ IsFiniteSet(log)
         /\ files \in SUBSET (1..clock) /\ cur \in (1..clock) \cup {None}
         /\ acked \in SUBSET (0..next)
         /\ gone \in SUBSET {"cleanup", "truncate", "archive", "copy", "replaced"}
         /\ \A l \in log : l.file \in files
  BY DEF Base, TypeOK, LinesOK

LEMMA FilesFinite ==
  ASSUME Base
  PROVE  IsFiniteSet(files)
<1>1. IsFiniteSet(1..clock)
  <2>1. clock \in Int /\ 1 \in Int
    BY BaseTypes
  <2> QED
    BY ONLY <2>1, FS_Interval
<1> QED
  BY <1>1, BaseTypes, FS_Subset

LEMMA NoFile ==
  ASSUME Base
  PROVE  None \notin files
  BY BaseTypes, WalAssumption

(* the file written to is one that can exist, and the last by name *)
LEMMA WritesLast ==
  ASSUME Base
  PROVE  /\ CurrentFile(cur) \in 1..clock
         /\ \A g \in files : g <= CurrentFile(cur)
         /\ CurrentFile(None) = clock
         /\ Target \in 1..clock
         /\ \A g \in files : g <= Target
<1>1. CurrentFile(None) = clock /\ clock \in 1..clock
  BY NoFile, BaseTypes DEF CurrentFile
<1>2. \A g \in files : g <= clock
  BY BaseTypes
<1>3. CurrentFile(cur) \in 1..clock /\ \A g \in files : g <= CurrentFile(cur)
  BY <1>1, <1>2, BaseTypes DEF Base, AtNewest, CurrentFile
<1> QED
  BY <1>1, <1>2, <1>3 DEF Target

LEMMA LastSeqType ==
  ASSUME Base, NEW f
  PROVE  LastSeq(f) \in Nat
<1> DEFINE last == Entries(LastOf(LinesOf(f)))
<1>1. last \subseteq log
  BY DEF Entries, LastOf, LinesOf, InFile
<1>2. CASE last = {}
  BY <1>2 DEF LastSeq
<1>3. CASE last # {}
  <2>1. (CHOOSE l \in last : TRUE) \in last
    BY <1>3
  <2>2. (CHOOSE l \in last : TRUE) \in Line
    BY <2>1, <1>1, BaseTypes
  <2>3. (CHOOSE l \in last : TRUE).seq + 1 \in Nat
    BY <2>2 DEF Line
  <2> QED
    BY <1>3, <2>3 DEF LastSeq
<1> QED
  BY <1>2, <1>3

LEMMA SyncedType ==
  ASSUME Base, NEW c
  PROVE  SyncedSeq(c) \in Nat
  BY BaseTypes, LastSeqType DEF SyncedSeq

LEMMA NumberType ==
  ASSUME Base
  PROVE  Number \in Nat
  BY SyncedType DEF Number

LEMMA NewLineType ==
  ASSUME Base, NEW k \in {"entry", "torn"}
  PROVE  /\ NewLine(k) \in Line
         /\ NewLine(k).at = place /\ NewLine(k).op = next
         /\ NewLine(k).file = Target /\ NewLine(k).kind = k
<1>1. Target \in Nat
  BY WritesLast, BaseTypes
<1> QED
  BY <1>1, BaseTypes, NumberType DEF NewLine, Line

LEMMA LeftLines ==
  /\ FilesLeft \subseteq files
  /\ LinesLeft \subseteq log
  /\ \A l \in LinesLeft : l.file \in FilesLeft
  BY DEF FilesLeft, LinesLeft, Newest

-----------------------------------------------------------------------------
(* Base: types, and the order of lines *)

LEMMA BaseInit == Init => Base
<1> SUFFICES ASSUME Init PROVE Base
  OBVIOUS
<1>1. IsFiniteSet(log)
  BY FS_EmptySet DEF Init
<1>2. TypeOK
  BY DEF Init, TypeOK
<1>3. AtNewest /\ clock >= 1
  BY DEF Init, AtNewest
<1>4. LinesOK
  BY <1>1 DEF Init, LinesOK, Placed, FilesFollow, Apart, OpsFollow, Entries
<1> QED
  BY <1>2, <1>3, <1>4 DEF Base, Init

LEMMA AppendBase ==
  ASSUME Base, Rotated, seq' \in Nat, acked' \subseteq acked \cup {next},
         faults' \in Nat, torn' \in Nat,
         NEW k \in {"entry", "torn"}, log' = LinesLeft \/ log' = Written(LinesLeft, NewLine(k))
  PROVE  Base'
<1> DEFINE line == NewLine(k)
<1>0. next' = next + 1 /\ place' = place + 1 /\ cur' = Target /\ files' = FilesLeft \cup {Target}
      /\ clock' = clock /\ archive' = archive /\ boot' = boot /\ moves' = moves
      /\ gone' \in {gone, gone \cup {"cleanup"}}
  BY DEF Rotated
<1>1. /\ line \in Line /\ line.at = place /\ line.op = next /\ line.file = Target /\ line.kind = k
  BY NewLineType
<1>2. LinesLeft \in SUBSET log /\ LinesLeft \in SUBSET Line /\ IsFiniteSet(LinesLeft)
  BY LeftLines, BaseTypes, FS_Subset
<1>3. /\ Placed(LinesLeft, place, next) /\ FilesFollow(LinesLeft) /\ Apart(LinesLeft)
      /\ "copy" \notin gone => OpsFollow(LinesLeft)
  BY <1>2, FewerLines DEF Base, LinesOK
<1>4. \A l \in LinesLeft : l.file <= Target
  BY <1>2, WritesLast, BaseTypes
<1> HIDE DEF line
<1>5. LET after == Written(LinesLeft, line)
      IN  /\ Placed(after, place + 1, next + 1) /\ FilesFollow(after) /\ Apart(after)
          /\ OpsFollow(LinesLeft) => OpsFollow(after)
          /\ after \in SUBSET Line /\ IsFiniteSet(after)
  BY <1>1, <1>2, <1>3, <1>4, WrittenKeeps, WrittenType
<1>6. Placed(LinesLeft, place + 1, next + 1)
  <2> SUFFICES ASSUME NEW l \in LinesLeft PROVE l.at < place + 1 /\ l.op < next + 1
    BY DEF Placed
  <2>1. l.at \in Nat /\ l.op \in Nat
    BY <1>2 DEF Line
  <2> QED
    BY <2>1, <1>3, BaseTypes DEF Placed
<1>7. LinesOK' /\ log' \in SUBSET Line
  <2>1. CASE log' = LinesLeft
    BY <2>1, <1>0, <1>2, <1>3, <1>6 DEF LinesOK
  <2>2. CASE log' = Written(LinesLeft, line)
    BY <2>2, <1>0, <1>3, <1>5 DEF LinesOK
  <2> QED
    BY <2>1, <2>2 DEF line
<1>8. \A l \in log' : l.file \in files'
  <2>1. \A l \in LinesLeft : l.file \in files'
    BY <1>0, LeftLines
  <2>2. \A l \in Written(LinesLeft, line) : l.file \in files'
    BY <1>0, <1>1, <1>2, <2>1, WrittenLines
  <2> QED
    BY <2>1, <2>2 DEF line
<1>9. files' \subseteq 1..clock' /\ cur' \in (1..clock') \cup {None}
  BY <1>0, LeftLines, WritesLast, BaseTypes
<1>10. AtNewest'
  BY <1>0, LeftLines, WritesLast, BaseTypes DEF AtNewest
<1>11. acked' \subseteq 0..next' /\ \A o \in acked' : o < next'
  <2> SUFFICES ASSUME NEW o \in acked' PROVE o \in 0..(next + 1) /\ o < next + 1
    BY <1>0
  <2>1. o = next \/ (o \in 0..next /\ o < next)
    BY BaseTypes DEF Base
  <2> QED
    BY <2>1, BaseTypes
<1>12. gone' \subseteq {"cleanup", "truncate", "archive", "copy", "replaced"}
  BY <1>0, BaseTypes
<1>13. {place', next', boot', faults', moves', torn'} \subseteq Nat
  BY <1>0, BaseTypes
<1>14. TypeOK'
  BY <1>0, <1>7, <1>8, <1>9, <1>11, <1>12, <1>13, BaseTypes DEF TypeOK
<1> QED
  BY <1>0, <1>7, <1>10, <1>11, <1>14, BaseTypes DEF Base
(* The copies of some lines into the last file, behind everything written:  *)
(* each in the place of the line it copies, moved on.                       *)
Copies(kept, f) == {Copied(l, f, place) : l \in kept}

LEMMA CopiesOK ==
  ASSUME Base, NEW kept \in SUBSET Entries(log), NEW f \in 1..clock
  PROVE  /\ Copies(kept, f) \in SUBSET Line /\ IsFiniteSet(Copies(kept, f))
         /\ Placed(Copies(kept, f), place + place, next)
         /\ \A l \in Copies(kept, f) : l.file = f /\ l.at >= place
         /\ Apart(Copies(kept, f))
         /\ "copy" \notin gone => OpsFollow(Copies(kept, f))
<1> DEFINE after == Copies(kept, f)
<1>1. kept \in SUBSET log /\ kept \in SUBSET Line /\ IsFiniteSet(kept)
  BY BaseTypes, FS_Subset DEF Entries
<1>2. \A l \in Line : l.at \in Nat /\ l.op \in Nat
  BY DEF Line
<1>3. place \in Nat /\ f \in Nat
  BY BaseTypes
<1>4. \A c \in after : \E l \in kept :
          c = Copied(l, f, place) /\ c \in Line /\ c.file = f /\ c.at = l.at + place
          /\ c.op = l.op /\ c.kind = l.kind
  BY <1>1, <1>3, CopiedLine DEF Copies
<1>5. IsFiniteSet(after)
  <2> DEFINE g == [l \in kept |-> Copied(l, f, place)]
  <2>1. g \in Surjection(kept, after)
    BY DEF Surjection, Copies
  <2> QED
    BY <1>1, <2>1, FS_Surjection
<1> HIDE DEF after
<1>6. Placed(after, place + place, next)
  <2> SUFFICES ASSUME NEW c \in after PROVE c.at < place + place /\ c.op < next
    BY DEF Placed
  <2>1. PICK l \in kept : c.at = l.at + place /\ c.op = l.op
    BY <1>4
  <2>2. l.at < place /\ l.op < next /\ l.at \in Nat
    BY <1>1, <1>2 DEF Base, LinesOK, Placed
  <2> QED
    BY <2>1, <2>2, <1>3
<1>7. \A c \in after : c.file = f /\ c.at >= place
  <2> SUFFICES ASSUME NEW c \in after PROVE c.file = f /\ c.at >= place
    OBVIOUS
  <2>1. PICK l \in kept : c.at = l.at + place /\ c.file = f
    BY <1>4
  <2>2. l.at \in Nat
    BY <1>1, <1>2
  <2> QED
    BY <2>1, <2>2, <1>3
<1>8. Apart(after)
  <2> SUFFICES ASSUME NEW a \in after, NEW b \in after, a.at = b.at PROVE a = b
    BY DEF Apart
  <2>1. PICK l \in kept : a.at = l.at + place /\ a = Copied(l, f, place)
    BY <1>4
  <2>2. PICK m \in kept : b.at = m.at + place /\ b = Copied(m, f, place)
    BY <1>4
  <2>3. l.at \in Nat /\ m.at \in Nat
    BY <1>1, <1>2
  <2>4. l.at + place = m.at + place
    BY <2>1, <2>2
  <2>5. l.at = m.at
    BY <2>3, <2>4, <1>3
  <2>6. l = m
    BY <2>5, <1>1 DEF Base, LinesOK, Apart
  <2> QED
    BY <2>1, <2>2, <2>6
<1>9. "copy" \notin gone => OpsFollow(after)
  <2> SUFFICES ASSUME "copy" \notin gone, NEW a \in Entries(after), NEW b \in Entries(after), a.at < b.at
               PROVE  a.op < b.op
    BY DEF OpsFollow
  <2>1. PICK l \in kept : a.at = l.at + place /\ a.op = l.op
    BY <1>4 DEF Entries
  <2>2. PICK m \in kept : b.at = m.at + place /\ b.op = m.op
    BY <1>4 DEF Entries
  <2>3. l.at \in Nat /\ m.at \in Nat
    BY <1>1, <1>2
  <2>4. l.at < m.at
    BY <2>1, <2>2, <2>3, <1>3
  <2> QED
    BY <2>1, <2>2, <2>4 DEF Base, LinesOK, OpsFollow
<1> QED
  BY <1>4, <1>5, <1>6, <1>7, <1>8, <1>9 DEF after

(* The lines that other files keep, with copies written behind them.        *)
LEMMA WithCopies ==
  ASSUME NEW lines \in SUBSET Line, NEW copies \in SUBSET Line, NEW at \in Nat, NEW f \in Nat,
         FilesFollow(lines), Apart(lines), Apart(copies),
         \A l \in lines : l.at < at /\ l.file <= f,
         \A c \in copies : c.at >= at /\ c.file = f
  PROVE  FilesFollow(lines \cup copies) /\ Apart(lines \cup copies)
<1>1. \A l \in Line : l.at \in Nat /\ l.file \in Nat
  BY DEF Line
<1>2. \A l \in lines, c \in copies : l.at < c.at
  BY <1>1
<1>3. Apart(lines \cup copies)
  <2> SUFFICES ASSUME NEW a \in lines \cup copies, NEW b \in lines \cup copies, a.at = b.at
               PROVE  a = b
    BY DEF Apart
  <2>1. a \in lines /\ b \in copies => FALSE
    BY <1>1, <1>2
  <2>2. b \in lines /\ a \in copies => FALSE
    BY <1>1, <1>2
  <2> QED
    BY <2>1, <2>2 DEF Apart
<1>4. FilesFollow(lines \cup copies)
  <2> SUFFICES ASSUME NEW a \in lines \cup copies, NEW b \in lines \cup copies, a.at < b.at
               PROVE  a.file <= b.file
    BY DEF FilesFollow
  <2>1. CASE b \in copies
    <3>1. b.file = f /\ a.file <= f
      BY <2>1
    <3> QED
      BY <3>1
  <2>2. CASE b \in lines /\ b \notin copies
    <3>1. a \in copies => b.at < a.at
      BY <2>2, <1>2
    <3>2. a \in lines
      BY <3>1, <1>1
    <3> QED
      BY <2>2, <3>2 DEF FilesFollow
  <2> QED
    BY <2>1, <2>2
<1> QED
  BY <1>3, <1>4

LEMMA TruncateBase ==
  ASSUME Base, NEW n \in Nat, NEW kept \in SUBSET ToKeep(n), Truncate(n, kept), faults' \in Nat
  PROVE  Base'
<1> DEFINE f == CurrentFile(cur)
           others == {l \in log : l.file # f}
           copies == Copies(kept, f)
<1>0. /\ log' = others \cup copies /\ place' = place + place /\ cur' = f /\ files' = files \cup {f}
      /\ seq' = SyncedSeq(cur) /\ moves' = moves + 1 /\ clock' = clock /\ archive' = archive
      /\ next' = next /\ acked' = acked /\ boot' = boot /\ torn' = torn
      /\ gone' = gone \cup {"truncate"} \cup (IF Entries(others) # {} THEN {"copy"} ELSE {})
  BY DEF Truncate, Copies
<1>1. f \in 1..clock /\ \A g \in files : g <= f
  BY WritesLast
<1>2. kept \in SUBSET Entries(log)
  BY DEF ToKeep, Replay, ReplayOf
<1>3. others \in SUBSET log /\ others \in SUBSET Line /\ IsFiniteSet(others)
  BY BaseTypes, FS_Subset
<1>4. Placed(others, place, next) /\ FilesFollow(others) /\ Apart(others)
  BY <1>3, FewerLines DEF Base, LinesOK
<1>5. /\ copies \in SUBSET Line /\ IsFiniteSet(copies) /\ Placed(copies, place + place, next)
      /\ \A l \in copies : l.file = f /\ l.at >= place
      /\ Apart(copies)
      /\ "copy" \notin gone => OpsFollow(copies)
  BY <1>1, <1>2, CopiesOK
<1>6. \A l \in others : l.at < place /\ l.file <= f
  BY <1>1, <1>3, <1>4, BaseTypes DEF Placed
<1>7. place \in Nat /\ f \in Nat /\ next \in Nat
  BY <1>1, BaseTypes
<1> HIDE DEF f, others, copies
<1>8. FilesFollow(others \cup copies) /\ Apart(others \cup copies)
  BY <1>3, <1>4, <1>5, <1>6, <1>7, WithCopies
<1>9. Placed(others \cup copies, place + place, next)
  <2>1. \A l \in others : l.at \in Nat
    BY <1>3 DEF Line
  <2> QED
    BY <2>1, <1>4, <1>5, <1>7 DEF Placed
<1>10. "copy" \notin gone' => OpsFollow(others \cup copies)
  <2>1. "copy" \notin gone' => Entries(others) = {} /\ "copy" \notin gone
    BY <1>0
  <2>2. Entries(others) = {} => Entries(others \cup copies) = Entries(copies)
    BY DEF Entries
  <2> QED
    BY <2>1, <2>2, <1>5 DEF OpsFollow
<1>11. LinesOK'
  <2>1. IsFiniteSet(others \cup copies)
    BY <1>3, <1>5, FS_Union
  <2> QED
    BY <2>1, <1>0, <1>8, <1>9, <1>10 DEF LinesOK
<1>12. log' \subseteq Line /\ \A l \in log' : l.file \in files'
  BY <1>0, <1>3, <1>5, BaseTypes
<1>13. files' \subseteq 1..clock' /\ cur' \in (1..clock') \cup {None} /\ AtNewest'
  BY <1>0, <1>1, BaseTypes DEF AtNewest
<1>14. seq' \in Nat /\ {place', next', boot', faults', moves', torn'} \subseteq Nat
  BY <1>0, SyncedType, BaseTypes
<1>15. gone' \subseteq {"cleanup", "truncate", "archive", "copy", "replaced"}
  BY <1>0, BaseTypes
<1>16. acked' \subseteq 0..next' /\ (\A o \in acked' : o < next') /\ clock' \in Nat /\ clock' >= 1
       /\ archive' \subseteq [line : Line, on : 1..clock']
  BY <1>0, BaseTypes DEF Base
<1> QED
  BY <1>11, <1>12, <1>13, <1>14, <1>15, <1>16 DEF Base, TypeOK

(* some files are removed, after all their lines were copied *)
LEMMA ArchiveDone ==
  ASSUME Base, ArchiveCurrent \/ ArchiveFails
  PROVE  \E done, opened \in SUBSET files :
            \E copied \in SUBSET log :
               /\ Archive(done, opened, copied)
               /\ \A l \in log : l.file \in done => l \in copied
<1>1. CASE ArchiveCurrent
  BY <1>1, BaseTypes DEF ArchiveCurrent
<1>2. CASE ArchiveFails
  <2>1. PICK left \in SUBSET files :
           \E opened \in SUBSET left : \E part \in SUBSET {l \in log : l.file \in opened} :
              Archive(files \ left, (files \ left) \cup opened, part \cup {l \in log : l.file \notin left})
    BY <1>2 DEF ArchiveFails
  <2>2. PICK opened \in SUBSET left : \E part \in SUBSET {l \in log : l.file \in opened} :
           Archive(files \ left, (files \ left) \cup opened, part \cup {l \in log : l.file \notin left})
    BY <2>1
  <2>3. PICK part \in SUBSET {l \in log : l.file \in opened} :
           Archive(files \ left, (files \ left) \cup opened, part \cup {l \in log : l.file \notin left})
    BY <2>2
  <2> DEFINE copied == part \cup {l \in log : l.file \notin left}
  <2>4. /\ files \ left \in SUBSET files /\ (files \ left) \cup opened \in SUBSET files
        /\ copied \in SUBSET log /\ \A l \in log : l.file \in files \ left => l \in copied
    OBVIOUS
  <2> QED
    BY <2>3, <2>4
<1> QED
  BY <1>1, <1>2

LEMMA ArchiveBase ==
  ASSUME Base, ArchiveCurrent \/ ArchiveFails
  PROVE  Base'
<1>1. PICK done \in SUBSET files, opened \in SUBSET files, copied \in SUBSET log :
         Archive(done, opened, copied)
  BY ArchiveDone
<1>2. /\ files' = files \ done /\ moves' = moves + 1
      /\ log' = {l \in log : l.file \notin done}
      /\ archive' = {a \in archive : ~Replaced(a, opened)} \cup {Copy(l) : l \in copied}
      /\ UNCHANGED <<clock, cur, seq, place, next, acked, boot, torn>>
      /\ gone' \in {gone \cup {"archive"}, gone \cup {"archive", "replaced"}}
  BY <1>1 DEF Archive, memory
<1>3. faults' \in Nat
  BY BaseTypes DEF ArchiveCurrent, ArchiveFails
<1>4. log' \in SUBSET log /\ IsFiniteSet(log')
  BY <1>2, BaseTypes, FS_Subset
<1>5. LinesOK'
  BY <1>2, <1>4, FewerLines DEF Base, LinesOK
<1>6. AtNewest'
  BY <1>2 DEF Base, AtNewest
<1>7. TypeOK'
  <2>1. \A l \in copied : Copy(l) \in [line : Line, on : 1..clock]
    BY BaseTypes DEF Copy
  <2>2. archive' \subseteq [line : Line, on : 1..clock']
    BY <1>2, <2>1, BaseTypes
  <2> QED
    BY <1>2, <1>3, <1>4, <2>2, BaseTypes DEF TypeOK
<1> QED
  BY <1>2, <1>5, <1>6, <1>7, BaseTypes DEF Base

LEMMA RotationBase ==
  ASSUME Base, ForceRotation
  PROVE  Base'
<1>0. /\ files' \subseteq files /\ cur' \in {None, clock}
      /\ log' = {l \in log : l.file \in files'}
      /\ seq' = SyncedSeq(None)
      /\ UNCHANGED <<clock, archive, place, next, acked, boot, faults, moves, torn>>
      /\ gone' \in {gone, gone \cup {"cleanup"}}
  BY DEF ForceRotation, Newest
<1>1. log' \in SUBSET log /\ IsFiniteSet(log')
  BY <1>0, BaseTypes, FS_Subset
<1>2. LinesOK'
  BY <1>0, <1>1, FewerLines DEF Base, LinesOK
<1>3. AtNewest'
  BY <1>0, NoFile, BaseTypes DEF AtNewest
<1>4. seq' \in Nat
  BY <1>0, SyncedType
<1>5. TypeOK'
  BY <1>0, <1>1, <1>4, BaseTypes DEF TypeOK
<1> QED
  BY <1>0, <1>2, <1>3, <1>5, BaseTypes DEF Base

LEMMA TickBase ==
  ASSUME Base, Tick
  PROVE  Base'
<1>0. /\ clock' = clock + 1
      /\ UNCHANGED <<files, log, archive, cur, seq, place, next, acked, boot, faults, moves, torn, gone>>
  BY DEF Tick, disk, memory, history
<1>1. TypeOK'
  BY <1>0, BaseTypes DEF TypeOK
<1> QED
  BY <1>0, <1>1, BaseTypes DEF Base, AtNewest, LinesOK

LEMMA CrashBase ==
  ASSUME Base, Crash
  PROVE  Base'
<1>0. /\ cur' = None /\ seq' = 0 /\ boot' = boot + 1
      /\ UNCHANGED <<clock, files, log, archive, place, next, acked, faults, moves, torn, gone>>
  BY DEF Crash, disk
<1>1. TypeOK'
  BY <1>0, BaseTypes DEF TypeOK
<1>2. AtNewest'
  BY <1>0, NoFile DEF AtNewest
<1> QED
  BY <1>0, <1>1, <1>2, BaseTypes DEF Base, LinesOK
LEMMA BaseNext ==
  ASSUME Base, [Next]_vars
  PROVE  Base'
<1>1. CASE AppendEntry
  <2>1. /\ Rotated /\ seq' = Number + 1 /\ acked' = acked \cup {next} /\ faults' = faults /\ torn' = torn
        /\ log' = Written(LinesLeft, NewLine("entry"))
    BY <1>1 DEF AppendEntry
  <2>2. seq' \in Nat /\ faults' \in Nat /\ torn' \in Nat
    BY <2>1, NumberType, BaseTypes
  <2> QED
    BY <2>1, <2>2, AppendBase
<1>2. ASSUME NEW how \in Faults, AppendFails(how) PROVE Base'
  <2>1. /\ Rotated /\ seq' = Number /\ acked' = acked /\ faults' = faults + 1
        /\ torn' \in {torn, torn + 1} /\ how \in {"open", "torn", "sync"}
    BY <1>2, WalAssumption DEF AppendFails
  <2>2. seq' \in Nat /\ faults' \in Nat /\ torn' \in Nat
    BY <2>1, NumberType, BaseTypes
  <2>3. \E k \in {"entry", "torn"} : log' = LinesLeft \/ log' = Written(LinesLeft, NewLine(k))
    BY <1>2, <2>1 DEF AppendFails
  <2> QED
    BY <2>1, <2>2, <2>3, AppendBase
<1>3. ASSUME NEW n \in 0..MaxAppends, TruncateAll(n) \/ TruncateFails(n) PROVE Base'
  <2>1. n \in Nat
    BY WalAssumption
  <2>2. \E kept \in SUBSET ToKeep(n) : Truncate(n, kept)
    BY <1>3 DEF TruncateAll, TruncateFails
  <2>3. faults' \in Nat
    BY <1>3, BaseTypes DEF TruncateAll, TruncateFails
  <2> QED
    BY <2>1, <2>2, <2>3, TruncateBase
<1>4. CASE UNCHANGED vars
  BY <1>4 DEF vars, disk, memory, history, Base, TypeOK, AtNewest, LinesOK
<1> QED
  BY <1>1, <1>2, <1>3, <1>4, ArchiveBase, RotationBase, TickBase, CrashBase DEF Next

-----------------------------------------------------------------------------
(* What a cut write hides *)

LEMMA OneMore ==
  ASSUME NEW S, NEW x, IsFiniteSet(S)
  PROVE  /\ IsFiniteSet(S \cup {x})
         /\ Cardinality(S) \in Nat
         /\ Cardinality(S \cup {x}) \in Nat
         /\ Cardinality(S \cup {x}) <= Cardinality(S) + 1
<1>1. Cardinality(S) \in Nat /\ IsFiniteSet(S \cup {x})
  BY FS_CardinalityType, FS_AddElement
<1>2. Cardinality(S \cup {x}) = Cardinality(S) \/ Cardinality(S \cup {x}) = Cardinality(S) + 1
  BY FS_AddElement
<1> QED
  BY <1>1, <1>2

LEMMA FewerThan ==
  ASSUME NEW S, NEW T \in SUBSET S, IsFiniteSet(S)
  PROVE  /\ IsFiniteSet(T) /\ Cardinality(T) \in Nat /\ Cardinality(S) \in Nat
         /\ Cardinality(T) <= Cardinality(S)
<1>1. IsFiniteSet(T) /\ Cardinality(T) <= Cardinality(S)
  BY FS_Subset
<1> QED
  BY <1>1, FS_CardinalityType

LEMMA Sizes ==
  ASSUME Base
  PROVE  /\ IsFiniteSet(acked) /\ IsFiniteSet(Hidden) /\ Cardinality(Hidden) \in Nat
         /\ IsFiniteSet(Cut(log)) /\ Cardinality(Cut(log)) \in Nat
<1>1. IsFiniteSet(0..next)
  <2>1. next \in Int /\ 0 \in Int
    BY BaseTypes
  <2> QED
    BY ONLY <2>1, FS_Interval
<1>2. IsFiniteSet(acked)
  BY <1>1, BaseTypes, FS_Subset
<1>3. Hidden \in SUBSET acked /\ Cut(log) \in SUBSET log
  BY DEF Hidden, Cut
<1>4. IsFiniteSet(log)
  BY BaseTypes
<1> QED
  BY <1>2, <1>3, <1>4, FewerThan

(* a write with no removal of files: what is found stays found, and an      *)
(* entry is found or takes the place of a half line                         *)
LEMMA WriteHides ==
  ASSUME Base, NEW k \in {"entry", "torn"}, log' = Written(log, NewLine(k)), archive' = archive
  PROVE  /\ Found \subseteq Found'
         /\ k = "torn" => Cardinality(Cut(log')) <= Cardinality(Cut(log)) + 1
         /\ k = "entry" => \/ next \in Found' /\ Cut(log') = Cut(log)
                           \/ Cardinality(Cut(log')) <= Cardinality(Cut(log)) - 1
<1> DEFINE line == NewLine(k)
           t == TornEnd(log, line.file)
<1>1. line \in Line /\ line.op = next /\ line.kind = k
  BY NewLineType
<1>2. t \subseteq log /\ \A l \in t : l.kind = "torn"
  BY TornEndIs
<1>3. \A l \in Junk(t) : l.kind = "junk"
  BY <1>2, SpoiledLine, BaseTypes DEF Junk
<1>4. log' = IF t = {} THEN log \cup {line} ELSE IF k = "torn" THEN log ELSE (log \ t) \cup Junk(t)
  BY <1>1, WrittenIs
<1> HIDE DEF line, t
<1>5. CASE t = {}
  <2>1. log' = log \cup {line}
    BY <1>4, <1>5
  <2>2. Found \subseteq Found'
    BY <2>1 DEF Found, RecoverFromArchive, OpsOf, Entries
  <2>3. k = "entry" => next \in Found' /\ Cut(log') = Cut(log)
    BY <2>1, <1>1 DEF Found, OpsOf, Entries, IsEntry, Cut
  <2>4. k = "torn" => Cut(log') = Cut(log) \cup {line}
    BY <2>1, <1>1 DEF Cut
  <2>5. Cardinality(Cut(log) \cup {line}) <= Cardinality(Cut(log)) + 1
    BY Sizes, OneMore
  <2> QED
    BY <2>2, <2>3, <2>4, <2>5
<1>6. CASE t # {} /\ k = "torn"
  <2>1. log' = log
    BY <1>4, <1>6
  <2> QED
    BY <2>1, <1>6, Sizes DEF Found, RecoverFromArchive
<1>7. CASE t # {} /\ k = "entry"
  <2>1. log' = (log \ t) \cup Junk(t)
    BY <1>4, <1>7
  <2>2. Entries(log') = Entries(log)
    BY <2>1, <1>2, <1>3 DEF Entries, IsEntry
  <2>3. Cut(log') = Cut(log) \ t
    BY <2>1, <1>3 DEF Cut
  <2>4. PICK x \in t : x \in Cut(log)
    BY <1>2, <1>7 DEF Cut
  <2>5. Cut(log') \subseteq Cut(log) \ {x}
    BY <2>3, <2>4
  <2>6. IsFiniteSet(Cut(log) \ {x}) /\ Cardinality(Cut(log) \ {x}) = Cardinality(Cut(log)) - 1
    BY <2>4, Sizes, FS_RemoveElement
  <2>7. Cardinality(Cut(log')) <= Cardinality(Cut(log)) - 1
    BY <2>5, <2>6, FS_Subset
  <2> QED
    BY <2>2, <2>7, <1>7 DEF Found, RecoverFromArchive
<1> QED
  BY <1>5, <1>6, <1>7

LEMMA NothingRemoved ==
  ASSUME Base, FilesLeft = files
  PROVE  LinesLeft = log
  BY BaseTypes DEF LinesLeft

LEMMA AppendHidden ==
  ASSUME Base, HiddenOK, Base', AppendEntry
  PROVE  HiddenOK'
<1>0. /\ Rotated /\ acked' = acked \cup {next} /\ torn' = torn
      /\ log' = Written(LinesLeft, NewLine("entry"))
  BY DEF AppendEntry
<1> SUFFICES ASSUME gone' \subseteq {"archive"}
             PROVE  Cardinality(Hidden') + Cardinality(Cut(log')) <= torn
  BY <1>0 DEF HiddenOK
<1>1. FilesLeft = files /\ gone' = gone /\ archive' = archive
  BY <1>0 DEF Rotated
<1>2. log' = Written(log, NewLine("entry"))
  BY <1>0, <1>1, NothingRemoved
<1>3. /\ Found \subseteq Found'
      /\ \/ next \in Found' /\ Cut(log') = Cut(log)
         \/ Cardinality(Cut(log')) <= Cardinality(Cut(log)) - 1
  BY <1>1, <1>2, WriteHides
<1>4. Cardinality(Hidden) + Cardinality(Cut(log)) <= torn
  BY <1>1 DEF HiddenOK
<1>5. /\ Cardinality(Hidden) \in Nat /\ Cardinality(Cut(log)) \in Nat /\ IsFiniteSet(Hidden)
      /\ Cardinality(Cut(log')) \in Nat /\ torn \in Nat
  <2>1. IsFiniteSet(log')
    BY DEF Base, LinesOK
  <2>2. Cut(log') \in SUBSET log'
    BY DEF Cut
  <2> QED
    BY <2>1, <2>2, Sizes, BaseTypes, FewerThan
<1>6. CASE next \in Found' /\ Cut(log') = Cut(log)
  <2>1. Hidden' \in SUBSET Hidden
    BY <1>0, <1>3, <1>6 DEF Hidden
  <2>2. Cardinality(Hidden') <= Cardinality(Hidden) /\ Cardinality(Hidden') \in Nat
    BY <2>1, <1>5, FewerThan
  <2> QED
    BY <2>2, <1>4, <1>5, <1>6
<1>7. CASE Cardinality(Cut(log')) <= Cardinality(Cut(log)) - 1
  <2>1. Hidden' \in SUBSET (Hidden \cup {next})
    BY <1>0, <1>3 DEF Hidden
  <2>2. /\ IsFiniteSet(Hidden \cup {next}) /\ Cardinality(Hidden \cup {next}) \in Nat
        /\ Cardinality(Hidden \cup {next}) <= Cardinality(Hidden) + 1
    BY <1>5, OneMore
  <2>3. Cardinality(Hidden') <= Cardinality(Hidden \cup {next}) /\ Cardinality(Hidden') \in Nat
    BY <2>1, <2>2, FewerThan
  <2> QED
    BY <2>2, <2>3, <1>4, <1>5, <1>7
<1> QED
  BY <1>3, <1>6, <1>7

LEMMA FailureHidden ==
  ASSUME Base, HiddenOK, Base', NEW how \in Faults, AppendFails(how)
  PROVE  HiddenOK'
<1>0. /\ Rotated /\ acked' = acked /\ how \in {"open", "torn", "sync"}
      /\ torn' = IF how = "torn" THEN torn + 1 ELSE torn
      /\ how = "open" => log' = LinesLeft
      /\ how = "torn" => log' = Written(LinesLeft, NewLine("torn"))
      /\ how = "sync" => log' = Written(LinesLeft, NewLine("entry"))
  BY WalAssumption DEF AppendFails
<1> SUFFICES ASSUME gone' \subseteq {"archive"}
             PROVE  Cardinality(Hidden') + Cardinality(Cut(log')) <= torn'
  BY DEF HiddenOK, Hidden
<1>1. FilesLeft = files /\ gone' = gone /\ archive' = archive
  BY <1>0 DEF Rotated
<1>2. LinesLeft = log
  BY <1>1, NothingRemoved
<1>3. Cardinality(Hidden) + Cardinality(Cut(log)) <= torn
  BY <1>1 DEF HiddenOK
<1>4. /\ Cardinality(Hidden) \in Nat /\ Cardinality(Cut(log)) \in Nat /\ IsFiniteSet(Hidden)
      /\ Cardinality(Cut(log')) \in Nat /\ torn \in Nat
  <2>1. IsFiniteSet(log')
    BY DEF Base, LinesOK
  <2>2. Cut(log') \in SUBSET log'
    BY DEF Cut
  <2> QED
    BY <2>1, <2>2, Sizes, BaseTypes, FewerThan
<1>5. ASSUME Found \subseteq Found'
      PROVE  Cardinality(Hidden') <= Cardinality(Hidden) /\ Cardinality(Hidden') \in Nat
  <2>1. Hidden' \in SUBSET Hidden
    BY <1>0, <1>5 DEF Hidden
  <2> QED
    BY <2>1, <1>4, FewerThan
<1>6. CASE how = "open"
  <2>1. log' = log /\ Found' = Found /\ torn' = torn
    BY <1>0, <1>1, <1>2, <1>6 DEF Found, RecoverFromArchive
  <2> QED
    BY <2>1, <1>3, <1>4, <1>5
<1>7. CASE how = "torn"
  <2>1. Found \subseteq Found' /\ Cardinality(Cut(log')) <= Cardinality(Cut(log)) + 1 /\ torn' = torn + 1
    BY <1>0, <1>1, <1>2, <1>7, WriteHides
  <2> QED
    BY <2>1, <1>3, <1>4, <1>5
<1>8. CASE how = "sync"
  <2>1. Found \subseteq Found' /\ torn' = torn
        /\ (Cut(log') = Cut(log) \/ Cardinality(Cut(log')) <= Cardinality(Cut(log)) - 1)
    BY <1>0, <1>1, <1>2, <1>8, WriteHides
  <2>2. Cardinality(Cut(log')) <= Cardinality(Cut(log))
    BY <2>1, <1>4
  <2> QED
    BY <2>1, <2>2, <1>3, <1>4, <1>5
<1> QED
  BY <1>0, <1>6, <1>7, <1>8

LEMMA ArchiveHidden ==
  ASSUME Base, HiddenOK, ArchiveCurrent \/ ArchiveFails
  PROVE  HiddenOK'
<1> SUFFICES ASSUME gone' \subseteq {"archive"}
             PROVE  Cardinality(Hidden') + Cardinality(Cut(log')) <= torn'
  BY DEF HiddenOK, Hidden
<1>1. PICK done \in SUBSET files, opened \in SUBSET files, copied \in SUBSET log :
         Archive(done, opened, copied) /\ \A l \in log : l.file \in done => l \in copied
  BY ArchiveDone
<1>2. /\ log' = {l \in log : l.file \notin done} /\ acked' = acked /\ torn' = torn
      /\ archive' = {a \in archive : ~Replaced(a, opened)} \cup {Copy(l) : l \in copied}
      /\ gone \subseteq {"archive"}
      /\ \A a \in archive : Replaced(a, opened) /\ IsEntry(a.line) => a.line \in log
  BY <1>1 DEF Archive
<1>3. Found \subseteq Found'
  <2>1. ASSUME NEW l \in log, IsEntry(l) PROVE l.op \in Found'
    <3>1. CASE l \in log'
      BY <2>1, <3>1 DEF Found, OpsOf, Entries
    <3>2. CASE l \notin log'
      <4>1. Copy(l) \in archive' /\ Copy(l).line = l
        BY <1>1, <1>2, <3>2 DEF Copy
      <4> QED
        BY <2>1, <4>1 DEF Found, OpsOf, Entries, RecoverFromArchive
    <3> QED
      BY <3>1, <3>2
  <2>2. ASSUME NEW a \in archive, IsEntry(a.line) PROVE a.line.op \in Found'
    <3>1. CASE a \in archive'
      BY <2>2, <3>1 DEF Found, OpsOf, Entries, RecoverFromArchive
    <3>2. CASE a \notin archive'
      BY <1>2, <2>1, <2>2, <3>2
    <3> QED
      BY <3>1, <3>2
  <2> QED
    BY <2>1, <2>2 DEF Found, OpsOf, Entries, RecoverFromArchive
<1>4. Hidden' \in SUBSET Hidden /\ Cut(log') \in SUBSET Cut(log)
  BY <1>2, <1>3 DEF Hidden, Cut
<1>5. Cardinality(Hidden) + Cardinality(Cut(log)) <= torn
  BY <1>2 DEF HiddenOK
<1>6. /\ Cardinality(Hidden') <= Cardinality(Hidden) /\ Cardinality(Hidden') \in Nat
      /\ Cardinality(Cut(log')) <= Cardinality(Cut(log)) /\ Cardinality(Cut(log')) \in Nat
  BY <1>4, Sizes, FewerThan
<1> QED
  BY <1>2, <1>5, <1>6, Sizes, BaseTypes

LEMMA SameHidden ==
  ASSUME HiddenOK, gone \subseteq gone', UNCHANGED <<acked, torn, archive>>,
         gone' \subseteq {"archive"} => log' = log
  PROVE  HiddenOK'
  BY DEF HiddenOK, Hidden, Found, RecoverFromArchive

LEMMA HiddenNext ==
  ASSUME Base, HiddenOK, Base', [Next]_vars
  PROVE  HiddenOK'
<1>1. ASSUME NEW n \in 0..MaxAppends, TruncateAll(n) \/ TruncateFails(n) PROVE HiddenOK'
  <2>1. "truncate" \in gone'
    BY <1>1 DEF TruncateAll, TruncateFails, Truncate
  <2> QED
    BY <2>1 DEF HiddenOK
<1>2. CASE ForceRotation
  <2>1. /\ log' = {l \in log : l.file \in files'} /\ gone \subseteq gone'
        /\ files' # files => "cleanup" \in gone'
        /\ UNCHANGED <<acked, torn, archive>>
    BY <1>2 DEF ForceRotation
  <2>2. gone' \subseteq {"archive"} => log' = log
    BY <2>1, BaseTypes
  <2> QED
    BY <2>1, <2>2, SameHidden
<1>3. CASE Tick \/ Crash \/ UNCHANGED vars
  BY <1>3, SameHidden DEF Tick, Crash, vars, disk, memory, history
<1> QED
  BY <1>1, <1>2, <1>3, AppendHidden, FailureHidden, ArchiveHidden DEF Next

-----------------------------------------------------------------------------
(* What a rotation leaves *)

(* without failed writes and with no other removal than by rotations *)
AllEntries == \A l \in log : IsEntry(l) /\ l.op \in acked
NoEmptyFile == \A f \in files : LinesOf(f) # {}
Recent == \A o \in acked : o \in OpsOf(log) \/ Cardinality(Later(o)) >= Keep

LEMMA LaterFinite ==
  ASSUME Base, NEW o
  PROVE  IsFiniteSet(Later(o)) /\ Cardinality(Later(o)) \in Nat
<1>1. IsFiniteSet(acked) /\ Later(o) \in SUBSET acked
  BY Sizes DEF Later
<1> QED
  BY <1>1, FewerThan

(* lines in a later file are later calls *)
LEMMA LaterFile ==
  ASSUME Base, "copy" \notin gone, NEW a \in Entries(log), NEW b \in Entries(log), a.file < b.file
  PROVE  a.op < b.op
<1>1. a \in log /\ b \in log
  BY DEF Entries
<1>2. a.at \in Nat /\ b.at \in Nat /\ a.file \in Nat /\ b.file \in Nat
  BY <1>1, BaseTypes DEF Line
<1>3. ~(b.at < a.at)
  BY <1>1, <1>2 DEF Base, LinesOK, FilesFollow
<1>4. a.at # b.at
  BY <1>1, <1>2 DEF Base, LinesOK, Apart
<1>5. a.at < b.at
  BY <1>2, <1>3, <1>4
<1> QED
  BY <1>5 DEF Base, LinesOK, OpsFollow

(* A removed file has Keep files after it, each with an entry of its own.   *)
LEMMA RemovedHasLater ==
  ASSUME Base, "copy" \notin gone, AllEntries, NoEmptyFile,
         NEW l \in log, l.file \notin Newest(Keep)
  PROVE  Cardinality(Later(l.op)) >= Keep
<1> DEFINE H == {g \in files : g > l.file}
           W(g) == CHOOSE m \in LinesOf(g) : TRUE
           op == [g \in H |-> W(g).op]
<1>1. IsFiniteSet(H) /\ Cardinality(H) \in Nat
  BY FilesFinite, FewerThan
<1>2. Cardinality(H) >= Keep
  <2>1. l.file \in files
    BY BaseTypes
  <2>2. ~(Cardinality(H) < Keep)
    BY <2>1 DEF Newest
  <2>3. Keep \in Nat
    BY WalAssumption
  <2> HIDE DEF H
  <2> QED
    BY <1>1, <2>2, <2>3
<1>3. \A g \in H : W(g) \in Entries(log) /\ W(g).file = g /\ W(g).op \in acked
  <2> SUFFICES ASSUME NEW g \in H PROVE W(g) \in Entries(log) /\ W(g).file = g /\ W(g).op \in acked
    OBVIOUS
  <2>1. LinesOf(g) # {}
    BY DEF NoEmptyFile
  <2>2. W(g) \in LinesOf(g)
    BY <2>1
  <2>3. W(g) \in log /\ W(g).file = g
    BY <2>2 DEF LinesOf, InFile
  <2> QED
    BY <2>3 DEF AllEntries, Entries
<1>4. l \in Entries(log)
  BY DEF AllEntries, Entries
<1> HIDE DEF W
<1>5. op \in [H -> Later(l.op)]
  <2> SUFFICES ASSUME NEW g \in H PROVE W(g).op \in Later(l.op)
    OBVIOUS
  <2>1. l.file < W(g).file
    BY <1>3, BaseTypes DEF Line
  <2>2. l.op < W(g).op
    BY <2>1, <1>3, <1>4, LaterFile
  <2>3. l.op \in Nat /\ W(g).op \in Nat
    BY <1>3, BaseTypes DEF Line, Entries
  <2> QED
    BY <2>2, <2>3, <1>3 DEF Later
<1>6. \A g, h \in H : op[g] = op[h] => g = h
  <2> SUFFICES ASSUME NEW g \in H, NEW h \in H, W(g).op = W(h).op PROVE g = h
    OBVIOUS
  <2>1. g \in Nat /\ h \in Nat /\ W(g).op \in Nat
    BY <1>3, BaseTypes DEF Line, Entries
  <2>2. ~(g < h) /\ ~(h < g)
    BY <2>1, <1>3, LaterFile
  <2> QED
    BY <2>1, <2>2
<1>7. op \in Injection(H, Later(l.op))
  <2>1. DOMAIN op = H
    OBVIOUS
  <2> HIDE DEF op, H
  <2> QED
    BY <1>5, <1>6, <2>1 DEF Injection, IsInjective
<1>8. Cardinality(H) <= Cardinality(Later(l.op))
  BY <1>7, LaterFinite, FS_Injection
<1> HIDE DEF H
<1> QED
  BY <1>1, <1>2, <1>8, LaterFinite, WalAssumption

(* a rotation keeps what is recent *)
LEMMA RotationKeeps ==
  ASSUME Base, "copy" \notin gone, AllEntries, NoEmptyFile, Recent,
         NEW left \in {files, Newest(Keep)}, NEW o \in acked
  PROVE  o \in OpsOf({l \in log : l.file \in left}) \/ Cardinality(Later(o)) >= Keep
<1>1. CASE o \notin OpsOf(log)
  BY <1>1 DEF Recent
<1>2. CASE o \in OpsOf(log)
  <2>1. PICK l \in log : l.op = o
    BY <1>2 DEF OpsOf
  <2>2. CASE l.file \in left
    BY <2>1, <2>2 DEF OpsOf
  <2>3. CASE l.file \notin left
    <3>1. left = Newest(Keep)
      BY <2>3, BaseTypes
    <3> QED
      BY <2>1, <2>3, <3>1, RemovedHasLater
  <2> QED
    BY <2>2, <2>3
<1> QED
  BY <1>1, <1>2
(* without a half line a write adds its line *)
LEMMA PlainWrite ==
  ASSUME NEW lines, NEW line, \A l \in lines : IsEntry(l)
  PROVE  Written(lines, line) = lines \cup {line}
<1>1. TornEnd(lines, line.file) = {}
  BY TornEndIs DEF IsEntry
<1> QED
  BY <1>1, WrittenIs

LEMMA AppendPlain ==
  ASSUME Base, Plain, Base', AppendEntry
  PROVE  Plain'
<1>0. /\ Rotated /\ acked' = acked \cup {next} /\ faults' = faults
      /\ log' = Written(LinesLeft, NewLine("entry"))
  BY DEF AppendEntry
<1> DEFINE line == NewLine("entry")
<1> SUFFICES ASSUME faults' = 0, gone' \subseteq {"cleanup"}
             PROVE  AllEntries' /\ NoEmptyFile' /\ Recent'
  BY DEF Plain, AllEntries, NoEmptyFile, Recent
<1>1. files' = FilesLeft \cup {Target} /\ gone \subseteq gone'
  BY <1>0 DEF Rotated
<1>2. AllEntries /\ NoEmptyFile /\ Recent /\ "copy" \notin gone
  BY <1>0, <1>1 DEF Plain, AllEntries, NoEmptyFile, Recent
<1>3. line.op = next /\ line.kind = "entry" /\ line.file = Target
  BY NewLineType
<1>4. log' = LinesLeft \cup {line}
  BY <1>0, <1>2, LeftLines, PlainWrite DEF AllEntries
<1> HIDE DEF line
<1>5. AllEntries'
  BY <1>0, <1>2, <1>3, <1>4, LeftLines DEF AllEntries, IsEntry
<1>6. NoEmptyFile'
  <2> SUFFICES ASSUME NEW f \in files' PROVE \E l \in log' : l.file = f
    BY DEF NoEmptyFile, LinesOf, InFile
  <2>1. CASE f = Target
    BY <2>1, <1>3, <1>4
  <2>2. CASE f \in FilesLeft
    <3>1. PICK l \in log : l.file = f
      BY <2>2, <1>2, LeftLines DEF NoEmptyFile, LinesOf, InFile
    <3>2. l \in LinesLeft
      BY <2>2, <3>1 DEF LinesLeft
    <3> QED
      BY <3>1, <3>2, <1>4
  <2> QED
    BY <1>1, <2>1, <2>2
<1>7. \A o \in acked : Cardinality(Later(o)') >= Cardinality(Later(o))
  <2> SUFFICES ASSUME NEW o \in acked PROVE Cardinality(Later(o)') >= Cardinality(Later(o))
    OBVIOUS
  <2>1. Later(o) \in SUBSET Later(o)'
    BY <1>0 DEF Later
  <2>2. IsFiniteSet(acked \cup {next})
    BY Sizes, OneMore
  <2>3. Later(o)' \in SUBSET (acked \cup {next})
    BY <1>0 DEF Later
  <2>4. IsFiniteSet(Later(o)')
    BY <2>2, <2>3, FewerThan
  <2> QED
    BY <2>1, <2>4, FewerThan
<1>8. Recent'
  <2> SUFFICES ASSUME NEW o \in acked', o \notin OpsOf(log') PROVE Cardinality(Later(o)') >= Keep
    BY DEF Recent
  <2>1. o \in acked
    BY <1>0, <1>3, <1>4 DEF OpsOf
  <2>2. o \in OpsOf(LinesLeft) \/ Cardinality(Later(o)) >= Keep
    BY <2>1, <1>2, RotationKeeps DEF FilesLeft, LinesLeft
  <2>3. Cardinality(Later(o)) >= Keep
    BY <2>2, <1>4 DEF OpsOf
  <2>4. Cardinality(Later(o)') >= Cardinality(Later(o)) /\ Cardinality(Later(o)) \in Nat /\ Keep \in Nat
    BY <2>1, <1>7, LaterFinite, WalAssumption
  <2>5. Cardinality(Later(o)') \in Nat
    <3>1. Later(o)' \in SUBSET (acked \cup {next})
      BY <1>0 DEF Later
    <3>2. IsFiniteSet(acked \cup {next})
      BY Sizes, OneMore
    <3> QED
      BY <3>1, <3>2, FewerThan
  <2> QED
    BY <2>3, <2>4, <2>5
<1> QED
  BY <1>5, <1>6, <1>8

LEMMA RotationPlain ==
  ASSUME Base, Plain, ForceRotation
  PROVE  Plain'
<1>0. /\ files' \in {files, Newest(Keep)} /\ log' = {l \in log : l.file \in files'}
      /\ gone \subseteq gone' /\ acked' = acked /\ faults' = faults
  BY DEF ForceRotation
<1> SUFFICES ASSUME faults' = 0, gone' \subseteq {"cleanup"}
             PROVE  AllEntries' /\ NoEmptyFile' /\ Recent'
  BY DEF Plain, AllEntries, NoEmptyFile, Recent
<1>1. AllEntries /\ NoEmptyFile /\ Recent /\ "copy" \notin gone
  BY <1>0 DEF Plain, AllEntries, NoEmptyFile, Recent
<1>2. AllEntries'
  BY <1>0, <1>1 DEF AllEntries
<1>3. NoEmptyFile'
  <2>1. files' \subseteq files
    BY <1>0 DEF Newest
  <2> QED
    BY <2>1, <1>0, <1>1 DEF NoEmptyFile, LinesOf, InFile
<1>4. Recent'
  <2> SUFFICES ASSUME NEW o \in acked PROVE o \in OpsOf(log') \/ Cardinality(Later(o)) >= Keep
    BY <1>0 DEF Recent, Later
  <2> QED
    BY <1>0, <1>1, RotationKeeps
<1> QED
  BY <1>2, <1>3, <1>4

LEMMA PlainNext ==
  ASSUME Base, Plain, Base', [Next]_vars
  PROVE  Plain'
<1>1. ASSUME NEW how \in Faults, AppendFails(how) PROVE Plain'
  <2>1. faults' # 0
    BY <1>1, BaseTypes DEF AppendFails
  <2> QED
    BY <2>1 DEF Plain
<1>2. ASSUME NEW n \in 0..MaxAppends, TruncateAll(n) \/ TruncateFails(n) PROVE Plain'
  <2>1. "truncate" \in gone'
    BY <1>2 DEF TruncateAll, TruncateFails, Truncate
  <2> QED
    BY <2>1 DEF Plain
<1>3. CASE ArchiveCurrent \/ ArchiveFails
  <2>1. "archive" \in gone'
    BY <1>3 DEF ArchiveCurrent, ArchiveFails, Archive
  <2> QED
    BY <2>1 DEF Plain
<1>4. CASE Tick \/ Crash \/ UNCHANGED vars
  BY <1>4 DEF Plain, Tick, Crash, vars, disk, memory, history, Later, LinesOf
<1> QED
  BY <1>1, <1>2, <1>3, <1>4, AppendPlain, RotationPlain DEF Next

-----------------------------------------------------------------------------
(* The theorems *)

LEMMA WalInit == Init => WalInv
<1> SUFFICES ASSUME Init PROVE WalInv
  OBVIOUS
<1>1. Base
  BY BaseInit
<1>2. Hidden = {} /\ Cut(log) = {} /\ torn = 0
  BY DEF Init, Hidden, Cut
<1>3. HiddenOK
  BY <1>2, FS_EmptySet DEF HiddenOK
<1>4. Plain
  BY DEF Init, Plain
<1> QED
  BY <1>1, <1>3, <1>4 DEF WalInv

LEMMA WalAlways == Spec => []WalInv
<1>1. WalInv /\ [Next]_vars => WalInv'
  BY BaseNext, HiddenNext, PlainNext DEF WalInv
<1> QED
  BY <1>1, WalInit, PTL DEF Spec

(* Every variable keeps its type and no line is outside the files, over any *)
(* sequence of appends, rotations, truncations, archivings and restarts.    *)
THEOREM TypeCorrect == Spec => []TypeOK
<1>1. WalInv => TypeOK
  BY DEF WalInv, Base
<1> QED
  BY <1>1, WalAlways, PTL

(* iterate() returns what was appended in the order it was appended, once   *)
(* each, unless a truncation has copied lines out of files it left.         *)
THEOREM InOrder == Spec => []ReplayInOrder
<1>1. ASSUME WalInv PROVE ReplayInOrder
  <2> SUFFICES ASSUME "copy" \notin gone, NEW a \in Entries(log), NEW b \in Entries(log), a # b
               PROVE  IF Before(a, b) THEN a.op < b.op ELSE b.op < a.op
    BY DEF ReplayInOrder
  <2>1. a \in log /\ b \in log
    BY DEF Entries
  <2>2. a.at \in Nat /\ b.at \in Nat /\ a.file \in Nat /\ b.file \in Nat
    BY <2>1, <1>1, BaseTypes DEF WalInv, Line
  <2>3. a.at # b.at
    BY <2>1, <1>1 DEF WalInv, Base, LinesOK, Apart
  <2>4. (a.at < b.at => a.file <= b.file) /\ (b.at < a.at => b.file <= a.file)
    BY <2>1, <1>1 DEF WalInv, Base, LinesOK, FilesFollow
  <2>5. (a.at < b.at => a.op < b.op) /\ (b.at < a.at => b.op < a.op)
    BY <1>1 DEF WalInv, Base, LinesOK, OpsFollow
  <2> QED
    BY <2>2, <2>3, <2>4, <2>5 DEF Before
<1> QED
  BY <1>1, WalAlways, PTL

(* What append() returned a number for is read back from the current files  *)
(* or the archive while nothing has removed or replaced a file; each write  *)
(* that was cut hides at most one later entry.                              *)
THEOREM AckedReadBack == Spec => []AckedIsReplayed
<1>1. ASSUME WalInv PROVE AckedIsReplayed
  <2>1. \A l \in Entries(log) : l.seq >= 0
    BY <1>1, BaseTypes DEF WalInv, Entries, Line
  <2>2. Replay(0) = Entries(log)
    BY <2>1 DEF Replay, ReplayOf
  <2>3. OpsOf(Replay(0) \cup RecoverFromArchive) = Found
    BY <2>2 DEF OpsOf, RecoverFromArchive, Found
  <2>4. gone \subseteq {"archive"} => Cardinality(Hidden) <= torn
    BY <1>1, Sizes, BaseTypes DEF WalInv, HiddenOK
  <2> QED
    BY <2>3, <2>4 DEF AckedIsReplayed, Hidden
<1> QED
  BY <1>1, WalAlways, PTL

(* Rotations remove old files only: with no failed write the last Keep      *)
(* acknowledged entries are read back.                                      *)
THEOREM RecentKept == Spec => []RecentSurvive
<1>1. ASSUME WalInv PROVE RecentSurvive
  <2> SUFFICES ASSUME faults = 0, gone \subseteq {"cleanup"}, NEW o \in acked,
                      Cardinality(Later(o)) < Keep
               PROVE  o \in OpsOf(Replay(0))
    BY DEF RecentSurvive, Later
  <2>1. AllEntries /\ Recent
    BY <1>1 DEF WalInv, Plain, AllEntries, Recent
  <2>2. Cardinality(Later(o)) \in Nat /\ Keep \in Nat
    BY <1>1, LaterFinite, WalAssumption DEF WalInv
  <2>3. o \in OpsOf(log)
    BY <2>1, <2>2 DEF Recent
  <2>4. \A l \in log : l.seq >= 0 /\ IsEntry(l)
    BY <1>1, <2>1, BaseTypes DEF WalInv, AllEntries, Line
  <2>5. Replay(0) = log
    BY <2>4 DEF Replay, ReplayOf, Entries
  <2> QED
    BY <2>3, <2>5
<1> QED
  BY <1>1, WalAlways, PTL
=============================================================================
