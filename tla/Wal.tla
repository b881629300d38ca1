-------------------------------- MODULE Wal --------------------------------
(***************************************************************************)
(* WriteAheadLog (src/persistence/wal.py): numbered entries in files named *)
(* by the second they were begun in, with rotation, removal of old files,  *)
(* archiving and truncation, and what a replay of the files returns after  *)
(* failed writes and restarts.                                             *)
(*                                                                         *)
(* Every method holds the lock from end to end, so each is one step.  A    *)
(* line of a file carries its place in the order of all writing, so the    *)
(* files are one set of lines.                                             *)
(***************************************************************************)
EXTENDS Naturals, FiniteSets

CONSTANTS
    None,
    MaxEntries,  \* max_entries: lines in a file before it is rotated
    Keep,        \* MAX_WAL_FILES: files left by a rotation
    Faults,      \* how a write may fail: "open", "torn", "sync"
    MaxAppends,  \* bounds
    MaxClock,
    MaxFaults,
    MaxMoves,
    MaxCrashes

ASSUME WalAssumption ==
    /\ MaxEntries \in Nat \ {0}
    /\ Keep \in Nat \ {0}
    /\ Faults \subseteq {"open", "torn", "sync"}
    /\ None \notin Nat
    /\ {MaxAppends, MaxClock, MaxFaults, MaxMoves, MaxCrashes} \subseteq Nat

VARIABLES
    clock,    \* the current second, which names a new file
    files,    \* the names of the files in wal/current
    log,      \* their lines
    cur,      \* _current_file
    seq,      \* _sequence
    archive,  \* the lines of the archived files, with the second of each copy
    (* history *)
    place,    \* beyond the place of every line written so far
    next,     \* number of append() calls, which identifies what each logs
    acked,    \* the calls that returned
    boot,     \* restarts so far
    faults,   \* failed writes and archivings so far
    moves,    \* truncations and archivings so far
    torn,     \* how many writes were cut in the middle of the line
    gone      \* what has taken lines away: "cleanup", "truncate", "archive";
              \* "copy", a truncation that copied lines out of files it left;
              \* "replaced", an archived file written over

disk == <<files, log, archive>>
memory == <<cur, seq>>
history == <<place, next, acked, boot, faults, moves, torn, gone>>
vars == <<clock, disk, memory, history>>

-----------------------------------------------------------------------------
(* Lines and files *)

(* "torn": the beginning of an entry, without an end of line; "junk": a     *)
(* whole line that is no entry.                                             *)
Line == [file : Nat, at : Nat, kind : {"entry", "torn", "junk"}, seq : Nat, op : Nat]

IsEntry(l) == l.kind = "entry"
InFile(lines, f) == {l \in lines : l.file = f}
LinesOf(f) == InFile(log, f)
Entries(lines) == {l \in lines : IsEntry(l)}

(* the last of some lines, a set of one unless there are none *)
LastOf(lines) == {l \in lines : \A m \in lines : m.at <= l.at}

(* The order in which iterate() reads lines: the files sorted by name, each *)
(* from its first line.                                                     *)
Before(a, b) == a.file < b.file \/ (a.file = b.file /\ a.at < b.at)

(* _get_last_sequence_from_file(): 0 unless the last line can be read *)
LastSeq(f) ==
    LET last == Entries(LastOf(LinesOf(f)))
    IN  IF last = {} THEN 0 ELSE (CHOOSE l \in last : TRUE).seq + 1

(* _get_current_file(): the file and the next sequence number, that of a    *)
(* file begun in this same second if it is ahead                            *)
\* as a mutation: the name has the hour of a clock that wraps (%I for %H)
CurrentFile_Wraps(c) == IF c \in files THEN c ELSE 1 + (clock % 2)
CurrentFile(c) == IF c \in files THEN c ELSE clock
SyncedSeq(c) == IF c \notin files /\ clock \in files /\ LastSeq(clock) > seq THEN LastSeq(clock) ELSE seq

(* _should_rotate() *)
ShouldRotate(f) == f \notin files \/ Cardinality(LinesOf(f)) >= MaxEntries

(* _cleanup_old_wal_files(): the last written files, which are those begun last *)
\* as a mutation: sorted without reverse
Newest_Oldest(n) == {f \in files : Cardinality({g \in files : g < f}) < n}
Newest(n) == {f \in files : Cardinality({g \in files : g > f}) < n}

(* What is left once _rotate_if_needed() is done *)
FilesLeft == IF ShouldRotate(CurrentFile(cur)) THEN Newest(Keep) ELSE files
\* as a mutation: the lines of a removed file are still read
LinesLeft_All == log
LinesLeft == {l \in log : l.file \in FilesLeft}

(* ... and where append() writes, with which number: _get_current_file() is *)
(* asked again, so a file that is full but was begun in this same second is *)
(* written on.                                                              *)
Target == IF ShouldRotate(CurrentFile(cur)) THEN CurrentFile(None) ELSE CurrentFile(cur)
Number == IF ShouldRotate(CurrentFile(cur)) THEN SyncedSeq(None) ELSE SyncedSeq(cur)

-----------------------------------------------------------------------------
(* append() *)

(* A file opened for appending: what is written after a torn line ends up   *)
(* in that line, which is then no entry.                                    *)
\* as a mutation: the file is opened with "w"
Spoiled(l) == [l EXCEPT !.kind = "junk"]
Written_Over(lines, line) == {l \in lines : l.file # line.file} \cup {line}
Written(lines, line) ==
    LET cut == {l \in LastOf(InFile(lines, line.file)) : l.kind = "torn"}
    IN  IF cut = {} THEN lines \cup {line}
        ELSE IF line.kind = "torn" THEN lines
        ELSE (lines \ cut) \cup {Spoiled(l) : l \in cut}

NewLine(kind) == [file |-> Target, at |-> place, kind |-> kind, seq |-> Number, op |-> next]

(* the part of append() that does not depend on the write *)
Rotated ==
    /\ next < MaxAppends
    /\ next' = next + 1
    /\ place' = place + 1
    /\ cur' = Target
    /\ files' = FilesLeft \cup {Target}
    /\ gone' = IF FilesLeft # files THEN gone \cup {"cleanup"} ELSE gone
    /\ UNCHANGED <<clock, archive, boot, moves>>

AppendEntry ==
    /\ Rotated
    /\ log' = Written(LinesLeft, NewLine("entry"))
    /\ seq' = Number + 1
    /\ acked' = acked \cup {next}
    /\ UNCHANGED <<faults, torn>>

(* IOError: nothing, a part, or all of the line is in the file, and the     *)
(* number is used again.                                                    *)
AppendFails(how) ==
    /\ how \in Faults
    /\ faults < MaxFaults
    /\ faults' = faults + 1
    /\ Rotated
    /\ log' = CASE how = "open" -> LinesLeft
                [] how = "torn" -> Written(LinesLeft, NewLine("torn"))
                [] how = "sync" -> Written(LinesLeft, NewLine("entry"))
    /\ torn' = IF how = "torn" THEN torn + 1 ELSE torn
    /\ seq' = Number
    /\ UNCHANGED acked

-----------------------------------------------------------------------------
(* replay(), truncate_to_sequence(), archive_current() *)

ReplayOf(lines, since) == {l \in Entries(lines) : l.seq >= since}
Replay(since) == ReplayOf(log, since)

ToKeep(n) == {l \in Replay(0) : l.seq <= n}

(* a line written again, into f, with its place moved on by p *)
Copied(l, f, p) == [l EXCEPT !.file = f, !.at = @ + p]

(* The entries to keep replace the content of the current file, or some of  *)
(* them if the write fails; the other files stay as they are.               *)
Truncate(n, kept) ==
    LET f == CurrentFile(cur)
        others == {l \in log : l.file # f}
    IN  /\ moves < MaxMoves
        /\ moves' = moves + 1
        /\ ToKeep(n) # Replay(0)
        /\ log' = others \cup {Copied(l, f, place) : l \in kept}
        /\ place' = place + place
        /\ cur' = f
        /\ files' = files \cup {f}
        /\ seq' = SyncedSeq(cur)
        /\ gone' = gone \cup {"truncate"}
                         \cup (IF Entries(others) # {} THEN {"copy"} ELSE {})
        /\ UNCHANGED <<clock, archive, next, acked, boot, torn>>

TruncateAll(n) == Truncate(n, ToKeep(n)) /\ UNCHANGED faults

TruncateFails(n) ==
    /\ "torn" \in Faults
    /\ faults < MaxFaults
    /\ faults' = faults + 1
    /\ \E l \in ToKeep(n) : Truncate(n, {m \in ToKeep(n) : Before(m, l)})

(* A copy in the archive has the name of its file and of the second it was  *)
(* made in, so a file archived twice in one second replaces its first copy. *)
Copy(l) == [line |-> l, on |-> clock]
Replaced(a, opened) == a.on = clock /\ a.line.file \in opened

(* Each file is compressed into the archive and removed; the object still   *)
(* names its current file.  Here the files of done were removed, copies of  *)
(* those of opened were begun, and the lines of copied are in the copies.   *)
Archive(done, opened, copied) ==
    /\ files # {}
    /\ moves < MaxMoves
    /\ moves' = moves + 1
    /\ archive' = {a \in archive : ~Replaced(a, opened)} \cup {Copy(l) : l \in copied}
    /\ files' = files \ done
    /\ log' = {l \in log : l.file \notin done}
    /\ gone' = gone \cup {"archive"}
                  \cup (IF \E a \in archive : Replaced(a, opened) /\ IsEntry(a.line) /\ a.line \notin log
                        THEN {"replaced"} ELSE {})
    /\ UNCHANGED <<clock, memory, place, next, acked, boot, torn>>

ArchiveCurrent == Archive(files, files, log) /\ UNCHANGED faults

(* the beginning of each file of opened *)
Beginning(lines, opened) ==
    \A l \in lines : /\ l.file \in opened
                     /\ \A m \in LinesOf(l.file) : m.at < l.at => m \in lines

(* Some files cannot be opened, copied to the end or removed: they are left *)
(* in place, and the others archived all the same.                          *)
ArchiveFails ==
    /\ faults < MaxFaults
    /\ faults' = faults + 1
    /\ \E left \in SUBSET files : \E opened \in SUBSET left :
           \E part \in SUBSET {l \in log : l.file \in opened} :
              /\ left # {}
              /\ Beginning(part, opened)
              /\ Archive(files \ left, (files \ left) \cup opened,
                         part \cup {l \in log : l.file \notin left})

(* recover_from_archive() *)
RecoverFromArchive == Entries({a.line : a \in archive})

-----------------------------------------------------------------------------
(* force_rotation() with no append, time, and the death of the process *)

ForceRotation ==
    /\ IF ShouldRotate(clock)
       THEN cur' = None /\ files' = Newest(Keep)
       ELSE cur' = clock /\ UNCHANGED files
    /\ log' = {l \in log : l.file \in files'}
    /\ seq' = SyncedSeq(None)
    /\ gone' = IF files' # files THEN gone \cup {"cleanup"} ELSE gone
    /\ UNCHANGED <<clock, archive, place, next, acked, boot, faults, moves, torn>>

Tick ==
    /\ clock < MaxClock
    /\ clock' = clock + 1
    /\ UNCHANGED <<disk, memory, history>>

(* between two calls, or within append() after a part of the line is written *)
Crash ==
    /\ boot < MaxCrashes
    /\ boot' = boot + 1
    /\ cur' = None
    /\ seq' = 0
    /\ UNCHANGED <<clock, disk, place, next, acked, faults, moves, torn, gone>>

-----------------------------------------------------------------------------
Init ==
    /\ clock = 1
    /\ files = {}
    /\ log = {}
    /\ cur = None
    /\ seq = 0
    /\ archive = {}
    /\ place = 0
    /\ next = 0
    /\ acked = {}
    /\ boot = 0
    /\ faults = 0
    /\ moves = 0
    /\ torn = 0
    /\ gone = {}

Next ==
    \/ AppendEntry
    \/ \E how \in Faults : AppendFails(how)
    \/ \E n \in 0..MaxAppends : TruncateAll(n) \/ TruncateFails(n)
    \/ ArchiveCurrent
    \/ ArchiveFails
    \/ ForceRotation
    \/ Tick
    \/ Crash

Spec == Init /\ [][Next]_vars

-----------------------------------------------------------------------------
(* Properties *)

(* Every variable has its type, and no line is outside the files. *)
TypeOK ==
    /\ clock \in Nat
    /\ files \subseteq 1..clock
    /\ log \subseteq Line
    /\ \A l \in log : l.file \in files
    /\ cur \in (1..clock) \cup {None}
    /\ seq \in Nat
    /\ archive \subseteq [line : Line, on : 1..clock]
    /\ {place, next, boot, faults, moves, torn} \subseteq Nat
    /\ acked \subseteq 0..next
    /\ gone \subseteq {"cleanup", "truncate", "archive", "copy", "replaced"}

OpsOf(lines) == {l.op : l \in lines}

(* A replay returns what was appended in the order it was appended, once    *)
(* each, over any rotations, restarts and failed writes: the file written   *)
(* last is the last by name, by which iterate() sorts.  Only a truncation   *)
(* that copies lines out of files it leaves in place breaks it.             *)
ReplayInOrder ==
    "copy" \notin gone =>
        \A a, b \in Entries(log) :
            a # b => IF Before(a, b) THEN a.op < b.op ELSE b.op < a.op

(* What append() returned a number for is read back from the current files  *)
(* or the archive while no line has been removed, over restarts and         *)
(* archivings, unless two of these fell into one second; but each cut write *)
(* hides at most one later entry: the one written onto the torn line.       *)
AckedIsReplayed ==
    gone \subseteq {"archive"} =>
        Cardinality(acked \ OpsOf(Replay(0) \cup RecoverFromArchive)) <= torn

(* Removing old files at a rotation leaves the newest entries: with no      *)
(* failed write, the last Keep acknowledged ones are always read back.      *)
RecentSurvive ==
    faults = 0 /\ gone \subseteq {"cleanup"} =>
        \A o \in acked : Cardinality({p \in acked : p > o}) < Keep => o \in OpsOf(Replay(0))
=============================================================================
