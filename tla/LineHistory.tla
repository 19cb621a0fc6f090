---------------------------- MODULE LineHistory ----------------------------
(***************************************************************************)
(* The history of the line editor: src/shell/editor.rs around the          *)
(* FileBackedHistory of reedline, which is external and here keeps the     *)
(* lines not yet written and merges them into its file.  The path may lead *)
(* to another file at any time, and another shell may write to the same    *)
(* one.                                                                    *)
(***************************************************************************)
EXTENDS Integers, SequencesExt

CONSTANTS
  Files,             \* the files of the disk
  Lines,             \* what a user enters: a name, a length, is the first a space?
  Disks,             \* what a shell may find: where the path leads, and the files
  HistoryCapacity,   \* HISTORY_CAPACITY
  MaxEntryBytes,     \* MAX_HISTORY_ENTRY_BYTES
  MaxFileBytes,      \* MAX_HISTORY_FILE_BYTES
  MaxLines           \* bound: lines kept by one shell

VARIABLES
  at,        \* where the path leads
  files,     \* the lines of each file, and is it for its owner only?
  bound,     \* the file behind the descriptor, if there is a history
  unsaved,   \* lines not yet written
  syncing,   \* sync(): "no", "verify" or "write"
  accepted   \* history: every line this shell was to keep

historyVars == <<at, files, bound, unsaved, syncing, accepted>>

Nowhere == [kind |-> "none", file |-> 0]
To(kind, file) == [kind |-> kind, file |-> file]
Blank == [lines |-> <<>>, owner |-> FALSE]

\* A line of another shell, or of an earlier one.
Other == [name |-> "other", spaced |-> FALSE, length |-> 1]

\* A shell finds no line of its own.
ASSUME HistoryAssumption ==
  /\ HistoryCapacity \in Nat \ {0} /\ MaxEntryBytes \in Nat /\ MaxFileBytes \in Nat
  /\ Other \notin Lines
  /\ \A disk \in Disks :
       /\ disk.at.file \in Files
       /\ disk.files \in [Files -> [lines : Seq({Other}), owner : BOOLEAN]]

Bytes(lines) == FoldLeft(LAMBDA n, line : n + line.length + 1, 0, lines)
Newest(lines) ==
  IF Len(lines) <= HistoryCapacity THEN lines
  ELSE SubSeq(lines, Len(lines) - HistoryCapacity + 1, Len(lines))

HistoryInit ==
  /\ at = Nowhere /\ files = [f \in Files |-> Blank]
  /\ bound = <<>> /\ unsaved = <<>> /\ syncing = "no" /\ accepted = <<>>
-----------------------------------------------------------------------------
\* prepare_history_file: the file is made if there is none, and a link or anything
\* else is refused; what is opened becomes the owner's alone.
Opens(place) == place.kind \in {"none", "regular"}

\* secure_history: a file that is too large is refused, and left as it is.
Admits(disk) ==
  Opens(disk.at) /\ Bytes(disk.files[disk.at.file].lines) <= MaxFileBytes

\* build_editor, on the disk it finds.
build_editor(no_history, disk) ==
  LET f == disk.at.file IN
  /\ at' = IF no_history \/ disk.at.kind # "none" THEN disk.at ELSE To("regular", f)
  /\ bound' = IF ~no_history /\ Admits(disk) THEN <<f>> ELSE <<>>
  /\ files' = IF no_history \/ ~Opens(disk.at) THEN disk.files
              ELSE [disk.files EXCEPT ![f] =
                     [lines |-> IF Admits(disk) THEN Newest(@.lines) ELSE @.lines,
                      owner |-> TRUE]]
  /\ UNCHANGED <<unsaved, syncing, accepted>>

\* save(), and the exclusion prefix of build_editor.
retained(line) == ~line.spaced /\ line.length <= MaxEntryBytes

\* reedline keeps one of equal lines in a row, as far as it has them in memory.
Repeats(line) == accepted # <<>> /\ Last(accepted) = line

EnterLine(line) ==
  /\ syncing = "no"
  /\ \/ bound # <<>> /\ retained(line) /\ Len(accepted) < MaxLines
        /\ unsaved' = Newest(Append(unsaved, line)) /\ accepted' = Append(accepted, line)
     \/ (bound # <<>> /\ retained(line) => Repeats(line)) /\ UNCHANGED <<unsaved, accepted>>
  /\ syncing' = IF bound # <<>> THEN "verify" ELSE "no"
  /\ UNCHANGED <<at, files, bound>>

verify_path_identity == at.kind = "regular" /\ <<at.file>> = bound

Verify ==
  /\ syncing = "verify"
  /\ syncing' = IF verify_path_identity THEN "write" ELSE "no"
  /\ UNCHANGED <<at, files, bound, unsaved, accepted>>

\* Mutant of own_file: the path is opened again.
fileByPath == IF at.file \in Files THEN at.file ELSE bound[1]

\* The inner history has the path of the descriptor.
own_file == bound[1]

Written ==
  files' = [files EXCEPT ![own_file].lines = Newest(@ \o unsaved)] /\ unsaved' = <<>>

\* Writing may fail; the lines are kept for the next time.
WriteHistory ==
  /\ syncing = "write" /\ syncing' = "no"
  /\ Written \/ UNCHANGED <<files, unsaved>>
  /\ UNCHANGED <<at, bound, accepted>>

\* The inner history writes once more when it is dropped.
DropHistory ==
  /\ syncing = "no"
  /\ IF bound # <<>> THEN Written \/ UNCHANGED <<files, unsaved>>
     ELSE UNCHANGED <<files, unsaved>>
  /\ UNCHANGED <<at, bound, syncing, accepted>>

\* The world: the path is moved, linked or removed; another shell writes a line.
PathReplaced ==
  /\ at' \in {Nowhere} \cup {To(kind, f) : kind \in {"regular", "symlink"}, f \in Files}
  /\ at' # at
  /\ UNCHANGED <<files, bound, unsaved, syncing, accepted>>

OtherWrites ==
  /\ \E f \in Files : files' = [files EXCEPT ![f].lines = Newest(Append(@, Other))]
  /\ UNCHANGED <<at, bound, unsaved, syncing, accepted>>

EditorSteps == (\E line \in Lines : EnterLine(line)) \/ Verify \/ WriteHistory
Disk == PathReplaced \/ OtherWrites
-----------------------------------------------------------------------------
\* The k-th line is the next of those kept, or of another shell.
InTurn(seen, lines, kept, k) ==
  IF lines[k] \in Lines THEN seen[k] = seen[k - 1] + 1 /\ lines[k] = kept[seen[k]]
  ELSE seen[k] = seen[k - 1]

\* Of the lines those of this shell are what was kept, one after the other, up to
\* the last-th; those of others lie between them.  Only where there are as many as
\* the capacity may earlier ones be missing.
Follow(lines, kept, last) ==
  \E seen \in [0 .. Len(lines) -> 0 .. Len(kept)] :
    /\ seen[0] = 0 \/ Len(lines) >= HistoryCapacity
    /\ seen[Len(lines)] = last
    /\ \A k \in DOMAIN lines : InTurn(seen, lines, kept, k)

\* docs/interactive-shell.md:14-20: wherever the path leads meanwhile, and though
\* it may be replaced between the check and the write, what is entered goes into
\* the file that was verified when the shell started, which is its owner's alone,
\* and never into a link's target or a file put in its place; not what was to be
\* left out; each line once and in order, with none lost but the oldest, beyond the
\* capacity.
HistoryStaysBound ==
  /\ \A f \in Files : \A k \in DOMAIN files[f].lines : files[f].lines[k] \in Lines =>
       <<f>> = bound /\ files[f].owner /\ retained(files[f].lines[k])
  /\ bound # <<>> => LET lines == files[bound[1]].lines IN
       /\ \E last \in 0 .. Len(accepted) : Follow(lines, accepted, last)
       /\ Follow(Newest(lines \o unsaved), accepted, Len(accepted))
=============================================================================
