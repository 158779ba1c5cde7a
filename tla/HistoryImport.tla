--------------------------- MODULE HistoryImport ---------------------------
(***************************************************************************)
(* The program history-import: what its options make it do, the import of  *)
(* a directory of Miranda logs and the sort of the log directory, each     *)
(* calling history_add for one line after another.  The program may be run *)
(* again, and may be killed at any step, in the middle of a write too.     *)
(*                                                                         *)
(* Rules modelled:                                                         *)
(*   - a process starts with the static variables of history_add unset,    *)
(*     and keeps them through an import and the sort behind it;            *)
(*   - the files of a directory are read in any order;                     *)
(*   - a write that is cut off leaves any beginning of what was to be      *)
(*     written, over what the file held before;                            *)
(*   - the sort renames the directory first and fills a new one after it.  *)
(***************************************************************************)
EXTENDS HistoryLog

CONSTANTS Sources,    \* what "from" may be: NotADirectory, or a set of files
          Options,    \* sets of options a user may give
          MaxRuns,    \* bound: processes started
          MaxKills    \* bound: processes killed

NotADirectory == {<<"file">>}
NoBackup == [name \in Files |-> <<>>]

ASSUME ImportAssumption ==
    /\ InitialLogs \subseteq [Files -> Seq(Units)]
    /\ \A from \in Sources : from = NotADirectory \/ from \subseteq Seq(Entries)
    /\ Options \subseteq SUBSET {"miranda", "sort", "remove-backup"}
    /\ MaxRuns \in Nat /\ MaxKills \in Nat

VARIABLES directory,  \* the log directory exists
          backup, has_backup, \* the directory <to>_bak and whether it exists
          phase,      \* what the process does: "off", "import", "rename", "sort", "sorted"
          vm,         \* its options
          itr,        \* directory_iterator: the files not read yet
          in_file,    \* the messages of the current file not read yet
          runs, kills,
          grown       \* history: the process has written a file

processVars == <<phase, vm, itr, in_file>>
storeVars == <<directory, backup, has_backup>>
allVars == <<vars, storeVars, processVars, runs, kills, grown>>

ImportInit ==
    /\ Init
    /\ directory = (files # NoBackup) /\ backup = NoBackup /\ has_backup = FALSE
    /\ phase = "off" /\ vm = {} /\ itr = {} /\ in_file = <<>>
    /\ runs = 0 /\ kills = 0 /\ grown = FALSE

\* Nothing of history_add changes but its static variables, with a new process.
Unset == static_filename' = NoFile /\ static_datetime' = 0 /\ static_position' = -1
NoCall == UNCHANGED <<streamVars, callVars, pc, file_pos, data, calls, wanted>>
-----------------------------------------------------------------------------
\* main: the import first, the sort after it; an input that is no directory ends
\* the program, sort or not.
AfterImport(options) == IF "sort" \in options THEN "rename" ELSE "off"

StartImport(options, from) ==
    /\ phase = "off" /\ runs < MaxRuns
    /\ "miranda" \in options
    /\ runs' = runs + 1 /\ vm' = options /\ grown' = FALSE
    /\ IF from = NotADirectory THEN phase' = "off" /\ itr' = {}
       ELSE phase' = "import" /\ itr' = from
    /\ in_file' = <<>>
    /\ Unset /\ NoCall
    /\ UNCHANGED <<files, storeVars, kills>>

StartSort(options) ==
    /\ phase = "off" /\ runs < MaxRuns
    /\ "miranda" \notin options
    /\ runs' = runs + 1 /\ vm' = options /\ grown' = FALSE
    /\ phase' = AfterImport(options)
    /\ itr' = {} /\ in_file' = <<>>
    /\ Unset /\ NoCall
    /\ UNCHANGED <<files, storeVars, kills>>

Idle == pc = "idle" /\ in_file = <<>>

\* miranda_import: the next file of the directory.  Its messages go to the logs
\* of the days their times fall on once minutes_delta is added.
ImportFile ==
    /\ phase = "import" /\ Idle
    /\ \E source \in itr :
        /\ itr' = itr \ {source}
        /\ in_file' = [k \in DOMAIN source |-> Message(source[k])]
    /\ UNCHANGED <<vars, storeVars, phase, vm, runs, kills, grown>>

EndImport ==
    /\ phase = "import" /\ Idle /\ itr = {}
    /\ phase' = AfterImport(vm)
    /\ UNCHANGED <<vars, storeVars, vm, itr, in_file, runs, kills, grown>>

\* The next line that has the form of a message is given to history_add; an
\* import ignores duplicates, a sort does not.
IgnoresSorting == phase = "sort"      \* mutant: the other way round
IgnoresDuplicates == phase = "import"
Grows == grown' = (grown \/ files' # files)
AddLine ==
    /\ phase \in {"import", "sort"} /\ in_file # <<>>
    /\ Call(Head(in_file), IgnoresDuplicates)
    /\ in_file' = Tail(in_file)
    /\ directory' = TRUE
    /\ Grows
    /\ UNCHANGED <<backup, has_backup, phase, vm, itr, runs, kills>>

HistoryAdd ==
    /\ CallStep /\ Grows
    /\ UNCHANGED <<storeVars, processVars, runs, kills>>
-----------------------------------------------------------------------------
\* full_history_sort: not with a backup in the way, and an exception if there is
\* nothing to rename.
Refuse ==
    /\ phase = "rename"
    /\ has_backup \/ ~directory
    /\ phase' = "off"
    /\ UNCHANGED <<vars, storeVars, vm, itr, in_file, runs, kills, grown>>

Rename ==
    /\ phase = "rename" /\ ~has_backup /\ directory
    /\ backup' = files /\ has_backup' = TRUE
    /\ files' = NoBackup /\ directory' = FALSE
    /\ itr' = {name \in Files : files[name] # <<>>}
    /\ phase' = "sort"
    /\ UNCHANGED <<cacheVars, vm, in_file, runs, kills, grown>> /\ NoCall

\* Behind the byte order mark getline stops at a carriage return, unless it is the
\* character that is passed over behind another one it stopped at.
StopsAt(file, i) ==
    file[i] = CR /\ Cardinality({j \in 2 .. i : \A k \in j .. i : file[k] = CR}) % 2 = 1

\* The lines of a file as the sort reads them: behind the byte order mark, up to
\* a carriage return each, the character behind it passed over.
LineStarts(file) ==
    {k \in 2 .. Len(file) : IsText(<<file[k]>>) /\ (k = 2 \/ StopsAt(file, k - 2))}
LineEnd(file, k) ==
    CHOOSE j \in k .. Len(file) : /\ \A i \in k .. j : file[i] # CR
                                  /\ j < Len(file) => file[j + 1] = CR
LineFrom(file, k) == SubSeq(file, k, LineEnd(file, k))

NthOf(places, n) == CHOOSE k \in places : Cardinality({j \in places : j < k}) = n - 1
LinesOf(file) ==
    LET starts == LineStarts(file)
    IN  [n \in 1 .. Cardinality(starts) |-> LineFrom(file, NthOf(starts, n))]

SortFile ==
    /\ phase = "sort" /\ Idle
    /\ \E name \in itr :
        /\ itr' = itr \ {name}
        /\ LET lines == LinesOf(backup[name])
           IN  in_file' = [k \in DOMAIN lines |->
                              [file |-> name, time |-> TimeOf(lines[k]), text |-> lines[k]]]
    /\ UNCHANGED <<vars, storeVars, phase, vm, runs, kills, grown>>

\* main asks for the option under a name it has not been declared with.
KeepBackupAsNamed ==      \* mutant: the option is looked up under its own name
    "remove-backup" \notin vm
KeepBackup == "remove_backup" \notin vm

EndSort ==
    /\ phase = "sort" /\ Idle /\ itr = {}
    /\ IF KeepBackup THEN UNCHANGED <<backup, has_backup>>
       ELSE backup' = NoBackup /\ has_backup' = FALSE
    /\ phase' = "sorted"
    /\ UNCHANGED <<vars, directory, vm, itr, in_file, runs, kills, grown>>

Exit ==
    /\ phase = "sorted"
    /\ phase' = "off"
    /\ UNCHANGED <<vars, storeVars, vm, itr, in_file, runs, kills, grown>>
-----------------------------------------------------------------------------
Killed ==
    /\ kills < MaxKills /\ phase # "off"
    /\ kills' = kills + 1
    /\ phase' = "off" /\ itr' = {} /\ in_file' = <<>>
    /\ pc' = "idle"
    /\ UNCHANGED <<cacheVars, streamVars, callVars, file_pos, data, calls, wanted,
                   backup, has_backup, vm, runs, grown>>

\* Beginnings of a sequence of units.
Beginnings(units) == {SubSeq(units, 1, k) : k \in 0 .. Len(units)}

\* Nothing is being written.
Kill == Killed /\ UNCHANGED <<files, directory>>

\* history_add writes the message and the rest of the file.
KillWriting ==
    /\ pc = "write" /\ file_pos # -1
    /\ \E written \in Beginnings(Line(added) \o data) :
        files' = [files EXCEPT ![added.file] = Overwrite(File, file_pos, written)]
    /\ Killed /\ UNCHANGED directory

\* history_add writes the first line of a new file.
KillCreating ==
    /\ phase \in {"import", "sort"} /\ pc = "idle" /\ in_file # <<>>
    /\ LET message == Head(in_file)
       IN  /\ files[message.file] = <<>>
           /\ \E written \in Beginnings(<<BOM>> \o Line(message)) :
                files' = [files EXCEPT ![message.file] = written]
    /\ directory' = TRUE /\ Killed

ProcessStep ==
    \/ ImportFile \/ EndImport \/ AddLine \/ HistoryAdd
    \/ Refuse \/ Rename \/ SortFile \/ EndSort \/ Exit

ImportNext ==
    \/ \E options \in Options, from \in Sources : StartImport(options, from)
    \/ \E options \in Options : StartSort(options)
    \/ ProcessStep
    \/ Kill \/ KillWriting \/ KillCreating

ImportSpec == ImportInit /\ [][ImportNext]_allVars /\ WF_allVars(ProcessStep)
-----------------------------------------------------------------------------
(***************************************************************************)
(* Properties.                                                             *)
(***************************************************************************)
Times(line, lines) == Cardinality({k \in DOMAIN lines : lines[k] = line})
LinesIn(file) == LET lines == LinesOf(file) IN {lines[k] : k \in DOMAIN lines}
InOrder(lines) == \A j, k \in DOMAIN lines : j < k => TimeOf(lines[j]) <= TimeOf(lines[k])

\* A line feed is behind every carriage return, and a text begins behind the byte
\* order mark or behind such an end of a line.  A write that was cut off may leave
\* a file in which it is not so.
Unmixed(file) ==
    \A k \in 2 .. Len(file) :
        /\ file[k - 1] = CR => file[k] = LF
        /\ IsText(<<file[k]>>) => k = 2 \/ (k > 3 /\ file[k - 2] = CR /\ file[k - 1] = LF)

\* A line of the log directory is from then on in the directory or in its backup,
\* through imports, sorts and kills between two writes.  Only a write that is cut
\* off loses one, and the next writes to the file it has left: a cached position
\* may be in the middle of a line, at a text that has come to begin there.
LinesSomewhere ==
    [][ \A name \in Files : \A line \in LinesIn(files[name]) \cup LinesIn(backup[name]) :
            \/ line \in LinesIn(files'[name]) \cup LinesIn(backup'[name])
            \/ KillWriting
            \/ pc = "write" /\ ~Unmixed(files[name]) ]_<<files, backup>>

\* Steps through byte positions, cached ones too, put lines among lines: the program
\* implements DayLogs, the log of a day being the lines a sort finds in its file.
DayLog == INSTANCE DayLogs WITH
    Days <- Files, Time <- TimeOf,
    logs <- [name \in Files |-> LinesOf(files[name])],
    backup <- [name \in Files |-> LinesOf(backup[name])], aside <- has_backup,
    mixed <- {name \in Files : ~Unmixed(files[name])},
    putting <- IF pc = "idle" THEN {} ELSE {[day |-> added.file, line |-> added.text]},
    cuts <- kills
ImplementsDayLogs == DayLog!Spec

\* The directory to import has no message with this text, or has it once.
GivenOnce(text) ==
    \A from \in Sources \ {NotADirectory} : \A s, t \in from :
        \A j \in DOMAIN s, k \in DOMAIN t :
            Text(s[j]) = text /\ Text(t[k]) = text => s = t /\ j = k

\* Until it writes for the first time, an import finds every message that it is
\* given once and that its file, which is in order, has as the only one of its
\* second: an import that is repeated, after a kill too, doubles none of them.  (The
\* second of two would be looked for behind the first.)  Once it has written, the
\* cached position may be inside a line and the message behind it missed; and what
\* a write that is cut off leaves may read like any line.
AloneIsNotDoubled ==
    [][ phase = "import" /\ ~grown /\ ~KillWriting =>
          \A name \in Files :
              LET before == LinesOf(files[name])
                  after == LinesOf(files'[name])
              IN  InOrder(before) =>
                    \A k \in DOMAIN before :
                        /\ \A j \in DOMAIN before : TimeOf(before[j]) = TimeOf(before[k]) => j = k
                        /\ GivenOnce(before[k])
                        => Times(before[k], after) <= 1 ]_files

\* A sort fills the directory with lines of the backup, none of them more often
\* than it is there, and what it has written is in order at all times, whatever
\* order the files had and whatever an import has left in the static variables.
\* (The lines of a file a write was cut off in may be cut again.)
SortSorts ==
    phase \in {"sort", "sorted"} =>
        \A name \in Files : Unmixed(backup[name]) =>
            LET lines == LinesOf(files[name])
                kept == LinesOf(backup[name])
            IN  /\ InOrder(lines)
                /\ \A k \in DOMAIN lines : Times(lines[k], lines) <= Times(lines[k], kept)

\* The program ends.
ProcessEnds == phase # "off" ~> phase = "off"
=============================================================================
