----------------------------- MODULE SharedLog -----------------------------
(***************************************************************************)
(* confLog of the bot and history_add of the import on the same log files: *)
(* two programs, no lock.  confLog looks whether the file is empty when it *)
(* has opened it, and its line reaches the end of the file when the stream *)
(* is closed; history_add looks at the file first, reads what follows the  *)
(* place of its message, and writes both later.                            *)
(*                                                                         *)
(* A message that confLog gets has its carriage returns replaced, so it is *)
(* one line.  Its times are those of the clock, later than any message the *)
(* import brings.                                                          *)
(***************************************************************************)
EXTENDS HistoryLog

CONSTANTS Said,        \* messages the bot logs, of times later than any entry
          MaxAppends   \* bound: calls of confLog

\* The files are there with whole lines only.
SharedAssumption ==
    /\ InitialLogs \subseteq [Files -> Seq(Units)]
    /\ \A log \in InitialLogs, name \in Files :
          log[name] = <<>> \/ log[name][Len(log[name])] = LF
    /\ Said \subseteq [file : Files, time : Nat, size : Nat \ {0}]
    /\ \A said \in Said, entry \in Entries : entry.time < said.time
    /\ MaxAppends \in Nat

VARIABLES log_pc,      \* confLog: "idle" or "open"
          log_entry,   \* the message being logged
          log_bom,     \* the file was empty when it was looked at
          creating,    \* history_add has found its file missing or empty
          crossed,     \* history: who wrote between the other's look and its write
          appends

logVars == <<log_pc, log_entry, log_bom, appends>>
sharedVars == <<vars, logVars, creating, crossed>>

SharedInit ==
    /\ Init
    /\ log_pc = "idle" /\ log_entry = NoEntry /\ log_bom = FALSE
    /\ creating = FALSE /\ crossed = {} /\ appends = 0
-----------------------------------------------------------------------------
\* confLog opens the file for appending, which creates it, and looks whether it
\* is empty.
OpenLog ==
    /\ log_pc = "idle" /\ appends < MaxAppends
    /\ appends' = appends + 1
    /\ \E said \in Said :
        /\ log_entry' = said
        /\ log_bom' = (files[said.file] = <<>>)
    /\ log_pc' = "open"
    /\ crossed' = crossed \ {"import"}
    /\ UNCHANGED <<vars, creating>>

NeedsBOMAlways == TRUE      \* mutant: every line is preceded by a byte order mark
NeedsBOM == log_bom

\* Closing it writes the line at what is the end of the file then.
WhereOpened(file) ==      \* mutant: the line is written over what the file held
    <<>>
Before(file) == file
AppendLine ==
    /\ log_pc = "open"
    /\ files' = [files EXCEPT ![log_entry.file] =
                    Before(@) \o (IF NeedsBOM THEN <<BOM>> ELSE <<>>) \o Line(Message(log_entry))]
    /\ log_pc' = "idle"
    /\ crossed' = crossed \cup {"bot"}
    /\ UNCHANGED <<cacheVars, streamVars, callVars, pc, file_pos, data, calls, wanted,
                   log_entry, log_bom, creating, appends>>

\* history_add, with the look at a missing or empty file and the truncation that
\* follows as two steps.
StartAdd ==
    /\ ~creating
    /\ \E entry \in Entries, dups \in IgnoreDups : Open(Message(entry), dups)
    /\ UNCHANGED <<logVars, creating, crossed>>

FindEmpty ==
    /\ ~creating /\ pc = "idle" /\ calls < MaxCalls
    /\ \E entry \in Entries :
        /\ files[entry.file] = <<>>
        /\ added' = Message(entry)
        /\ wanted' = wanted \cup {Message(entry)}
    /\ calls' = calls + 1
    /\ creating' = TRUE
    /\ crossed' = crossed \ {"bot"}
    /\ UNCHANGED <<files, cacheVars, streamVars, ignore_dups, pc, file_pos, data, logVars>>

WriteNew ==
    /\ creating
    /\ files' = [files EXCEPT ![added.file] = <<BOM>> \o Line(added)]
    /\ creating' = FALSE
    /\ crossed' = crossed \cup {"import"}
    /\ UNCHANGED <<cacheVars, streamVars, callVars, pc, file_pos, data, calls, wanted, logVars>>

Scan ==
    /\ ReadLogLine \/ ReadOther \/ ReadEnd \/ ReadTornLine
    /\ UNCHANGED <<logVars, creating, crossed>>

ReadRest ==
    /\ Locate
    /\ crossed' = crossed \ {"bot"}
    /\ UNCHANGED <<logVars, creating>>

WriteBack ==
    /\ Write
    /\ crossed' = crossed \cup {"import"}
    /\ UNCHANGED <<logVars, creating>>

SharedNext ==
    \/ OpenLog \/ AppendLine
    \/ StartAdd \/ FindEmpty \/ WriteNew \/ Scan \/ ReadRest \/ WriteBack

SharedSpec == SharedInit /\ [][SharedNext]_sharedVars
-----------------------------------------------------------------------------
(***************************************************************************)
(* Properties.                                                             *)
(***************************************************************************)
\* The lines a reader of the file finds, whole and at the start of a line, and
\* their messages.
ReadableAt(file) ==
    {j \in Starts(file) :
        /\ j = 2 \/ (j > 2 /\ file[j - 1] = LF)
        /\ j + file[j].entry.size + 1 <= Len(file)
        /\ SubSeq(file, j, j + file[j].entry.size + 1) = Line(Message(file[j].entry))}
Readable(file) == {file[k].entry : k \in ReadableAt(file)}

\* Lines are lost only by a write of history_add, and only if the bot has logged
\* something since history_add looked at the file; and what that write may lose is
\* what the bot has logged since: the lines that history_add had seen are all
\* there afterwards.  Whatever else happens between the steps of the two programs,
\* every line of both stays readable.
LostOnlyWhenCrossed ==
    /\ \A name \in Files :
        \/ Readable(files[name]) \subseteq Readable(files'[name])
        \/ (WriteNew \/ WriteBack) /\ "bot" \in crossed
    /\ WriteBack => Readable(SubSeq(files[added.file], 1,
                                   IF file_pos = -1 THEN 0 ELSE file_pos + Len(data)))
                      \subseteq Readable(files'[added.file])

\* A line the bot has logged is readable when confLog returns, unless history_add
\* made the file after confLog had found it empty: then a second byte order mark
\* stands before it.
LoggedIsReadable ==
    AppendLine => \/ log_entry \in Readable(files'[log_entry.file])
                  \/ log_bom /\ "import" \in crossed

\* Whatever order the steps of the two programs come in, a line is lost only to a write
\* that the other program's has crossed, and what the bot has logged can be read (confLog,
\* history_add).
LogsShared == [][LostOnlyWhenCrossed /\ LoggedIsReadable]_sharedVars
=============================================================================
