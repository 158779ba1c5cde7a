----------------------------- MODULE HistoryLog -----------------------------
(***************************************************************************)
(* history_add: puts a message at its place in the log file of its day, by *)
(* byte positions, with a position cached in static variables from one     *)
(* call to the next.                                                       *)
(*                                                                         *)
(* A file is a sequence of units.  A unit stands for some bytes: the byte  *)
(* order mark, a part of the text of a line, or one of the two characters  *)
(* that end a line.  Texts of different length have different numbers of   *)
(* parts, so a position taken before an insertion may point into the       *)
(* middle of a line after it.  The log directory exists.                   *)
(*                                                                         *)
(* The stream that is read has the states of std::ifstream: position,      *)
(* eofbit and failbit, and its seeks do nothing once failbit is set.       *)
(***************************************************************************)
EXTENDS Integers, Sequences, FiniteSets

CONSTANTS Files,       \* file names: a conference and a day
          Entries,     \* messages: [file, time, size], told apart by time and size
          InitialLogs, \* what the files may hold at the start
          IgnoreDups,  \* the values the argument ignore_dups may have
          MaxCalls     \* bound: calls of history_add

ASSUME LogAssumption ==
    /\ Entries \subseteq [file : Files, time : Nat, size : Nat \ {0}]
    /\ IgnoreDups \subseteq BOOLEAN /\ MaxCalls \in Nat

NoFile == "none"
NoEntry == [file |-> NoFile, time |-> 0, size |-> 0]

BOM == [kind |-> "bom", entry |-> NoEntry, part |-> 0]
CR  == [kind |-> "cr", entry |-> NoEntry, part |-> 0]
LF  == [kind |-> "lf", entry |-> NoEntry, part |-> 0]

\* What a file is made of.
Units == [kind : {"bom", "text", "cr", "lf"}, part : Nat,
          entry : [file : Files \cup {NoFile}, time : Nat, size : Nat]]

\* The text of a line, timestamp and nick included.
Text(entry) == [k \in 1 .. entry.size |-> [kind |-> "text", entry |-> entry, part |-> k]]

\* What history_add is given, and the line it writes.
Message(entry) == [file |-> entry.file, time |-> entry.time, text |-> Text(entry)]
NoMessage == [file |-> NoFile, time |-> 0, text |-> <<>>]
Line(message) == message.text \o <<CR, LF>>

\* regex_match with the form of a line: the first part of a text holds the time
\* and the nick, and whatever follows them is the message.
IsText(units) == units # <<>> /\ units[1].kind = "text" /\ units[1].part = 1
TimeOf(units) == units[1].entry.time

VARIABLES files,            \* the log files; <<>> is a file that does not exist
          static_filename, static_datetime, static_position,
          pc,               \* "idle", "scan" or "write"
          added, ignore_dups, \* the arguments of the running call
          in_pos,           \* position of in_file
          eofbit, failbit,  \* its state
          current_datetime, line_size,
          file_pos, data,   \* where to write, and what follows
          calls,            \* how many calls were made
          wanted            \* history: messages that calls wrote or should have

cacheVars  == <<static_filename, static_datetime, static_position>>
streamVars == <<in_pos, eofbit, failbit, current_datetime, line_size>>
callVars   == <<added, ignore_dups>>
vars == <<files, cacheVars, streamVars, callVars, pc, file_pos, data, calls, wanted>>

Init ==
    /\ files \in InitialLogs
    /\ static_filename = NoFile /\ static_datetime = 0 /\ static_position = -1
    /\ pc = "idle" /\ added = NoMessage /\ ignore_dups = FALSE
    /\ in_pos = 0 /\ eofbit = FALSE /\ failbit = FALSE
    /\ current_datetime = 0 /\ line_size = 0
    /\ file_pos = 0 /\ data = <<>>
    /\ calls = 0 /\ wanted = {}
-----------------------------------------------------------------------------
\* The position to start from was left by an earlier call on the same file,
\* behind a line not later than the new message.
CacheHitAnyTime(message) ==      \* mutant: the time of the cached line is not looked at
    static_filename = message.file /\ static_position # -1
CacheHit(message) ==
    /\ static_filename = message.file
    /\ static_datetime <= message.time
    /\ static_position # -1

\* A file that is missing or empty is created with the message as its only line.
Create(message) ==
    /\ pc = "idle" /\ calls < MaxCalls
    /\ calls' = calls + 1
    /\ files[message.file] = <<>>
    /\ files' = [files EXCEPT ![message.file] = <<BOM>> \o Line(message)]
    /\ wanted' = wanted \cup {message}
    /\ UNCHANGED <<cacheVars, streamVars, callVars, pc, file_pos, data>>

Open(message, dups) ==
    /\ pc = "idle" /\ calls < MaxCalls
    /\ calls' = calls + 1
    /\ files[message.file] # <<>>
    /\ added' = message /\ ignore_dups' = dups
    /\ in_pos' = IF CacheHit(message) THEN static_position ELSE 1
    /\ current_datetime' = IF CacheHit(message) THEN static_datetime ELSE 0
    /\ wanted' = wanted \cup {message}
    /\ eofbit' = FALSE /\ failbit' = FALSE /\ line_size' = 0
    /\ pc' = "scan"
    /\ UNCHANGED <<files, cacheVars, file_pos, data>>

\* history_add( message, dups ): a file that is missing or empty, or one that is not.
Call(message, dups) == Create(message) \/ Open(message, dups)
-----------------------------------------------------------------------------
File == files[added.file]

\* The carriage returns at or behind the position; getline stops at the first.
Returns == {k \in in_pos + 1 .. Len(File) : File[k] = CR}
FirstReturn == CHOOSE k \in Returns : \A j \in Returns : k <= j

\* getline finds the end of a line; ignore(1) takes the next character, and
\* sets eofbit if there is none.
LineRead == SubSeq(File, in_pos + 1, FirstReturn - 1)
HasNewline == FirstReturn < Len(File)
AfterLine == IF HasNewline THEN FirstReturn + 1 ELSE FirstReturn

Scanning == pc = "scan" /\ current_datetime <= added.time /\ ~eofbit

\* A line of the log is remembered in the static variables, and ends the call
\* if it is the message itself and duplicates are to be ignored.
ReadLogLine ==
    /\ Scanning /\ Returns # {} /\ IsText(LineRead)
    /\ in_pos' = AfterLine
    /\ line_size' = AfterLine - in_pos
    /\ eofbit' = ~HasNewline
    /\ current_datetime' = TimeOf(LineRead)
    /\ static_position' = AfterLine
    /\ static_datetime' = TimeOf(LineRead)
    /\ static_filename' = added.file
    /\ pc' = IF ignore_dups /\ LineRead = added.text THEN "idle" ELSE pc
    /\ UNCHANGED <<files, failbit, callVars, file_pos, data, calls, wanted>>

\* Anything else, the rest of a line for one, is read and passed over.
ReadOther ==
    /\ Scanning /\ Returns # {} /\ ~IsText(LineRead)
    /\ in_pos' = AfterLine
    /\ line_size' = AfterLine - in_pos
    /\ eofbit' = ~HasNewline
    /\ UNCHANGED <<files, cacheVars, failbit, current_datetime, pc, callVars,
                   file_pos, data, calls, wanted>>

ReadEndUnnoticed ==      \* mutant: the end of the file is not noticed
    /\ Scanning /\ Returns = {}
    /\ UNCHANGED vars

\* No carriage return is left: getline takes what is there, if anything, and
\* reaches the end; ignore(1) then fails on a stream that is not good.
LastLine == SubSeq(File, in_pos + 1, Len(File))
ReadEnd ==
    /\ Scanning /\ Returns = {} /\ ~IsText(LastLine)
    /\ in_pos' = IF in_pos < Len(File) THEN Len(File) ELSE in_pos
    /\ line_size' = in_pos' - in_pos + 1
    /\ eofbit' = TRUE /\ failbit' = TRUE
    /\ UNCHANGED <<files, cacheVars, current_datetime, pc, callVars,
                   file_pos, data, calls, wanted>>

\* What is left is a line without its end, as a write that was cut off leaves it:
\* a line of the log all the same, but the position behind it is that of a failed
\* stream.
ReadTornLine ==
    /\ Scanning /\ Returns = {} /\ IsText(LastLine)
    /\ in_pos' = Len(File)
    /\ line_size' = Len(File) - in_pos + 1
    /\ eofbit' = TRUE /\ failbit' = TRUE
    /\ current_datetime' = TimeOf(LastLine)
    /\ static_position' = -1
    /\ static_datetime' = TimeOf(LastLine)
    /\ static_filename' = added.file
    /\ pc' = IF ignore_dups /\ LastLine = added.text THEN "idle" ELSE pc
    /\ UNCHANGED <<files, callVars, file_pos, data, calls, wanted>>
-----------------------------------------------------------------------------
\* Where the message goes: before the line that ended the scan, or at the end.
\* tellg() of a failed stream is -1.
Place == IF failbit THEN -1
         ELSE IF eofbit THEN Len(File) ELSE in_pos - line_size

\* What follows that place: nothing, for a failed stream.
Locate ==
    /\ pc = "scan" /\ ~Scanning
    /\ file_pos' = Place
    /\ data' = IF Place = -1 THEN <<>> ELSE SubSeq(File, Place + 1, Len(File))
    /\ pc' = "write"
    /\ UNCHANGED <<files, cacheVars, streamVars, callVars, calls, wanted>>

\* Writing units over a file from a position on.
OverwriteEmptied(file, pos, units) ==      \* mutant: the file is opened for writing alone
    units
Overwrite(file, pos, units) ==
    SubSeq(file, 1, pos) \o units \o SubSeq(file, pos + Len(units) + 1, Len(file))

\* The message and what followed its place.  A seek to -1 fails, and nothing
\* is written on a failed stream.
Write ==
    /\ pc = "write"
    /\ files' = IF file_pos = -1 THEN files
                ELSE [files EXCEPT ![added.file] =
                        Overwrite(File, file_pos, Line(added) \o data)]
    /\ pc' = "idle"
    /\ UNCHANGED <<cacheVars, streamVars, callVars, file_pos, data, calls, wanted>>

\* One step of a call that is running.
CallStep == ReadLogLine \/ ReadOther \/ ReadEnd \/ ReadTornLine \/ Locate \/ Write

Next == (\E entry \in Entries, dups \in IgnoreDups : Call(Message(entry), dups)) \/ CallStep

Spec == Init /\ [][Next]_vars
-----------------------------------------------------------------------------
(***************************************************************************)
(* Properties.                                                             *)
(***************************************************************************)
\* Types of the variables.
Types ==
    /\ DOMAIN files = Files
    /\ static_filename \in Files \cup {NoFile}
    /\ static_datetime \in Nat /\ static_position \in Nat \cup {-1}
    /\ pc \in {"idle", "scan", "write"}
    /\ added.file \in Files \cup {NoFile} /\ added.time \in Nat
    /\ ignore_dups \in BOOLEAN
    /\ in_pos \in Nat /\ line_size \in Nat /\ current_datetime \in Nat
    /\ eofbit \in BOOLEAN /\ failbit \in BOOLEAN
    /\ pc = "write" => file_pos \in -1 .. Len(files[added.file])
    /\ calls \in 0 .. MaxCalls /\ \A message \in wanted : message.file \in Files

\* The starts of the texts of a file.
Starts(file) == {k \in DOMAIN file : file[k].kind = "text" /\ file[k].part = 1}

\* history.cpp:108 says "2. Write our message into file at current position.":
\* when no call is running, every message that was to be added is in its file.
AddedIsWritten ==
    pc = "idle" => \A message \in wanted :
        \E k \in Starts(files[message.file]) : Message(files[message.file][k].entry) = message
=============================================================================
