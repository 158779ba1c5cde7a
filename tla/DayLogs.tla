------------------------------ MODULE DayLogs ------------------------------
(***************************************************************************)
(* What the program history-import promises of the logs, a sequence of     *)
(* lines for every day: a line is put among the others, at its place if    *)
(* they are in order, or left out; a sort puts them all aside as the       *)
(* backup, once, and begins with none; and if the program is cut off while *)
(* it writes, no line is lost that is not later than the one it was        *)
(* putting there.  Nothing is promised of a day whose log is mixed: a line *)
(* of it is in the middle of another one.                                  *)
(***************************************************************************)
EXTENDS Naturals, Sequences

CONSTANTS Days,
          Time(_)      \* the time of a line

VARIABLES logs, backup, \* functions from days to sequences of lines
          aside,       \* the logs have been put aside
          mixed,       \* the days whose logs are mixed
          putting,     \* the line being put, and its day, if there is one
          cuts         \* how often the program was cut off

InOrder(lines) == \A j, k \in DOMAIN lines : j < k => Time(lines[j]) <= Time(lines[k])
Empty == [day \in Days |-> <<>>]
None == {}

\* after has one line more than before, at k.
Without(before, after, k) ==
    /\ Len(after) = Len(before) + 1
    /\ before = SubSeq(after, 1, k - 1) \o SubSeq(after, k + 1, Len(after))

OnlyLogOf(day) ==
    \A other \in Days \ {day} : logs'[other] = logs[other] /\ (other \in mixed' <=> other \in mixed)

Init == backup = Empty /\ ~aside /\ putting = None /\ cuts = 0

\* A line is the first of its day.
PutFirst ==
    /\ putting = None /\ putting' = None
    /\ \E day \in Days :
          /\ logs[day] = <<>> /\ Len(logs'[day]) = 1
          /\ OnlyLogOf(day)
    /\ UNCHANGED <<backup, aside, cuts>>

BeginPut ==
    /\ putting = None
    /\ \E put \in putting' : put.day \in Days /\ putting' = {put}
    /\ UNCHANGED <<logs, backup, aside, mixed, cuts>>

Put ==
    /\ putting' = None
    /\ \E put \in putting :
          /\ put.day \notin mixed =>
                /\ \E k \in DOMAIN logs'[put.day] :
                      /\ logs'[put.day][k] = put.line
                      /\ Without(logs[put.day], logs'[put.day], k)
                /\ InOrder(logs[put.day]) => InOrder(logs'[put.day])
          /\ OnlyLogOf(put.day)
    /\ UNCHANGED <<backup, aside, cuts>>

\* The line is known, or finds no place.
LeaveOut ==
    /\ putting' = None
    /\ \E put \in putting : OnlyLogOf(put.day) /\ logs'[put.day] = logs[put.day]
    /\ UNCHANGED <<backup, aside, cuts>>

PutAside ==
    /\ putting = None
    /\ ~aside /\ aside' = TRUE
    /\ backup' = logs /\ logs' = Empty
    /\ UNCHANGED <<putting, cuts>>

\* The lines that are not later than the one being put are where they were; a log
\* without lines may have one, or a part of it.
CutOff ==
    /\ putting' = None /\ cuts' = cuts + 1
    /\ \/ UNCHANGED <<logs, mixed>>
       \/ \E put \in putting :
             /\ put.day \notin mixed /\ InOrder(logs[put.day]) =>
                   \A k \in DOMAIN logs[put.day] :
                       Time(logs[put.day][k]) <= Time(put.line) =>
                           k \in DOMAIN logs'[put.day] /\ logs'[put.day][k] = logs[put.day][k]
             /\ OnlyLogOf(put.day)
       \/ \E day \in Days : putting = None /\ logs[day] = <<>> /\ OnlyLogOf(day)
    /\ UNCHANGED <<backup, aside>>

Next == PutFirst \/ BeginPut \/ Put \/ LeaveOut \/ PutAside \/ CutOff

Spec == Init /\ [][Next]_<<logs, backup, aside, mixed, putting, cuts>>
=============================================================================
