---------------------------- MODULE MCHistoryLog ----------------------------
(* One conference on two days, messages of two lengths at three times, and *)
(* files with no line up to two.                                           *)
EXTENDS HistoryLog

MCFiles == {"monday", "tuesday"}
MCEntries == [file : {"monday"}, time : 1..3, size : 1..2]
                \cup {[file |-> "tuesday", time |-> 2, size |-> 1]}

MCIgnoreDups == {TRUE}

LogOf(entries) ==
    IF entries = <<>> THEN <<>>
    ELSE <<BOM>> \o Line(Message(entries[1]))
          \o (IF Len(entries) = 2 THEN Line(Message(entries[2])) ELSE <<>>)
SortedSeqs == {s \in UNION {[1..n -> {e \in MCEntries : e.file = "monday"}] : n \in 0..2} :
                 Len(s) = 2 => s[1].time <= s[2].time}
MCInitialLogs == {[f \in MCFiles |-> IF f = "monday" THEN LogOf(s) ELSE <<>>] : s \in SortedSeqs}
=============================================================================
