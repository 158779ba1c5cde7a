-------------------------- MODULE MCHistoryImport --------------------------
(* Two days.  One directory to import has a day of two messages, one of     *)
(* which may be known, and one that minutes_delta moves to the next day;    *)
(* the other a file of one message and one that gives a message twice.      *)
EXTENDS HistoryImport
LOCAL INSTANCE SequencesExt

MCFiles == {"monday", "tuesday"}
On(time, size) == [file |-> "monday", time |-> time, size |-> size]
Tuesday == [file |-> "tuesday", time |-> 1, size |-> 1]
MCEntries == [file : {"monday"}, time : 0..3, size : 1..3] \cup {Tuesday}
MCIgnoreDups == BOOLEAN

Written(entries) ==
    IF entries = <<>> THEN <<>>
    ELSE <<BOM>> \o FlattenSeq([k \in DOMAIN entries |-> Line(Message(entries[k]))])
Days(seqs) == {[f \in MCFiles |-> IF f = "monday" THEN Written(s) ELSE <<>>] : s \in seqs}

\* Files in order, and files that are not.  The texts are as long as it takes for
\* a write that is cut off to leave one of them in the middle of another's line, an
\* import's in the second file and a sort's in the third.
MCInitialLogs ==
    Days({<<>>,
          <<On(2, 3), On(3, 1)>>,
          <<On(3, 1), On(1, 2), On(2, 1), On(0, 1), On(1, 1)>>,
          <<On(2, 2), On(1, 1), On(1, 1)>>})

MCSources ==
    {NotADirectory,
     {<<On(1, 1), On(2, 2)>>, <<Tuesday>>},
     {<<On(1, 2)>>, <<On(2, 3), On(2, 3)>>}}
MCOptions == {{"miranda"}, {"miranda", "sort"}, {"sort", "remove-backup"}}
=============================================================================
