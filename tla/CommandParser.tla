---------------------------- MODULE CommandParser ----------------------------
(***************************************************************************)
(* parseCommand: cuts a chat message into the name of a command and its    *)
(* arguments.  An argument is a run of characters without blanks, or       *)
(* stands in quotes, in which \" is a quote.                               *)
(*                                                                         *)
(* A text is a sequence of symbols.  The regular expressions tell apart a  *)
(* bang, a blank, a quote and a backslash; every other character is a      *)
(* letter.  One action is one turn of the loop.                            *)
(***************************************************************************)
EXTENDS Integers, Sequences, FiniteSets

CONSTANTS Inputs     \* [text |-> a message, meant |-> what its writer meant by it]

Bang == "!"   Blank == " "   Quote == "q"   Backslash == "b"   Letter == "a"
Symbols == {Bang, Blank, Quote, Backslash, Letter}

VARIABLES input,    \* the message parsed, with its meaning
          cmd,      \* the rest of it
          result,   \* the arguments found, the name first
          pc        \* "name", "args", "command" (returned true) or "none" (false)

vars == <<input, cmd, result, pc>>

Init ==
    /\ input \in Inputs
    /\ cmd = input.text /\ result = <<>> /\ pc = "name"
-----------------------------------------------------------------------------
\* erase(0, n).
Erase(text, n) == SubSeq(text, n + 1, Len(text))

\* The length of the longest prefix without, or of nothing but, blanks.
RunLength(text, Member(_)) ==
    CHOOSE n \in 0 .. Len(text) :
        /\ \A k \in 1 .. n : Member(text[k])
        /\ n < Len(text) => ~Member(text[n + 1])
WordLength(text) == RunLength(text, LAMBDA symbol : symbol # Blank)
Trimmed(text) == Erase(text, RunLength(text, LAMBDA symbol : symbol = Blank))

\* A quote closes a quoted argument if an even number of backslashes is in front.
ClosesFirst(text, k) == k > 1 /\ text[k] = Quote      \* mutant: escapes are not looked at
Closes(text, k) ==
    /\ k > 1 /\ text[k] = Quote
    /\ \E m \in 1 .. k - 1 :
          /\ text[m] # Backslash
          /\ \A j \in m + 1 .. k - 1 : text[j] = Backslash
          /\ (k - 1 - m) % 2 = 0
Closings(text) == {k \in DOMAIN text : Closes(text, k)}
Closing(text) == CHOOSE k \in Closings(text) : \A j \in Closings(text) : k <= j
IsQuoted(text) == text # <<>> /\ text[1] = Quote /\ Closings(text) # {}

\* regex_replace of \" by ".
Unescaped(arg) ==
    LET kept == {k \in DOMAIN arg : ~(arg[k] = Backslash /\ k < Len(arg) /\ arg[k + 1] = Quote)}
        nth(n) == CHOOSE k \in kept : Cardinality({j \in kept : j <= k}) = n
    IN  [n \in 1 .. Cardinality(kept) |-> arg[nth(n)]]
-----------------------------------------------------------------------------
\* The name: a bang and at least one more character.
TakeName ==
    /\ pc = "name"
    /\ cmd # <<>> /\ cmd[1] = Bang /\ WordLength(cmd) > 1
    /\ result' = <<SubSeq(cmd, 1, WordLength(cmd))>>
    /\ cmd' = Erase(cmd, WordLength(cmd))
    /\ pc' = "args"
    /\ UNCHANGED input

NoCommand ==
    /\ pc = "name"
    /\ ~(cmd # <<>> /\ cmd[1] = Bang /\ WordLength(cmd) > 1)
    /\ pc' = "none"
    /\ UNCHANGED <<input, cmd, result>>

TakeQuoted ==
    /\ pc = "args" /\ cmd # <<>>
    /\ LET text == Trimmed(cmd)
       IN  /\ IsQuoted(text)
           /\ result' = Append(result, Unescaped(SubSeq(text, 2, Closing(text) - 1)))
           /\ cmd' = Erase(text, Closing(text))
    /\ UNCHANGED <<input, pc>>

TakeSimple ==
    /\ pc = "args" /\ cmd # <<>>
    /\ LET text == Trimmed(cmd)
       IN  /\ text # <<>> /\ ~IsQuoted(text)
           /\ result' = Append(result, SubSeq(text, 1, WordLength(text)))
           /\ cmd' = Erase(text, WordLength(text))
    /\ UNCHANGED <<input, pc>>

\* Nothing but blanks is left: neither expression matches, arg keeps its initial
\* value and is pushed all the same.
TakeNothing ==
    /\ pc = "args" /\ cmd # <<>> /\ Trimmed(cmd) = <<>>
    /\ result' = Append(result, <<>>)
    /\ cmd' = <<>>
    /\ UNCHANGED <<input, pc>>

Finish ==
    /\ pc = "args" /\ cmd = <<>>
    /\ pc' = "command"
    /\ UNCHANGED <<input, cmd, result>>

Next == TakeName \/ NoCommand \/ TakeQuoted \/ TakeSimple \/ TakeNothing \/ Finish

Spec == Init /\ [][Next]_vars
FairSpec == Spec /\ WF_vars(Next)
-----------------------------------------------------------------------------
(***************************************************************************)
(* How a command is written: its name and arguments, each after a blank or *)
(* two.  An argument may stand as it is if it is a word that does not      *)
(* begin with a quote, and in quotes with a backslash before each of its   *)
(* quotes, if that cannot be misread: a backslash of its own stands        *)
(* neither before a quote nor at the end.                                  *)
(***************************************************************************)
Escaped(arg) ==
    LET pieces[n \in 0 .. Len(arg)] ==
            IF n = 0 THEN <<>>
            ELSE pieces[n - 1] \o (IF arg[n] = Quote THEN <<Backslash, Quote>> ELSE <<arg[n]>>)
    IN  pieces[Len(arg)]
Quotable(arg) ==
    \A k \in DOMAIN arg : arg[k] = Backslash => k < Len(arg) /\ arg[k + 1] # Quote
Bare(arg) == arg # <<>> /\ arg[1] # Quote /\ \A k \in DOMAIN arg : arg[k] # Blank
WritingsOf(arg) ==
    (IF Bare(arg) THEN {arg} ELSE {})
        \cup (IF Quotable(arg) THEN {<<Quote>> \o Escaped(arg) \o <<Quote>>} ELSE {})
-----------------------------------------------------------------------------
(***************************************************************************)
(* Properties.                                                             *)
(***************************************************************************)
\* A command written with any mixture of bare and quoted arguments is understood:
\* the arguments are those the writer meant, quotes, blanks and backslashes in
\* them included; but blanks at the end are taken for one more argument, of nothing.
EndsInBlank == input.text[Len(input.text)] = Blank
SaidIsMeant ==
    pc = "command" /\ input.meant # <<>> =>
        result = input.meant \o IF EndsInBlank THEN <<<<>>>> ELSE <<>>

\* The loop ends: every turn takes something off a text that is not empty.
ParseReturns == pc \in {"name", "args"} ~> pc \in {"command", "none"}
=============================================================================
