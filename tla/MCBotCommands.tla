--------------------------- MODULE MCBotCommands ---------------------------
(***************************************************************************)
(* What becomes of the text of a message: its conversion (Unicode), its    *)
(* parsing (CommandParser), for "!bf" its execution (BrainfuckCommand),    *)
(* and its line in a log to which an import writes, too (SharedLog).  The  *)
(* first three run to their ends on the bot's only thread; a behaviour is  *)
(* one of the four, while the others have returned.                        *)
(*   - Every program of up to four operators, and longer ones of loops.    *)
(*   - Every text of up to five symbols after a bang, meant as nothing in  *)
(*     particular, and every command of up to two arguments of up to two   *)
(*     symbols or one of up to four, in every way of writing it.           *)
(*   - Octets at every limit of the table of UTF-8, up to three of them,   *)
(*     or four after a lead octet, and words at every limit of surrogates. *)
(*   - One log; imported messages of two lengths at two times, and         *)
(*     messages of the bot that are shorter and longer than they are.      *)
(***************************************************************************)
EXTENDS BrainfuckCommand, SharedLog

Short == UNION {[1..n -> Ops] : n \in 0..4}
Looping == UNION {[1..n -> {"+", "-", "[", "]"}] : n \in 5..6}
MCPrograms == Short \cup Looping
-----------------------------------------------------------------------------
VARIABLES message, cmd, arguments, parsing
messageVars == <<message, cmd, arguments, parsing>>

Bang == "!"   Blank == " "   Quote == "q"   Backslash == "b"   Letter == "a"
UpTo(n, set) == UNION {[1 .. k -> set] : k \in 0 .. n}
ArgSymbols == {Letter, Blank, Quote, Backslash}
Name == <<Bang, Letter>>
Writer == INSTANCE CommandParser WITH Inputs <- {}, input <- message, result <- arguments,
                                      pc <- parsing

Raw == {[text |-> <<Bang>> \o text, meant |-> <<>>] : text \in UpTo(5, Writer!Symbols)}
Args == UpTo(2, ArgSymbols)
One == UNION {{[text |-> Name \o <<Blank>> \o w, meant |-> <<Name, arg>>] :
                  w \in Writer!WritingsOf(arg)} : arg \in Args}
Two == UNION {{[text |-> first.text \o gap \o w, meant |-> Append(first.meant, arg)] :
                  w \in Writer!WritingsOf(arg), first \in One, gap \in {<<Blank>>, <<Blank, Blank>>}} :
                  arg \in Args}
Long == UNION {{[text |-> Name \o <<Blank>> \o w, meant |-> <<Name, arg>>] :
                  w \in Writer!WritingsOf(arg)} : arg \in UpTo(4, ArgSymbols)}
MCInputs == Raw \cup Two \cup Long
                 \cup {[text |-> one.text \o gap, meant |-> one.meant] :
                         one \in One, gap \in UpTo(2, {Blank})}
Parser == INSTANCE CommandParser WITH Inputs <- MCInputs, input <- message, result <- arguments,
                                      pc <- parsing
-----------------------------------------------------------------------------
VARIABLES text, it, converted, step
textVars == <<text, it, converted, step>>

Octets == {0, 65, 127, 128, 143, 144, 159, 160, 190, 191, 192, 193, 194, 223, 224, 225, 237, 239,
           240, 241, 244, 245, 248, 255}
Trails == {65, 128, 143, 144, 191}
Words == {0, 65, 127, 128, 2047, 2048, 55295, 55296, 56319, 56320, 57343, 57344, 65533, 65535}
MCTexts ==
    {[form |-> "octets", units |-> units] :
        units \in UpTo(3, Octets)
                  \cup {<<lead, second>> \o last : lead \in {240, 241, 244, 245, 248}, second \in Octets,
                                                   last \in [1 .. 2 -> Trails]}}
    \cup {[form |-> "words", units |-> units] : units \in UpTo(3, Words)}
Converter == INSTANCE Unicode WITH Texts <- MCTexts, result <- converted
-----------------------------------------------------------------------------
LogFiles == {"monday"}
Imported == [file : LogFiles, time : 1..2, size : 1..2]
SaidLater == [file : LogFiles, time : {3}, size : {1, 3}]
WrittenLog(entries) ==
    LET line(n) == IF n \in DOMAIN entries THEN Line(Message(entries[n])) ELSE <<>>
    IN  [f \in LogFiles |-> IF entries = <<>> THEN <<>> ELSE <<BOM>> \o line(1) \o line(2)]
First == [file |-> "monday", time |-> 1, size |-> 1]
Second == [file |-> "monday", time |-> 2, size |-> 2]
Logs == {WrittenLog(entries) : entries \in {<<>>, <<Second>>, <<First, Second>>}}
ASSUME SharedAssumption
-----------------------------------------------------------------------------
NoProgram ==
    /\ code = <<>> /\ memory = [a \in Address |-> 0] /\ pos_in_mem = 0 /\ pos_in_code = 0
    /\ loops = <<>> /\ time_to_live = TimeToLive /\ result = <<>> /\ outcome = "finished"
NothingParsed ==
    message = [text |-> <<>>, meant |-> <<>>] /\ cmd = <<>> /\ arguments = <<>> /\ parsing = "none"
NothingConverted ==
    text = [form |-> "octets", units |-> <<>>] /\ it = <<>> /\ converted = <<>> /\ step = "done"

\* Neither the bot nor an import writes to a log.
Off == "off"
NothingLogged ==
    /\ Init /\ files = WrittenLog(<<>>)
    /\ log_pc = Off /\ log_entry = NoEntry /\ log_bom = FALSE
    /\ creating = FALSE /\ crossed = {} /\ appends = 0

CommandsInit ==
    \/ BfInit /\ NothingParsed /\ NothingConverted /\ NothingLogged
    \/ Parser!Init /\ NoProgram /\ NothingConverted /\ NothingLogged
    \/ Converter!Init /\ NoProgram /\ NothingParsed /\ NothingLogged
    \/ SharedInit /\ NoProgram /\ NothingParsed /\ NothingConverted
CommandsNext ==
    \/ BfNext /\ UNCHANGED <<messageVars, textVars, sharedVars>>
    \/ Parser!Next /\ UNCHANGED <<bfVars, textVars, sharedVars>>
    \/ Converter!Next /\ UNCHANGED <<bfVars, messageVars, sharedVars>>
    \/ log_pc # Off /\ SharedNext /\ UNCHANGED <<bfVars, messageVars, textVars>>
allVars == <<bfVars, messageVars, textVars, sharedVars>>
CommandsSpec == CommandsInit /\ [][CommandsNext]_allVars /\ WF_allVars(CommandsNext)

\* What is said is what is understood: the arguments found are those the writer of a
\* command meant (parseCommand), and a message gets through both conversions as it was
\* sent (deUTF8 and UTF8).
SaidIsUnderstood == Parser!SaidIsMeant /\ Converter!TextSurvives
\* The conversions, the parser and the interpreter return, whatever a message says.
EachReturns == CommandReturns /\ Parser!ParseReturns /\ Converter!ConversionReturns
=============================================================================
