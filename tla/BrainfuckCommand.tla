-------------------------- MODULE BrainfuckCommand --------------------------
(***************************************************************************)
(* The interpreter behind "!bf <code>" (bf_cmd): a tape of byte cells that *)
(* closes on itself, a step budget, and the stack `loops' of addresses of  *)
(* '['.  One action is one turn of the loop.  Addresses count from 0.      *)
(*                                                                         *)
(* The output is the sequence of the printed cells; 0 stands for the '?'   *)
(* that replaces an unprintable one.                                       *)
(***************************************************************************)
EXTENDS Integers, Sequences

CONSTANTS Programs,        \* the programs people send
          MemSize,         \* MEM_SIZE (256 in the code)
          CellMod,         \* values of an unsigned char (256)
          FirstPrintable,  \* the first cell value printed as itself (9)
          TimeToLive       \* time_to_live (256 * 256)

Ops == {"-", "+", "<", ">", "[", "]", ",", ".", "other"}

ASSUME BfAssumption ==
    /\ Programs \subseteq Seq(Ops)
    /\ MemSize \in Nat \ {0} /\ CellMod \in Nat \ {0}
    /\ FirstPrintable \in Nat \ {0} /\ TimeToLive \in Nat

VARIABLES code, memory, pos_in_mem, pos_in_code, loops, time_to_live,
          result,    \* what was printed
          outcome    \* "running", or how the command ended

bfVars == <<code, memory, pos_in_mem, pos_in_code, loops, time_to_live, result, outcome>>

Cell == 0 .. CellMod - 1
Address == 0 .. MemSize - 1

TypeOK ==
    /\ code \in Seq(Ops)
    /\ memory \in [Address -> Cell] /\ pos_in_mem \in Address
    /\ pos_in_code \in 0 .. Len(code)
    /\ loops \in Seq(0 .. Len(code) - 1)
    /\ time_to_live \in 0 .. TimeToLive
    /\ result \in Seq(Cell)
    /\ outcome \in {"running", "finished", "aborted", "unbalanced", "unsupported"}

BfInit ==
    /\ code \in Programs
    /\ memory = [a \in Address |-> 0] /\ pos_in_mem = 0
    /\ pos_in_code = 0 /\ loops = <<>>
    /\ time_to_live = TimeToLive
    /\ result = <<>> /\ outcome = "running"
-----------------------------------------------------------------------------
OpAt(pos) == code[pos + 1]
Op == OpAt(pos_in_code)

TurnUncounted(op) ==      \* mutant: brackets cost no time
    /\ outcome = "running" /\ pos_in_code < Len(code) /\ time_to_live > 0
    /\ Op = op
    /\ time_to_live' = IF op \in {"[", "]"} THEN time_to_live ELSE time_to_live - 1

\* The test at the head of a turn: the program goes on, and has time left.
Turn(op) ==
    /\ outcome = "running" /\ pos_in_code < Len(code) /\ time_to_live > 0
    /\ Op = op
    /\ time_to_live' = time_to_live - 1

Advance == pos_in_code' = pos_in_code + 1

Change(delta) ==
    /\ memory' = [memory EXCEPT ![pos_in_mem] = (@ + delta) % CellMod]
    /\ Advance /\ UNCHANGED <<code, pos_in_mem, loops, result, outcome>>
Decrement == Turn("-") /\ Change(-1)
Increment == Turn("+") /\ Change(1)

MoveTo(address) ==
    /\ pos_in_mem' = address
    /\ Advance /\ UNCHANGED <<code, memory, loops, result, outcome>>
Left  == Turn("<") /\ MoveTo(IF pos_in_mem # 0 THEN pos_in_mem - 1 ELSE MemSize - 1)
Right == Turn(">") /\ MoveTo(IF pos_in_mem # MemSize - 1 THEN pos_in_mem + 1 ELSE 0)

\* '[' is entered whatever the cell holds.
OpenLoop ==
    /\ Turn("[")
    /\ loops' = Append(loops, pos_in_code)
    /\ Advance /\ UNCHANGED <<code, memory, pos_in_mem, result, outcome>>

\* ']' with no address on the stack ends the command.
Unbalanced ==
    /\ Turn("]") /\ loops = <<>>
    /\ outcome' = "unbalanced"
    /\ UNCHANGED <<code, memory, pos_in_mem, pos_in_code, loops, result>>

RepeatFirst ==      \* mutant: the bottom of the stack is taken for its top
    /\ Turn("]") /\ loops # <<>> /\ memory[pos_in_mem] # 0
    /\ pos_in_code' = loops[1]
    /\ loops' = SubSeq(loops, 1, Len(loops) - 1)
    /\ UNCHANGED <<code, memory, pos_in_mem, result, outcome>>
RepeatKeeping ==      \* mutant: the address stays when the loop is repeated
    /\ Turn("]") /\ loops # <<>> /\ memory[pos_in_mem] # 0
    /\ pos_in_code' = loops[Len(loops)]
    /\ UNCHANGED <<code, memory, pos_in_mem, loops, result, outcome>>
Repeat ==
    /\ Turn("]") /\ loops # <<>> /\ memory[pos_in_mem] # 0
    /\ pos_in_code' = loops[Len(loops)]
    /\ loops' = SubSeq(loops, 1, Len(loops) - 1)
    /\ UNCHANGED <<code, memory, pos_in_mem, result, outcome>>

\* A loop is left with its address still on the stack.
Leave ==
    /\ Turn("]") /\ loops # <<>> /\ memory[pos_in_mem] = 0
    /\ Advance /\ UNCHANGED <<code, memory, pos_in_mem, loops, result, outcome>>

Unsupported ==
    /\ Turn(",")
    /\ outcome' = "unsupported"
    /\ UNCHANGED <<code, memory, pos_in_mem, pos_in_code, loops, result>>

PutCell ==
    /\ Turn(".")
    /\ LET cell == memory[pos_in_mem]
       IN  result' = Append(result, IF cell < FirstPrintable THEN 0 ELSE cell)
    /\ Advance /\ UNCHANGED <<code, memory, pos_in_mem, loops, outcome>>

Skip ==
    /\ Turn("other")
    /\ Advance /\ UNCHANGED <<code, memory, pos_in_mem, loops, result, outcome>>

\* time_to_live is tested before it counts down: TimeToLive turns are taken.
Abort ==
    /\ outcome = "running" /\ pos_in_code < Len(code) /\ time_to_live = 0
    /\ outcome' = "aborted"
    /\ UNCHANGED <<code, memory, pos_in_mem, pos_in_code, loops, time_to_live, result>>

Finish ==
    /\ outcome = "running" /\ pos_in_code >= Len(code)
    /\ outcome' = "finished"
    /\ UNCHANGED <<code, memory, pos_in_mem, pos_in_code, loops, time_to_live, result>>

BfNext ==
    \/ Decrement \/ Increment \/ Left \/ Right
    \/ OpenLoop \/ Unbalanced \/ Repeat \/ Leave
    \/ Unsupported \/ PutCell \/ Skip \/ Abort \/ Finish

BfSpec == BfInit /\ [][BfNext]_bfVars
\* The command runs on the bot's thread until it returns.
FairSpec == BfSpec /\ WF_bfVars(BfNext)
-----------------------------------------------------------------------------
(***************************************************************************)
(* Properties.                                                             *)
(***************************************************************************)
Opening(pos) == OpAt(pos) = "["

\* The stack holds addresses of '[' in ascending order, all of them behind
\* the program counter: it never holds one twice, and never outgrows the
\* program, however often loops are repeated and left with their address on
\* the stack.
LoopsAscending ==
    /\ \A k \in DOMAIN loops : Opening(loops[k]) /\ loops[k] < pos_in_code
    /\ \A j, k \in DOMAIN loops : j < k => loops[j] < loops[k]

\* "ZOMG! Error!" is the answer to just one thing, a ']' with no '[' anywhere
\* before it: once a '[' was passed the stack is never found empty by a ']',
\* so a ']' too many further on goes unreported.
ErrorMeansNoOpening ==
    outcome = "unbalanced" => \A pos \in 0 .. pos_in_code - 1 : ~Opening(pos)

\* The last '[' before a position.
LastOpening(pos) ==
    CHOOSE p \in 0 .. pos - 1 :
        Opening(p) /\ \A q \in 0 .. pos - 1 : Opening(q) => q <= p

\* No loop of the program contains another one.
Flat ==
    \A p, q \in 0 .. Len(code) - 1 :
        p < q /\ Opening(p) /\ Opening(q) =>
            \E r \in p .. q : OpAt(r) = "]"

\* In a program without nested loops ']' repeats its own loop, although the
\* addresses of earlier loops are still on the stack.
FlatLoopsRepeatThemselves ==
    [][ Flat /\ outcome' = "running" /\ pos_in_code' <= pos_in_code
            => pos_in_code' = LastOpening(pos_in_code) ]_bfVars

\* Every program gets an answer: the step budget ends the loops that would
\* never end, and the bot's only thread comes back.
CommandReturns == <>(outcome # "running")
=============================================================================
