------------------------- MODULE BotCommandsProofs -------------------------
(***************************************************************************)
(* Proofs about what becomes of a command: its execution, if it is !bf,    *)
(* for programs, tapes and step budgets of any size, and the line of the   *)
(* message in a log to which an import writes, too, whatever the files     *)
(* hold at the start, however many lines there are and however long.       *)
(*                                                                         *)
(* The first part is the interpreter and the stack of its loops.  The      *)
(* second is that confLog of the bot and history_add of the import, which  *)
(* write without a lock, lose no line but to a write that the other's has  *)
(* crossed: what can be read in a file, for what is put before a line, or  *)
(* behind all of them, hides none, and then the invariant of the two, what *)
(* each may still rely on of what it has looked at.                        *)
(***************************************************************************)
EXTENDS BrainfuckCommand, SharedLog, SequenceTheorems, WellFoundedInduction, TLAPS

(***************************************************************************)
(* Type correctness.                                                       *)
(***************************************************************************)
\* What the stack looks like after a push and after a pop.
LEMMA PushType ==
    ASSUME NEW S, NEW s \in Seq(S), NEW x \in S
    PROVE  /\ Append(s, x) \in Seq(S)
           /\ Len(Append(s, x)) = Len(s) + 1
           /\ \A k \in 1 .. Len(s) : Append(s, x)[k] = s[k]
           /\ Append(s, x)[Len(s) + 1] = x
  OBVIOUS

LEMMA PopType ==
    ASSUME NEW S, NEW s \in Seq(S), s # <<>>
    PROVE  /\ Len(s) \in Nat \ {0} /\ s[Len(s)] \in S
           /\ SubSeq(s, 1, Len(s) - 1) \in Seq(S)
           /\ Len(SubSeq(s, 1, Len(s) - 1)) = Len(s) - 1
           /\ \A k \in 1 .. Len(s) - 1 : SubSeq(s, 1, Len(s) - 1)[k] = s[k]
  <1> DEFINE n == Len(s)
             t == SubSeq(s, 1, n - 1)
  <1>1. n \in Nat \ {0} BY EmptySeq
  <1>2. \A k \in 1 .. n : s[k] \in S BY ElementOfSeq
  <1>3. \A k \in 1 .. n - 1 : s[k] \in S BY <1>1, <1>2
  <1>4. n - 1 \in Int /\ 1 \in Int BY <1>1
  <1>5. /\ t \in Seq(S)
        /\ Len(t) = IF 1 <= n - 1 THEN (n - 1) - 1 + 1 ELSE 0
        /\ \A k \in 1 .. (n - 1) - 1 + 1 : t[k] = s[1 + k - 1]
    BY <1>3, <1>4, SubSeqProperties
  <1> HIDE DEF n, t
  <1>6. /\ Len(t) = n - 1
        /\ \A k \in 1 .. n - 1 : t[k] = s[k]
    <2>1. Len(t) = n - 1 BY <1>1, <1>5
    <2>2. ASSUME NEW k \in 1 .. n - 1 PROVE t[k] = s[k]
      <3>1. k \in 1 .. (n - 1) - 1 + 1 /\ 1 + k - 1 = k BY <1>1
      <3> QED BY <1>5, <3>1
    <2> QED BY <2>1, <2>2
  <1>7. s[n] \in S BY <1>1, <1>2
  <1> QED BY <1>1, <1>5, <1>6, <1>7 DEF n, t

\* A turn takes one unit of the budget and leaves it a number.
LEMMA TurnType ==
    ASSUME TypeOK, NEW op, Turn(op)
    PROVE  time_to_live' \in 0 .. TimeToLive /\ outcome = "running"
           /\ pos_in_code \in 0 .. Len(code) - 1
  BY BfAssumption DEF TypeOK, Turn

\* Every cell stays a byte when it is counted up or down: % wraps it.
LEMMA ChangeType ==
    ASSUME TypeOK, NEW delta \in {-1, 1}, Change(delta)
    PROVE  memory' \in [Address -> Cell]
  <1>1. (memory[pos_in_mem] + delta) % CellMod \in Cell
    BY BfAssumption, SMTT(30) DEF TypeOK, Cell, Address
  <1> QED BY <1>1 DEF TypeOK, Change

\* TypeOK holds at every step of every program.
THEOREM TypeCorrect == BfSpec => []TypeOK
  <1>1. BfInit => TypeOK
    BY BfAssumption DEF BfInit, TypeOK, Address, Cell
  <1>2. TypeOK /\ [BfNext]_bfVars => TypeOK'
    <2> SUFFICES ASSUME TypeOK, [BfNext]_bfVars PROVE TypeOK' OBVIOUS
    <2> USE BfAssumption
    <2>1. CASE Decrement
      <3>1. memory' \in [Address -> Cell] BY <2>1, ChangeType DEF Decrement
      <3> QED BY <2>1, <3>1 DEF Decrement, Change, Turn, Advance, TypeOK
    <2>2. CASE Increment
      <3>1. memory' \in [Address -> Cell] BY <2>2, ChangeType DEF Increment
      <3> QED BY <2>2, <3>1 DEF Increment, Change, Turn, Advance, TypeOK
    <2>3. CASE Left
      BY <2>3 DEF Left, MoveTo, Turn, Advance, TypeOK, Address
    <2>4. CASE Right
      BY <2>4 DEF Right, MoveTo, Turn, Advance, TypeOK, Address
    <2>5. CASE OpenLoop
      <3>1. pos_in_code \in 0 .. Len(code) - 1
        BY <2>5 DEF OpenLoop, Turn, TypeOK
      <3> QED BY <2>5, <3>1 DEF OpenLoop, Turn, Advance, TypeOK
    <2>6. CASE Unbalanced
      BY <2>6, TurnType DEF Unbalanced, TypeOK
    <2>7. CASE Repeat
      <3>1. loops[Len(loops)] \in 0 .. Len(code) - 1 BY <2>7, PopType DEF Repeat, TypeOK
      <3>2. loops' \in Seq(0 .. Len(code) - 1) BY <2>7, PopType DEF Repeat, TypeOK
      <3> QED BY <2>7, <3>1, <3>2 DEF Repeat, Turn, TypeOK
    <2>8. CASE Leave
      BY <2>8 DEF Leave, Turn, Advance, TypeOK
    <2>9. CASE Unsupported
      BY <2>9, TurnType DEF Unsupported, TypeOK
    <2>10. CASE PutCell
      <3>1. memory[pos_in_mem] \in Cell /\ 0 \in Cell BY DEF TypeOK, Cell
      <3> QED BY <2>10, <3>1 DEF PutCell, Turn, Advance, TypeOK
    <2>11. CASE Skip
      BY <2>11 DEF Skip, Turn, Advance, TypeOK
    <2>12. CASE Abort
      BY <2>12 DEF Abort, TypeOK
    <2>13. CASE Finish
      BY <2>13 DEF Finish, TypeOK
    <2>14. CASE UNCHANGED bfVars
      BY <2>14 DEF bfVars, TypeOK
    <2> QED
      BY <2>1, <2>2, <2>3, <2>4, <2>5, <2>6, <2>7, <2>8, <2>9, <2>10,
         <2>11, <2>12, <2>13, <2>14 DEF BfNext
  <1> QED BY <1>1, <1>2, PTL DEF BfSpec
(***************************************************************************)
(* What a step does to the stack: it passes an operator that is no '[',    *)
(* stays where it is, or is one of OpenLoop and Repeat.                    *)
(***************************************************************************)
Passing ==
    /\ pos_in_code \in 0 .. Len(code) - 1 /\ pos_in_code' = pos_in_code + 1
    /\ ~Opening(pos_in_code)
    /\ UNCHANGED <<code, loops, outcome>>

Staying ==
    /\ UNCHANGED <<code, loops, pos_in_code>>
    /\ outcome' = "unbalanced" => outcome = "unbalanced" \/ loops = <<>>
    /\ outcome' = "running" => UNCHANGED bfVars

LEMMA StepKinds ==
    ASSUME TypeOK, [BfNext]_bfVars
    PROVE  Passing \/ Staying \/ OpenLoop \/ Repeat
  <1>1. CASE Decrement
    BY <1>1, TurnType DEF Decrement, Change, Advance, Turn, Op, Opening, Passing
  <1>2. CASE Increment
    BY <1>2, TurnType DEF Increment, Change, Advance, Turn, Op, Opening, Passing
  <1>3. CASE Left
    BY <1>3, TurnType DEF Left, MoveTo, Advance, Turn, Op, Opening, Passing
  <1>4. CASE Right
    BY <1>4, TurnType DEF Right, MoveTo, Advance, Turn, Op, Opening, Passing
  <1>5. CASE Leave
    BY <1>5, TurnType DEF Leave, Advance, Turn, Op, Opening, Passing
  <1>6. CASE PutCell
    BY <1>6, TurnType DEF PutCell, Advance, Turn, Op, Opening, Passing
  <1>7. CASE Skip
    BY <1>7, TurnType DEF Skip, Advance, Turn, Op, Opening, Passing
  <1>8. CASE Unbalanced BY <1>8 DEF Unbalanced, Staying
  <1>9. CASE Unsupported BY <1>9 DEF Unsupported, Staying
  <1>10. CASE Abort BY <1>10 DEF Abort, Staying
  <1>11. CASE Finish BY <1>11 DEF Finish, Staying
  <1>12. CASE UNCHANGED bfVars BY <1>12 DEF bfVars, Staying
  <1> QED
    BY <1>1, <1>2, <1>3, <1>4, <1>5, <1>6, <1>7, <1>8, <1>9, <1>10, <1>11, <1>12
       DEF BfNext

(***************************************************************************)
(* The stack is ascending.                                                 *)
(***************************************************************************)
\* For every program the stack `loops' of bf_cmd holds addresses of '[' behind
\* the program counter, each at most once.
THEOREM StackAscending == BfSpec => []LoopsAscending
  <1>1. BfInit => LoopsAscending
    BY DEF BfInit, LoopsAscending
  <1>2. TypeOK /\ LoopsAscending /\ [BfNext]_bfVars => LoopsAscending'
    <2> SUFFICES ASSUME TypeOK, LoopsAscending, [BfNext]_bfVars PROVE LoopsAscending'
      OBVIOUS
    <2>1. CASE Passing
      BY <2>1 DEF Passing, LoopsAscending, Opening, OpAt, TypeOK
    <2>2. CASE Staying
      BY <2>2 DEF Staying, LoopsAscending, Opening, OpAt
    <2>3. CASE OpenLoop
      <3>1. pos_in_code \in 0 .. Len(code) - 1 /\ Opening(pos_in_code)
        BY <2>3, TurnType DEF OpenLoop, Turn, Op, Opening
      <3>2. /\ pos_in_code' = pos_in_code + 1 /\ code' = code
            /\ loops' = Append(loops, pos_in_code)
        BY <2>3 DEF OpenLoop, Advance
      <3>3. /\ DOMAIN loops = 1 .. Len(loops) /\ Len(loops) \in Nat
            /\ DOMAIN loops' = 1 .. Len(loops) + 1
            /\ \A k \in 1 .. Len(loops) : loops'[k] = loops[k]
            /\ loops'[Len(loops) + 1] = pos_in_code
        BY <3>1, <3>2, PushType DEF TypeOK
      <3>4. \A k \in 1 .. Len(loops) : loops[k] < pos_in_code /\ OpAt(loops[k]) = "["
        BY <3>3 DEF LoopsAscending, Opening
      <3>5. \A j, k \in 1 .. Len(loops) : j < k => loops[j] < loops[k]
        BY <3>3 DEF LoopsAscending
      <3>6. ASSUME NEW k \in DOMAIN loops'
            PROVE  loops'[k] < pos_in_code' /\ code'[loops'[k] + 1] = "["
        <4>0. ASSUME NEW a \in 1 .. Len(loops)
              PROVE  loops[a] \in Int
          BY <3>3 DEF TypeOK
        <4>1. CASE k \in 1 .. Len(loops)
          BY <3>1, <3>2, <3>3, <3>4, <4>0, <4>1 DEF OpAt
        <4>2. CASE k = Len(loops) + 1
          BY <3>1, <3>2, <3>3, <4>2 DEF Opening, OpAt
        <4> QED BY <3>3, <4>1, <4>2
      <3>7. ASSUME NEW j \in DOMAIN loops', NEW k \in DOMAIN loops', j < k
            PROVE  loops'[j] < loops'[k]
        <4>1. j \in 1 .. Len(loops) BY <3>3, <3>7
        <4>2. CASE k \in 1 .. Len(loops)
          BY <3>3, <3>5, <3>7, <4>1, <4>2
        <4>3. CASE k = Len(loops) + 1
          BY <3>3, <3>4, <4>1, <4>3
        <4> QED BY <3>3, <4>2, <4>3
      <3> QED
        BY <3>6, <3>7 DEF LoopsAscending, Opening, OpAt
    <2>4. CASE Repeat
      <3>1. /\ DOMAIN loops = 1 .. Len(loops) /\ Len(loops) \in Nat \ {0}
            /\ pos_in_code' = loops[Len(loops)] /\ code' = code
            /\ DOMAIN loops' = 1 .. Len(loops) - 1
            /\ \A k \in 1 .. Len(loops) - 1 : loops'[k] = loops[k]
        BY <2>4, PopType DEF Repeat, TypeOK
      <3> QED
        BY <3>1 DEF LoopsAscending, Opening, OpAt
    <2> QED BY <2>1, <2>2, <2>3, <2>4, StepKinds
  <1> QED BY <1>1, <1>2, TypeCorrect, PTL DEF BfSpec

(***************************************************************************)
(* "ZOMG! Error!".                                                         *)
(***************************************************************************)
\* The strengthening: the bottom of the stack is the first '[' of the program,
\* and with an empty stack no '[' was passed yet.  Repeat may empty the stack,
\* but then it jumps back to that first '['.
NoOpeningBefore(pos) == \A p \in 0 .. pos - 1 : ~Opening(p)
BottomIsFirst ==
    /\ loops = <<>> => NoOpeningBefore(pos_in_code)
    /\ loops # <<>> => NoOpeningBefore(loops[1])

\* bf_cmd answers "ZOMG! Error!" only where no '[' comes before a ']'.
THEOREM ErrorIsMissingOpening == BfSpec => []ErrorMeansNoOpening
  <1> DEFINE IInv == BottomIsFirst /\ ErrorMeansNoOpening
  <1>1. BfInit => IInv
    BY DEF BfInit, BottomIsFirst, NoOpeningBefore, ErrorMeansNoOpening
  <1>2. TypeOK /\ IInv /\ [BfNext]_bfVars => IInv'
    <2> SUFFICES ASSUME TypeOK, IInv, [BfNext]_bfVars PROVE IInv'
      OBVIOUS
    <2>1. CASE Passing
      <3>1. NoOpeningBefore(pos_in_code) => NoOpeningBefore(pos_in_code')
        BY <2>1 DEF Passing, NoOpeningBefore, Opening, OpAt
      <3>2. BottomIsFirst'
        BY <2>1, <3>1 DEF Passing, BottomIsFirst, NoOpeningBefore, Opening, OpAt
      <3>3. ErrorMeansNoOpening'
        BY <2>1, <3>1 DEF Passing, ErrorMeansNoOpening, NoOpeningBefore, Opening, OpAt
      <3> QED BY <3>2, <3>3
    <2>2. CASE Staying
      BY <2>2 DEF Staying, BottomIsFirst, NoOpeningBefore, ErrorMeansNoOpening, Opening, OpAt
    <2>3. CASE OpenLoop
      <3>1. /\ pos_in_code \in 0 .. Len(code) - 1
            /\ outcome = "running" /\ outcome' = "running"
            /\ code' = code /\ loops' = Append(loops, pos_in_code)
        BY <2>3, TurnType DEF OpenLoop
      <3>2. /\ Len(loops) \in Nat /\ loops \in Seq(0 .. Len(code) - 1)
            /\ Len(loops') = Len(loops) + 1
            /\ \A k \in 1 .. Len(loops) : loops'[k] = loops[k]
            /\ loops'[Len(loops) + 1] = pos_in_code
        BY <3>1, PushType DEF TypeOK
      <3>3. loops' # <<>> BY <3>2
      <3>4. CASE loops = <<>>
        <4>1. loops'[1] = pos_in_code BY <3>2, <3>4
        <4> QED
          BY <3>1, <3>3, <3>4, <4>1
             DEF BottomIsFirst, NoOpeningBefore, ErrorMeansNoOpening, Opening, OpAt
      <3>5. CASE loops # <<>>
        <4>1. loops'[1] = loops[1] BY <3>2, <3>5
        <4> QED
          BY <3>1, <3>3, <3>5, <4>1
             DEF BottomIsFirst, NoOpeningBefore, ErrorMeansNoOpening, Opening, OpAt
      <3> QED BY <3>4, <3>5
    <2>4. CASE Repeat
      <3>1. /\ Len(loops) \in Nat \ {0} /\ loops # <<>>
            /\ outcome = "running" /\ outcome' = "running"
            /\ pos_in_code' = loops[Len(loops)] /\ code' = code
            /\ loops' \in Seq(0 .. Len(code) - 1) /\ Len(loops') = Len(loops) - 1
            /\ \A k \in 1 .. Len(loops) - 1 : loops'[k] = loops[k]
        BY <2>4, PopType, TurnType DEF Repeat, TypeOK
      <3>2. CASE Len(loops) = 1
        <4>1. loops' = <<>> /\ pos_in_code' = loops[1]
          BY <3>1, <3>2
        <4> QED
          BY <3>1, <4>1 DEF BottomIsFirst, NoOpeningBefore, ErrorMeansNoOpening, Opening, OpAt
      <3>3. CASE Len(loops) # 1
        <4>1. loops' # <<>> /\ loops'[1] = loops[1]
          BY <3>1, <3>3
        <4> QED
          BY <3>1, <4>1 DEF BottomIsFirst, NoOpeningBefore, ErrorMeansNoOpening, Opening, OpAt
      <3> QED BY <3>2, <3>3
    <2> QED BY <2>1, <2>2, <2>3, <2>4, StepKinds
  <1> QED BY <1>1, <1>2, TypeCorrect, PTL DEF BfSpec

(***************************************************************************)
(* Where ']' jumps.                                                        *)
(***************************************************************************)
\* The strengthening: the stack holds every '[' before the program counter, for a '['
\* pushes its address, a loop that is left leaves it, and one that is repeated goes back
\* to the '[' whose address it takes.  So its top is the last of them.
AllOnStack ==
    \A p \in 0 .. pos_in_code - 1 : Opening(p) => \E k \in DOMAIN loops : loops[k] = p

LEMMA TopIsLast ==
    ASSUME TypeOK, LoopsAscending, AllOnStack, loops # <<>>
    PROVE  loops[Len(loops)] = LastOpening(pos_in_code)
  <1> DEFINE n == Len(loops)
             last(p) == Opening(p) /\ \A q \in 0 .. pos_in_code - 1 : Opening(q) => q <= p
  <1>1. n \in Nat \ {0} /\ DOMAIN loops = 1 .. n /\ pos_in_code \in Nat
    BY PopType, LenProperties DEF TypeOK
  <1>2. \A k \in 1 .. n : loops[k] \in Nat
    BY <1>1, ElementOfSeq DEF TypeOK
  <1>3. n \in 1 .. n BY <1>1
  <1> HIDE DEF n
  <1>4. loops[n] \in 0 .. pos_in_code - 1 /\ Opening(loops[n])
    BY <1>1, <1>2, <1>3 DEF LoopsAscending
  <1>5. ASSUME NEW q \in 0 .. pos_in_code - 1, Opening(q) PROVE q <= loops[n]
    <2>1. PICK k \in 1 .. n : loops[k] = q BY <1>1, <1>5 DEF AllOnStack
    <2>2. k < n => loops[k] < loops[n] BY <1>1, <1>3 DEF LoopsAscending
    <2> QED BY <1>1, <1>2, <1>3, <2>1, <2>2
  <1>6. last(loops[n]) BY <1>4, <1>5
  <1>7. ASSUME NEW p \in 0 .. pos_in_code - 1, last(p) PROVE p = loops[n]
    BY <1>4, <1>6, <1>7
  <1> QED BY <1>4, <1>6, <1>7 DEF LastOpening, n

\* For any program, tape and budget: a ']' of bf_cmd that repeats goes back to the last '['
\* before it; in a program without nested loops that is its own, although the addresses of
\* all loops left before are still on the stack.
THEOREM RepeatsLastLoop == BfSpec => FlatLoopsRepeatThemselves
  <1>1. BfInit => AllOnStack
    BY DEF BfInit, AllOnStack
  <1>2. TypeOK /\ LoopsAscending /\ AllOnStack /\ [BfNext]_bfVars => AllOnStack'
    <2> SUFFICES ASSUME TypeOK, LoopsAscending, AllOnStack, [BfNext]_bfVars PROVE AllOnStack'
      OBVIOUS
    <2>1. CASE Passing
      BY <2>1 DEF Passing, AllOnStack, Opening, OpAt
    <2>2. CASE Staying
      BY <2>2 DEF Staying, AllOnStack, Opening, OpAt
    <2>3. CASE OpenLoop
      <3>1. /\ pos_in_code \in 0 .. Len(code) - 1 /\ pos_in_code' = pos_in_code + 1
            /\ code' = code /\ loops' = Append(loops, pos_in_code)
        BY <2>3, TurnType DEF OpenLoop, Advance
      <3>2. /\ DOMAIN loops = 1 .. Len(loops) /\ Len(loops) \in Nat
            /\ DOMAIN loops' = 1 .. Len(loops) + 1
            /\ \A k \in 1 .. Len(loops) : loops'[k] = loops[k]
            /\ loops'[Len(loops) + 1] = pos_in_code
        BY <3>1, PushType DEF TypeOK
      <3>3. ASSUME NEW p \in 0 .. pos_in_code, Opening(p)
            PROVE  \E k \in DOMAIN loops' : loops'[k] = p
        <4>1. CASE p = pos_in_code BY <3>2, <4>1
        <4>2. CASE p # pos_in_code
          <5>1. p \in 0 .. pos_in_code - 1 BY <3>1, <4>2
          <5> QED BY <3>2, <3>3, <5>1 DEF AllOnStack
        <4> QED BY <4>1, <4>2
      <3>4. 0 .. pos_in_code' - 1 = 0 .. pos_in_code BY <3>1
      <3> QED BY <3>1, <3>3, <3>4 DEF AllOnStack, Opening, OpAt
    <2>4. CASE Repeat
      <3> DEFINE n == Len(loops)
      <3>1. /\ DOMAIN loops = 1 .. n /\ n \in Nat \ {0} /\ loops # <<>>
            /\ pos_in_code' = loops[n] /\ code' = code
            /\ DOMAIN loops' = 1 .. n - 1
            /\ \A k \in 1 .. n - 1 : loops'[k] = loops[k]
        BY <2>4, PopType DEF Repeat, TypeOK
      <3>2. loops[n] \in 0 .. pos_in_code - 1 /\ pos_in_code \in Nat
        <4>1. n \in 1 .. n BY <3>1
        <4>2. loops[n] \in 0 .. Len(code) - 1 BY <4>1, ElementOfSeq DEF TypeOK
        <4>3. loops[n] < pos_in_code BY <3>1, <4>1 DEF LoopsAscending
        <4> QED BY <4>2, <4>3 DEF TypeOK
      <3> HIDE DEF n
      <3>3. ASSUME NEW p \in 0 .. loops[n] - 1, Opening(p)
            PROVE  \E k \in DOMAIN loops' : loops'[k] = p
        <4>1. p \in 0 .. pos_in_code - 1 BY <3>2
        <4>2. PICK k \in 1 .. n : loops[k] = p BY <3>1, <3>3, <4>1 DEF AllOnStack
        <4>3. k # n BY <3>2, <4>2
        <4>4. k \in 1 .. n - 1 BY <3>1, <4>3
        <4> QED BY <3>1, <4>2, <4>4
      <3> QED BY <3>1, <3>3 DEF AllOnStack, Opening, OpAt
    <2> QED BY <2>1, <2>2, <2>3, <2>4, StepKinds
  <1>3. TypeOK /\ LoopsAscending /\ AllOnStack /\ [BfNext]_bfVars =>
          [ Flat /\ outcome' = "running" /\ pos_in_code' <= pos_in_code
              => pos_in_code' = LastOpening(pos_in_code) ]_bfVars
    <2> SUFFICES ASSUME TypeOK, LoopsAscending, AllOnStack, [BfNext]_bfVars,
                        outcome' = "running", pos_in_code' <= pos_in_code, ~ UNCHANGED bfVars
                 PROVE  pos_in_code' = LastOpening(pos_in_code)
      OBVIOUS
    <2>1. pos_in_code \in Nat BY DEF TypeOK
    <2>2. ~ Passing BY <2>1 DEF Passing
    <2>3. ~ Staying BY DEF Staying
    <2>4. ~ OpenLoop BY <2>1 DEF OpenLoop, Advance
    <2>5. Repeat BY <2>2, <2>3, <2>4, StepKinds
    <2> QED BY <2>5, TopIsLast DEF Repeat
  <1> QED
    BY <1>1, <1>2, <1>3, TypeCorrect, StackAscending, PTL DEF BfSpec, FlatLoopsRepeatThemselves

-----------------------------------------------------------------------------
(***************************************************************************)
(* What can be read in a log that two programs write to.                   *)
(***************************************************************************)
Entry == [file : Files \cup {NoFile}, time : Nat, size : Nat]
TextUnit(entry, k) == [kind |-> "text", entry |-> entry, part |-> k]
StartOfText(unit) == unit.kind = "text" /\ unit.part = 1
EndsWell(file) == file = <<>> \/ file[Len(file)] = LF

\* A line stands at j, unit by unit.
LineAt(file, j, entry) ==
    /\ j = 2 \/ (j > 2 /\ file[j - 1] = LF)
    /\ entry.size >= 1 /\ j + entry.size + 1 <= Len(file)
    /\ \A k \in 1 .. entry.size : file[j + k - 1] = TextUnit(entry, k)
    /\ file[j + entry.size] = CR /\ file[j + entry.size + 1] = LF

\* What a sequence holds behind another.
LEMMA BehindAnother ==
    ASSUME NEW S, NEW s \in Seq(S), NEW t \in Seq(S), NEW k \in 1 .. Len(t)
    PROVE  (s \o t)[Len(s) + k] = t[k]
<1> DEFINE i == Len(s) + k
<1>1. Len(s) \in Nat /\ Len(t) \in Nat BY LenProperties
<1>2. i \in 1 .. Len(s) + Len(t) /\ ~(i <= Len(s)) /\ i - Len(s) = k BY <1>1
<1> HIDE DEF i
<1>3. (s \o t)[i] = IF i <= Len(s) THEN s[i] ELSE t[i - Len(s)]
  BY <1>2, ConcatProperties
<1> QED BY <1>2, <1>3 DEF i

\* The units of a line, one by one.
LEMMA LineUnits ==
    ASSUME NEW entry \in Entry
    PROVE  /\ Line(Message(entry)) \in Seq(Units)
           /\ Len(Line(Message(entry))) = entry.size + 2
           /\ \A k \in 1 .. entry.size : Line(Message(entry))[k] = TextUnit(entry, k)
           /\ Line(Message(entry))[entry.size + 1] = CR
           /\ Line(Message(entry))[entry.size + 2] = LF
<1> DEFINE t == Text(entry)   end == <<CR, LF>>
<1>1. entry.size \in Nat BY DEF Entry
<1>2. t \in [1 .. entry.size -> Units]
  BY <1>1 DEF Text, Units, Entry
<1>3. t \in Seq(Units) BY <1>1, <1>2, SeqDef
<1>4. Len(t) = entry.size
  <2>1. Len(t) \in Nat /\ DOMAIN t = 1 .. Len(t) BY <1>3, LenProperties
  <2>2. DOMAIN t = 1 .. entry.size BY <1>2
  <2> QED BY <2>1, <2>2, <1>1
<1>5. \A k \in 1 .. entry.size : t[k] = TextUnit(entry, k) BY DEF Text, TextUnit
<1>6. CR \in Units /\ LF \in Units BY DEF CR, LF, Units, NoEntry
<1>7. end \in Seq(Units) /\ Len(end) = 2 /\ end[1] = CR /\ end[2] = LF BY <1>6
<1>8. Line(Message(entry)) = t \o end BY DEF Line, Message
<1> HIDE DEF t, end
<1>9. /\ t \o end \in Seq(Units)
      /\ Len(t \o end) = entry.size + 2
      /\ \A i \in 1 .. entry.size + 2 :
            (t \o end)[i] = IF i <= entry.size THEN t[i] ELSE end[i - entry.size]
  <2>1. /\ t \o end \in Seq(Units)
        /\ Len(t \o end) = Len(t) + Len(end)
        /\ \A i \in 1 .. Len(t) + Len(end) :
              (t \o end)[i] = IF i <= Len(t) THEN t[i] ELSE end[i - Len(t)]
    BY <1>3, <1>7, ConcatProperties
  <2> QED BY <2>1, <1>4, <1>7
<1> DEFINE q == t \o end
<1> HIDE DEF q
<1>10. \A k \in 1 .. entry.size : q[k] = TextUnit(entry, k)
  BY <1>1, <1>5, <1>9 DEF q
<1>11. q[entry.size + 1] = end[1] /\ q[entry.size + 2] = end[2]
  <2>1. 1 \in 1 .. Len(end) /\ 2 \in 1 .. Len(end) BY <1>7
  <2>2. \A k \in 1 .. Len(end) : (t \o end)[Len(t) + k] = end[k]
    BY <1>3, <1>7, BehindAnother
  <2>3. (t \o end)[Len(t) + 1] = end[1] BY <2>1, <2>2
  <2>4. (t \o end)[Len(t) + 2] = end[2] BY ONLY <2>1, <2>2
  <2> QED BY <1>4, <2>3, <2>4 DEF q
<1> USE DEF q
<1> QED BY <1>7, <1>8, <1>9, <1>10, <1>11

\* What a part of a sequence holds.
LEMMA PartOf ==
    ASSUME NEW S, NEW s \in Seq(S), NEW a \in 1 .. Len(s) + 1, NEW b \in a - 1 .. Len(s)
    PROVE  /\ SubSeq(s, a, b) \in Seq(S)
           /\ Len(SubSeq(s, a, b)) = b - a + 1
           /\ \A i \in 1 .. b - a + 1 : SubSeq(s, a, b)[i] = s[a + i - 1]
<1>1. Len(s) \in Nat /\ (\A i \in 1 .. Len(s) : s[i] \in S) BY LenProperties
<1>2. a \in Int /\ b \in Int /\ (\A i \in a .. b : s[i] \in S) BY <1>1
<1>3. /\ SubSeq(s, a, b) \in Seq(S)
      /\ Len(SubSeq(s, a, b)) = IF a <= b THEN b - a + 1 ELSE 0
      /\ \A i \in 1 .. b - a + 1 : SubSeq(s, a, b)[i] = s[a + i - 1]
  BY <1>2, SubSeqProperties
<1>4. (IF a <= b THEN b - a + 1 ELSE 0) = b - a + 1 BY <1>1
<1> DEFINE q == SubSeq(s, a, b)
<1>5. Len(q) = b - a + 1 BY <1>3, <1>4
<1> QED BY <1>3, <1>5

\* A reader finds a message where its line stands.
LEMMA ReadableWhere ==
    ASSUME NEW file \in Seq(Units), NEW entry
    PROVE  entry \in Readable(file)
              <=> entry \in Entry /\ \E j \in 1 .. Len(file) : LineAt(file, j, entry)
<1> DEFINE n == Len(file)
<1>1. n \in Nat /\ DOMAIN file = 1 .. n /\ (\A i \in 1 .. n : file[i] \in Units)
  BY LenProperties
<1>2. \A i \in 1 .. n : file[i].entry \in Entry
  BY <1>1 DEF Units, Entry
<1>3. ASSUME NEW e \in Entry, NEW j \in 1 .. n, j + e.size + 1 <= n
      PROVE  /\ SubSeq(file, j, j + e.size + 1) \in Seq(Units)
             /\ Len(SubSeq(file, j, j + e.size + 1)) = e.size + 2
             /\ \A i \in 1 .. e.size + 2 : SubSeq(file, j, j + e.size + 1)[i] = file[j + i - 1]
  <2>1. e.size \in Nat BY DEF Entry
  <2>2. j \in 1 .. Len(file) + 1 /\ j + e.size + 1 \in j - 1 .. Len(file)
    BY <1>1, <1>3, <2>1
  <2> DEFINE b == j + e.size + 1
  <2>3. b - j + 1 = e.size + 2 BY <2>1, <1>1
  <2> HIDE DEF b
  <2>4. /\ SubSeq(file, j, b) \in Seq(Units)
        /\ Len(SubSeq(file, j, b)) = b - j + 1
        /\ \A i \in 1 .. b - j + 1 : SubSeq(file, j, b)[i] = file[j + i - 1]
    BY <2>2, PartOf DEF b
  <2> QED BY <2>3, <2>4 DEF b
<1>4. ASSUME entry \in Readable(file)
      PROVE  entry \in Entry /\ \E j \in 1 .. n : LineAt(file, j, entry)
  <2>1. PICK j \in ReadableAt(file) : entry = file[j].entry BY <1>4 DEF Readable
  <2>2. /\ j \in 1 .. n /\ file[j].kind = "text" /\ file[j].part = 1
        /\ j = 2 \/ (j > 2 /\ file[j - 1] = LF)
        /\ j + entry.size + 1 <= n
        /\ SubSeq(file, j, j + entry.size + 1) = Line(Message(entry))
    BY <2>1, <1>1 DEF ReadableAt, Starts
  <2>3. entry \in Entry /\ entry.size \in Nat BY <2>1, <2>2, <1>2 DEF Entry
  <2> DEFINE s == SubSeq(file, j, j + entry.size + 1)
  <2> HIDE DEF n
  <2>4. \A i \in 1 .. entry.size + 2 : s[i] = file[j + i - 1] BY <1>3, <2>2, <2>3
  <2>5. /\ \A k \in 1 .. entry.size : s[k] = TextUnit(entry, k)
        /\ s[entry.size + 1] = CR /\ s[entry.size + 2] = LF
    BY <2>2, <2>3, LineUnits
  <2> HIDE DEF s
  <2>6. \A k \in 1 .. entry.size : file[j + k - 1] = TextUnit(entry, k)
    BY <2>3, <2>4, <2>5
  <2>7. file[j + entry.size] = CR /\ file[j + entry.size + 1] = LF
    <3>1. entry.size + 1 \in 1 .. entry.size + 2 /\ entry.size + 2 \in 1 .. entry.size + 2
      BY <2>3
    <3>2. j + (entry.size + 1) - 1 = j + entry.size /\ j + (entry.size + 2) - 1 = j + entry.size + 1
      BY <2>2, <2>3, <1>1
    <3> QED BY <2>4, <2>5, <3>1, <3>2
  <2>8. entry.size >= 1
    <3>1. SUFFICES ASSUME entry.size = 0 PROVE FALSE BY <2>3
    <3>2. file[j] = CR BY <2>7, <3>1, <2>2, <1>1
    <3> QED BY <2>2, <3>2 DEF CR
  <2>9. LineAt(file, j, entry) BY <2>2, <2>6, <2>7, <2>8 DEF LineAt, n
  <2> QED BY <2>2, <2>3, <2>9
<1>5. ASSUME entry \in Entry, NEW j \in 1 .. n, LineAt(file, j, entry)
      PROVE  entry \in Readable(file)
  <2>1. entry.size \in Nat /\ entry.size >= 1 /\ j + entry.size + 1 <= n
    BY <1>5 DEF Entry, LineAt
  <2>2. file[j] = TextUnit(entry, 1)
    <3>1. 1 \in 1 .. entry.size /\ j + 1 - 1 = j BY <2>1, <1>1
    <3> QED BY <3>1, <1>5 DEF LineAt
  <2>3. file[j].kind = "text" /\ file[j].part = 1 /\ file[j].entry = entry
    BY <2>2 DEF TextUnit
  <2> DEFINE s == SubSeq(file, j, j + entry.size + 1)   l == Line(Message(entry))
  <2>4. /\ s \in Seq(Units) /\ Len(s) = entry.size + 2
        /\ \A i \in 1 .. entry.size + 2 : s[i] = file[j + i - 1]
    BY <1>3, <1>5, <2>1
  <2>5. /\ l \in Seq(Units) /\ Len(l) = entry.size + 2
        /\ \A k \in 1 .. entry.size : l[k] = TextUnit(entry, k)
        /\ l[entry.size + 1] = CR /\ l[entry.size + 2] = LF
    BY <1>5, LineUnits
  <2>6. /\ \A k \in 1 .. entry.size : file[j + k - 1] = TextUnit(entry, k)
        /\ file[j + entry.size] = CR /\ file[j + entry.size + 1] = LF
    BY <1>5 DEF LineAt
  <2> HIDE DEF s, l, n
  <2>7. \A i \in 1 .. entry.size + 2 : s[i] = l[i]
    <3>1. SUFFICES ASSUME NEW i \in 1 .. entry.size + 2 PROVE s[i] = l[i] OBVIOUS
    <3>2. CASE i \in 1 .. entry.size BY <3>2, <2>4, <2>5, <2>6
    <3>3. CASE i = entry.size + 1
      <4>1. j + i - 1 = j + entry.size BY <3>3, <2>1, <1>1
      <4> QED BY <4>1, <3>3, <2>4, <2>5, <2>6
    <3>4. CASE i = entry.size + 2
      <4>1. j + i - 1 = j + entry.size + 1 BY <3>4, <2>1, <1>1
      <4> QED BY <4>1, <3>4, <2>4, <2>5, <2>6
    <3> QED BY <3>2, <3>3, <3>4, <2>1
  <2>8. s = l BY <2>4, <2>5, <2>7, SeqEqual
  <2>9. j \in ReadableAt(file)
    BY <1>1, <1>5, <2>1, <2>3, <2>8 DEF ReadableAt, Starts, LineAt, s, l, n
  <2> QED BY <2>3, <2>9 DEF Readable
<1> QED BY <1>4, <1>5
-----------------------------------------------------------------------------
\* A line that stands in a file is seen in every file that has it at the same
\* place, and in every file that has it further behind a line end.
LEMMA LineMoved ==
    ASSUME NEW file \in Seq(Units), NEW other \in Seq(Units), NEW entry \in Entry,
           NEW j \in 1 .. Len(file), LineAt(file, j, entry), NEW w \in Nat,
           j + w + entry.size + 1 <= Len(other),
           \A i \in j .. j + entry.size + 1 : other[i + w] = file[i],
           j + w = 2 \/ (j + w > 2 /\ other[j + w - 1] = LF)
    PROVE  entry \in Readable(other)
<1>1. Len(file) \in Nat /\ Len(other) \in Nat BY LenProperties
<1>2. entry.size \in Nat /\ entry.size >= 1 BY DEF Entry, LineAt
<1> DEFINE at == j + w
<1>3. at \in 1 .. Len(other) BY <1>1, <1>2
<1>4. \A k \in 1 .. entry.size : other[at + k - 1] = TextUnit(entry, k)
  <2>1. SUFFICES ASSUME NEW k \in 1 .. entry.size PROVE other[at + k - 1] = TextUnit(entry, k)
    OBVIOUS
  <2>2. j + k - 1 \in j .. j + entry.size + 1 /\ (j + k - 1) + w = at + k - 1 BY <1>1, <1>2
  <2>3. other[at + k - 1] = file[j + k - 1] BY <2>2
  <2> QED BY <2>3 DEF LineAt
<1>5. other[at + entry.size] = CR
  <2>1. j + entry.size \in j .. j + entry.size + 1 /\ (j + entry.size) + w = at + entry.size
    BY <1>1, <1>2
  <2>2. other[at + entry.size] = file[j + entry.size] BY <2>1
  <2> QED BY <2>2 DEF LineAt
<1>6. other[at + entry.size + 1] = LF
  <2>1. /\ j + entry.size + 1 \in j .. j + entry.size + 1
        /\ (j + entry.size + 1) + w = at + entry.size + 1
    BY <1>1, <1>2, SMTT(30)
  <2>2. other[at + entry.size + 1] = file[j + entry.size + 1] BY <2>1
  <2> QED BY <2>2 DEF LineAt
<1>7. LineAt(other, at, entry) BY <1>2, <1>4, <1>5, <1>6 DEF LineAt
<1> QED BY <1>3, <1>7, ReadableWhere

\* What is put behind the end of a file hides no line of it.
LEMMA BehindHidesNone ==
    ASSUME NEW file \in Seq(Units), NEW other \in Seq(Units),
           Len(file) <= Len(other), \A i \in 1 .. Len(file) : other[i] = file[i]
    PROVE  Readable(file) \subseteq Readable(other)
<1>1. SUFFICES ASSUME NEW entry \in Readable(file) PROVE entry \in Readable(other)
  OBVIOUS
<1>2. Len(file) \in Nat /\ Len(other) \in Nat BY LenProperties
<1>3. entry \in Entry BY ReadableWhere
<1>4. PICK j \in 1 .. Len(file) : LineAt(file, j, entry) BY ReadableWhere
<1>5. /\ entry.size \in Nat /\ entry.size >= 1 /\ j + entry.size + 1 <= Len(file)
      /\ j = 2 \/ (j > 2 /\ file[j - 1] = LF)
  BY <1>3, <1>4 DEF Entry, LineAt
<1> DEFINE z == 0
<1>6. z \in Nat /\ (\A i \in Nat : i + z = i) OBVIOUS
<1> HIDE DEF z
<1>7. \A i \in j .. j + entry.size + 1 : other[i + z] = file[i]
  <2>1. \A i \in j .. j + entry.size + 1 : other[i] = file[i] /\ i \in Nat BY <1>2, <1>5
  <2> QED BY <2>1, <1>6
<1>8. j + z = 2 \/ (j + z > 2 /\ other[j + z - 1] = LF)
  <2>1. j + z = j BY <1>6
  <2>2. CASE j > 2 /\ file[j - 1] = LF
    <3>1. j - 1 \in 1 .. Len(file) BY <2>2, <1>2
    <3>2. other[j - 1] = LF BY <2>2, <3>1
    <3>3. j + z - 1 = j - 1 BY <2>1, <1>2, <1>6
    <3> QED BY <2>1, <2>2, <3>2, <3>3
  <2>3. CASE j = 2 BY <2>1, <2>3
  <2> QED BY <1>5, <2>2, <2>3
<1>9. j + z + entry.size + 1 <= Len(other)
  <2>1. j + z = j /\ j \in Nat BY <1>2, <1>6
  <2>2. j + z + entry.size + 1 = j + entry.size + 1 BY ONLY <2>1
  <2>3. j + entry.size + 1 \in Nat BY ONLY <1>5, <2>1
  <2>4. j + entry.size + 1 <= Len(other) BY ONLY <1>2, <1>5, <2>3, Len(file) <= Len(other)
  <2> QED BY ONLY <2>2, <2>4
<1> QED BY <1>3, <1>4, <1>6, <1>7, <1>8, <1>9, LineMoved

\* Whole lines put before a line hide none: a place before the start of a text is
\* inside no line, and what is put there ends with the end of a line.
LEMMA BetweenHidesNone ==
    ASSUME NEW file \in Seq(Units), NEW other \in Seq(Units),
           NEW p \in 1 .. Len(file), NEW w \in Nat \ {0},
           Len(file) + w <= Len(other),
           \A i \in 1 .. p : other[i] = file[i],
           other[p + w] = LF,
           \A i \in p + 1 .. Len(file) : other[i + w] = file[i],
           p < Len(file) => StartOfText(file[p + 1])
    PROVE  Readable(file) \subseteq Readable(other)
<1>1. SUFFICES ASSUME NEW entry \in Readable(file) PROVE entry \in Readable(other)
  OBVIOUS
<1>2. Len(file) \in Nat /\ Len(other) \in Nat BY LenProperties
<1>3. entry \in Entry BY ReadableWhere
<1>4. PICK j \in 1 .. Len(file) : LineAt(file, j, entry) BY ReadableWhere
<1>5. /\ entry.size \in Nat /\ entry.size >= 1 /\ j + entry.size + 1 <= Len(file)
      /\ j = 2 \/ (j > 2 /\ file[j - 1] = LF)
  BY <1>3, <1>4 DEF Entry, LineAt
<1> DEFINE n == entry.size
<1>0. n \in Nat /\ n >= 1 /\ j + n + 1 <= Len(file) /\ j \in Nat /\ p \in Nat
  BY <1>2, <1>5
<1> HIDE DEF n
<1>6. CASE j + n + 1 <= p
  <2> DEFINE z == 0
  <2>1. z \in Nat /\ (\A i \in Nat : i + z = i) OBVIOUS
  <2> HIDE DEF z
  <2>2. \A i \in j .. j + n + 1 : other[i + z] = file[i]
    <3>1. \A i \in j .. j + n + 1 : other[i] = file[i] /\ i \in Nat BY <1>2, <1>0, <1>5, <1>6
    <3> QED BY <2>1, <3>1
  <2>3. j + z = 2 \/ (j + z > 2 /\ other[j + z - 1] = LF)
    <3>1. j + z = j BY <2>1
    <3>2. CASE j > 2 /\ file[j - 1] = LF
      <4>1. j - 1 \in 1 .. p BY <3>2, <1>2, <1>0, <1>5, <1>6
      <4>2. other[j - 1] = LF BY <3>2, <4>1
      <4>3. j + z - 1 = j - 1 BY <3>1, <2>1, <1>0
      <4> QED BY <3>1, <3>2, <4>2, <4>3
    <3>3. CASE j = 2 BY <3>1, <3>3
    <3> QED BY <1>5, <3>2, <3>3
  <2>4. j + z + entry.size + 1 <= Len(other)
    <3>1. j + z = j BY <2>1, <1>0
    <3>2. j + n + 1 <= Len(other) BY <1>0, <1>2
    <3> QED BY <3>1, <3>2 DEF n
  <2> QED BY <1>3, <1>4, <2>1, <2>2, <2>3, <2>4, LineMoved DEF n
<1>7. CASE j > p
  <2>1. \A i \in j .. j + n + 1 : other[i + w] = file[i] BY <1>2, <1>0, <1>5, <1>7
  <2>2. other[j + w - 1] = LF
    <3>1. CASE j = p + 1
      <4>1. j + w - 1 = p + w BY <3>1
      <4> QED BY <4>1
    <3>2. CASE j > p + 1
      <4>1. j > 2 BY <3>2
      <4>2. file[j - 1] = LF BY <4>1, <1>0, <1>5
      <4>3. j - 1 \in p + 1 .. Len(file) /\ (j - 1) + w = j + w - 1 BY <3>2, <1>2
      <4> QED BY <4>2, <4>3
    <3> QED BY <3>1, <3>2, <1>7
  <2>3. j + w > 2 BY <1>0, <1>5, <1>7
  <2>4. j + w + n + 1 <= Len(other) BY <1>2, <1>0, <1>5
  <2> QED BY <1>3, <1>4, <2>1, <2>2, <2>3, <2>4, LineMoved DEF n
<1>8. CASE j <= p /\ p < j + n + 1
  <2>1. p < Len(file) /\ StartOfText(file[p + 1]) BY <1>2, <1>0, <1>5, <1>8
  <2> DEFINE k == p + 1 - j + 1
  <2>2. k \in 2 .. n + 2 /\ p + 1 = j + k - 1 BY <1>2, <1>0, <1>5, <1>8
  <2>3. CASE k \in 1 .. n
    <3>1. file[p + 1] = TextUnit(entry, k) BY <2>2, <2>3, <1>4 DEF LineAt, n
    <3> QED BY <2>1, <2>2, <3>1 DEF StartOfText, TextUnit
  <2>4. CASE k = n + 1
    <3>1. p + 1 = j + n BY <2>2, <2>4, <1>0
    <3>2. file[p + 1] = CR BY <3>1, <1>4 DEF LineAt, n
    <3> QED BY <2>1, <3>2 DEF StartOfText, CR
  <2>5. CASE k = n + 2
    <3>1. p + 1 = j + n + 1 BY <2>2, <2>5, <1>0
    <3>2. file[p + 1] = LF BY <3>1, <1>4 DEF LineAt, n
    <3> QED BY <2>1, <3>2 DEF StartOfText, LF
  <2> HIDE DEF k
  <2>6. k \in 1 .. n \/ k = n + 1 \/ k = n + 2
    <3>1. n \in Nat BY <1>0
    <3> QED BY ONLY <2>2, <3>1
  <2> QED BY <2>3, <2>4, <2>5, <2>6
<1> QED BY <1>0, <1>6, <1>7, <1>8, <1>2
-----------------------------------------------------------------------------
(***************************************************************************)
(* The invariant.                                                          *)
(***************************************************************************)
SharedTypes ==
    /\ files \in [Files -> Seq(Units)]
    /\ static_datetime \in Nat /\ static_position \in Int
    /\ static_position = -1 \/ static_position >= 1
    /\ pc \in {"idle", "scan", "write"}
    /\ in_pos \in Nat /\ line_size \in Nat /\ current_datetime \in Nat
    /\ eofbit \in BOOLEAN /\ failbit \in BOOLEAN
    /\ file_pos \in Int /\ data \in Seq(Units)
    /\ creating \in BOOLEAN /\ log_pc \in {"idle", "open"} /\ log_bom \in BOOLEAN
    /\ log_pc = "open" => log_entry \in Said

\* No program leaves a line without its end.
WholeLines == \A name \in Files : EndsWell(files[name])

\* A call that has opened its file is about an entry, and the file is not empty.
Busy ==
    /\ pc # "idle" => ~creating /\ (\E e \in Entries : added = Message(e)) /\ File # <<>>
    /\ creating => \E e \in Entries : added = Message(e)

\* A scan that has found a later message stands behind its line.
Scans ==
    pc = "scan" =>
        /\ in_pos >= 1
        /\ failbit => eofbit
        /\ current_datetime > added.time /\ ~eofbit =>
              /\ in_pos - line_size \in 1 .. Len(File) - 1
              /\ StartOfText(File[in_pos - line_size + 1])

\* What history_add is to write back still stands at its place, and is the rest of
\* the file if the bot has written nothing since.
Writes ==
    pc = "write" /\ file_pos # -1 =>
        /\ file_pos >= 1 /\ file_pos + Len(data) <= Len(File)
        /\ data = SubSeq(File, file_pos + 1, file_pos + Len(data))
        /\ data = <<>> \/ (StartOfText(data[1]) /\ data[Len(data)] = LF)
        /\ "bot" \notin crossed => file_pos + Len(data) = Len(File)

\* What was found empty is empty until the other program writes, and what was not
\* found empty never is.
Looks ==
    /\ creating /\ "bot" \notin crossed => files[added.file] = <<>>
    /\ log_pc = "open" /\ log_bom /\ "import" \notin crossed => files[log_entry.file] = <<>>
    /\ log_pc = "open" /\ ~log_bom => files[log_entry.file] # <<>>

SharedInv == SharedTypes /\ WholeLines /\ Busy /\ Scans /\ Writes /\ Looks
-----------------------------------------------------------------------------
\* The first of the carriage returns is one of them.
LEMMA FirstIsReturn ==
    ASSUME Returns # {}, Len(File) \in Nat, in_pos \in Nat
    PROVE  FirstReturn \in Returns
<1>1. Returns \subseteq Nat BY DEF Returns
<1>2. PICK k \in Returns : \A j \in Returns : ~(<<j, k>> \in OpToRel(<, Nat))
  BY <1>1, NatLessThanWellFounded, WFMin
<1>3. \A j \in Returns : k <= j
  <2>1. SUFFICES ASSUME NEW j \in Returns PROVE k <= j OBVIOUS
  <2>2. ~(j < k) BY <1>1, <1>2 DEF OpToRel
  <2> QED BY <1>1, <2>2
<1> QED BY <1>3 DEF FirstReturn

\* The first unit of a line that is read, and its time.
LEMMA LineStarts ==
    ASSUME NEW file \in Seq(Units), NEW from \in Nat, NEW to \in Int, to <= Len(file),
           IsText(SubSeq(file, from + 1, to))
    PROVE  /\ from < to
           /\ StartOfText(file[from + 1])
           /\ TimeOf(SubSeq(file, from + 1, to)) \in Nat
<1> DEFINE line == SubSeq(file, from + 1, to)
<1>1. Len(file) \in Nat /\ (\A i \in 1 .. Len(file) : file[i] \in Units) BY LenProperties
<1>2. line # <<>> BY DEF IsText
<1>3. from < to
  <2>1. ~(to < from + 1) BY <1>2, SubSeqEmpty
  <2> QED BY <2>1
<1>4. from + 1 \in 1 .. Len(file) + 1 /\ to \in from + 1 - 1 .. Len(file) /\ to - (from + 1) + 1 >= 1
  BY <1>1, <1>3
<1>5. \A i \in 1 .. to - (from + 1) + 1 : line[i] = file[from + 1 + i - 1]
  BY <1>4, PartOf
<1>6. line[1] = file[from + 1]
  <2>1. 1 \in 1 .. to - (from + 1) + 1 /\ from + 1 + 1 - 1 = from + 1 BY <1>4
  <2> QED BY <1>5, <2>1
<1>7. file[from + 1] \in Units BY <1>1, <1>4, <1>3
<1> HIDE DEF line
<1>8. StartOfText(file[from + 1]) BY <1>6 DEF IsText, StartOfText, line
<1>9. TimeOf(line) \in Nat BY <1>6, <1>7 DEF TimeOf, Units
<1> QED BY <1>3, <1>8, <1>9 DEF line

\* What a file holds that is written over from a position on.
LEMMA WrittenOver ==
    ASSUME NEW file \in Seq(Units), NEW pos \in 0 .. Len(file), NEW units \in Seq(Units)
    PROVE  /\ Overwrite(file, pos, units) \in Seq(Units)
           /\ Len(Overwrite(file, pos, units)) >= pos + Len(units)
           /\ Len(Overwrite(file, pos, units)) >= Len(file)
           /\ Len(Overwrite(file, pos, units)) = pos + Len(units)
                 \/ Len(Overwrite(file, pos, units)) = Len(file)
           /\ \A i \in 1 .. pos : Overwrite(file, pos, units)[i] = file[i]
           /\ \A i \in 1 .. Len(units) : Overwrite(file, pos, units)[pos + i] = units[i]
           /\ \A i \in pos + Len(units) + 1 .. Len(file) : Overwrite(file, pos, units)[i] = file[i]
<1> DEFINE a == SubSeq(file, 1, pos)
           n == Len(file)   u == Len(units)
           rest == SubSeq(file, pos + u + 1, n)
           both == a \o units
           new == both \o rest
<1>1. n \in Nat /\ u \in Nat /\ pos \in Nat /\ pos <= n
      /\ (\A i \in 1 .. n : file[i] \in Units)
  BY LenProperties
<1>2. new = Overwrite(file, pos, units) BY DEF Overwrite
<1>3. a \in Seq(Units) /\ Len(a) = pos /\ (\A i \in 1 .. pos : a[i] = file[i])
  <2>1. 1 \in 1 .. Len(file) + 1 /\ pos \in 1 - 1 .. Len(file) /\ pos - 1 + 1 = pos BY <1>1
  <2>2. /\ a \in Seq(Units) /\ Len(a) = pos - 1 + 1
        /\ \A i \in 1 .. pos - 1 + 1 : a[i] = file[1 + i - 1]
    BY <2>1, PartOf
  <2> HIDE DEF a
  <2>3. \A i \in 1 .. pos : 1 + i - 1 = i BY <1>1
  <2> QED BY <2>1, <2>2, <2>3
<1>4. /\ rest \in Seq(Units)
      /\ Len(rest) = IF pos + u + 1 <= n THEN n - (pos + u) ELSE 0
      /\ \A i \in 1 .. n - (pos + u) : rest[i] = file[pos + u + i]
  <2>1. pos + u + 1 \in Int /\ n \in Int /\ (\A i \in pos + u + 1 .. n : file[i] \in Units) BY <1>1
  <2>2. n - (pos + u + 1) + 1 = n - (pos + u) BY <1>1
  <2> DEFINE m == pos + u + 1
  <2> HIDE DEF m, n
  <2>3. /\ SubSeq(file, m, n) \in Seq(Units)
        /\ Len(SubSeq(file, m, n)) = IF m <= n THEN n - m + 1 ELSE 0
        /\ \A i \in 1 .. n - m + 1 : SubSeq(file, m, n)[i] = file[m + i - 1]
    BY <2>1, SubSeqProperties DEF m
  <2>4. n - m + 1 = n - (pos + u) /\ (\A i \in Nat : m + i - 1 = pos + u + i) BY <1>1 DEF m
  <2>5. rest = SubSeq(file, m, n) BY DEF m
  <2> HIDE DEF rest
  <2>6. Len(rest) = IF pos + u + 1 <= n THEN n - (pos + u) ELSE 0
    BY <2>3, <2>4, <2>5 DEF m
  <2>7. ASSUME NEW i \in 1 .. n - (pos + u) PROVE rest[i] = file[pos + u + i]
    <3>1. i \in Nat /\ i \in 1 .. n - m + 1 BY <2>4, <1>1
    <3>2. rest[i] = file[m + i - 1] BY <3>1, <2>3, <2>5
    <3> QED BY <3>1, <3>2, <2>4
  <2> QED BY <2>3, <2>5, <2>6, <2>7
<1> HIDE DEF a, rest
<1>5. /\ both \in Seq(Units) /\ Len(both) = pos + u
      /\ \A i \in 1 .. pos + u : both[i] = IF i <= pos THEN a[i] ELSE units[i - pos]
  BY <1>3, ConcatProperties
<1> HIDE DEF both, n, u
<1>6. /\ new \in Seq(Units) /\ Len(new) = Len(both) + Len(rest)
      /\ \A i \in 1 .. Len(both) + Len(rest) :
            new[i] = IF i <= Len(both) THEN both[i] ELSE rest[i - Len(both)]
  BY <1>4, <1>5, ConcatProperties
<1> HIDE DEF new
<1>7. Len(new) = IF pos + u + 1 <= n THEN n ELSE pos + u
  BY <1>1, <1>4, <1>5, <1>6
<1>8. \A i \in 1 .. pos + u : new[i] = IF i <= pos THEN a[i] ELSE units[i - pos]
  <2>1. SUFFICES ASSUME NEW i \in 1 .. pos + u
                 PROVE  new[i] = IF i <= pos THEN a[i] ELSE units[i - pos]
    OBVIOUS
  <2>2. Len(rest) \in Nat BY <1>1, <1>4
  <2>3. i \in 1 .. Len(both) + Len(rest) /\ i <= Len(both) BY <1>1, <1>5, <2>2
  <2>4. new[i] = both[i] BY <1>6, <2>3
  <2> QED BY <1>5, <2>4
<1>9. \A i \in 1 .. pos : new[i] = file[i]
  <2>1. \A i \in 1 .. pos : i \in 1 .. pos + u /\ i <= pos BY <1>1
  <2> QED BY <1>3, <1>8, <2>1
<1>10. \A i \in 1 .. u : new[pos + i] = units[i]
  <2>1. SUFFICES ASSUME NEW i \in 1 .. u PROVE new[pos + i] = units[i] OBVIOUS
  <2> DEFINE k == pos + i
  <2>2. k \in 1 .. pos + u /\ ~(k <= pos) /\ k - pos = i BY <1>1
  <2> HIDE DEF k
  <2>3. new[k] = units[k - pos] BY <1>8, <2>2
  <2> QED BY <2>2, <2>3 DEF k
<1>11. \A i \in pos + u + 1 .. n : new[i] = file[i]
  <2>1. SUFFICES ASSUME NEW i \in pos + u + 1 .. n PROVE new[i] = file[i] OBVIOUS
  <2> DEFINE k == i - (pos + u)
  <2>2. k \in 1 .. n - (pos + u) /\ pos + u + k = i /\ i \in 1 .. n BY <1>1
  <2>3. pos + u + 1 <= n BY <1>1
  <2>4. Len(both) + Len(rest) = n BY <1>1, <1>4, <1>5, <2>3
  <2>5. ~(i <= Len(both)) /\ i - Len(both) = k BY <1>1, <1>5
  <2> HIDE DEF k
  <2>6. new[i] = rest[i - Len(both)] BY <1>6, <2>2, <2>4, <2>5
  <2> QED BY <1>4, <2>2, <2>5, <2>6
<1>12. Len(new) >= pos + u /\ Len(new) >= n /\ (Len(new) = pos + u \/ Len(new) = n)
  BY <1>1, <1>7
<1> QED BY <1>2, <1>6, <1>9, <1>10, <1>11, <1>12 DEF n, u
-----------------------------------------------------------------------------
(***************************************************************************)
(* The steps of the bot.                                                   *)
(***************************************************************************)
\* The files at the start are as the invariant says.
LEMMA SharedStart ==
    ASSUME SharedAssumption, SharedInit
    PROVE  SharedInv
<1>1. SharedTypes
  <2>1. <<>> \in Seq(Units) OBVIOUS
  <2>2. files \in [Files -> Seq(Units)] BY DEF SharedInit, Init, SharedAssumption
  <2>3. data \in Seq(Units) BY <2>1 DEF SharedInit, Init
  <2>4. static_position \in Int /\ static_position = -1 BY DEF SharedInit, Init
  <2>5. /\ static_datetime \in Nat /\ in_pos \in Nat /\ line_size \in Nat
        /\ current_datetime \in Nat /\ file_pos \in Int
    BY DEF SharedInit, Init
  <2>6. /\ pc \in {"idle", "scan", "write"} /\ eofbit \in BOOLEAN /\ failbit \in BOOLEAN
        /\ creating \in BOOLEAN /\ log_pc \in {"idle", "open"} /\ log_bom \in BOOLEAN
        /\ log_pc # "open"
    BY DEF SharedInit, Init
  <2> QED BY <2>2, <2>3, <2>4, <2>5, <2>6 DEF SharedTypes
<1>2. WholeLines BY DEF SharedInit, Init, SharedAssumption, WholeLines, EndsWell
<1>3. Busy /\ Scans /\ Writes /\ Looks BY DEF SharedInit, Init, Busy, Scans, Writes, Looks
<1> QED BY <1>1, <1>2, <1>3 DEF SharedInv

\* The bot looks at a file: all that stands stays.
LEMMA OpenLogKeeps ==
    ASSUME SharedInv, OpenLog
    PROVE  SharedInv'
<1> USE DEF SharedInv, OpenLog, vars, cacheVars, streamVars, callVars
<1>1. SharedTypes' BY DEF SharedTypes
<1>2. WholeLines' BY DEF WholeLines
<1>3. Busy' BY DEF Busy, File
<1>4. Scans' BY DEF Scans, File
<1>5. Writes' BY DEF Writes, File
<1>6. Looks' BY DEF Looks, SharedTypes
<1> QED BY <1>1, <1>2, <1>3, <1>4, <1>5, <1>6

\* What a file holds to which the bot has added its line.
LEMMA LineAdded ==
    ASSUME SharedAssumption, SharedInv, AppendLine
    PROVE  LET file == files[log_entry.file]
               new == files'[log_entry.file]
           IN  /\ log_entry \in Said /\ log_entry \in Entry /\ log_entry.file \in Files
               /\ files' = [files EXCEPT ![log_entry.file] = new]
               /\ new \in Seq(Units) /\ Len(file) < Len(new)
               /\ \A i \in 1 .. Len(file) : new[i] = file[i]
               /\ new[Len(new)] = LF
               /\ (log_bom => file = <<>>) => log_entry \in Readable(new)
<1> DEFINE file == files[log_entry.file]
           new == files'[log_entry.file]
           line == Line(Message(log_entry))
           bom == IF log_bom THEN <<BOM>> ELSE <<>>
           before == file \o bom
<1>1. log_entry \in Said /\ log_entry.file \in Files /\ log_entry.size \in Nat \ {0}
      /\ log_entry \in Entry
  BY DEF AppendLine, SharedInv, SharedTypes, SharedAssumption, Entry
<1>2. file \in Seq(Units) /\ EndsWell(file)
  BY <1>1 DEF SharedInv, SharedTypes, WholeLines
<1>3. bom \in Seq(Units) /\ Len(bom) = (IF log_bom THEN 1 ELSE 0)
  <2>1. BOM \in Units BY DEF BOM, NoEntry, Units
  <2> QED BY <2>1 DEF SharedInv, SharedTypes
<1>4. /\ line \in Seq(Units) /\ Len(line) = log_entry.size + 2
      /\ \A k \in 1 .. log_entry.size : line[k] = TextUnit(log_entry, k)
      /\ line[log_entry.size + 1] = CR /\ line[log_entry.size + 2] = LF
  BY <1>1, LineUnits
<1>5. files' = [files EXCEPT ![log_entry.file] = before \o line]
  BY DEF AppendLine, Before, NeedsBOM
<1>6. new = before \o line BY <1>1, <1>5 DEF SharedInv, SharedTypes
<1>7. files' = [files EXCEPT ![log_entry.file] = new] BY <1>5, <1>6
<1> DEFINE n == log_entry.size   m == Len(before)   l == Len(file)
<1>8. n \in Nat /\ n >= 1 /\ l \in Nat BY <1>1, <1>2, LenProperties
<1> HIDE DEF line, bom, file, new
<1>9. /\ before \in Seq(Units) /\ Len(before) = Len(file) + Len(bom)
      /\ \A i \in 1 .. Len(file) + Len(bom) :
            before[i] = IF i <= Len(file) THEN file[i] ELSE bom[i - Len(file)]
  BY <1>2, <1>3, ConcatProperties
<1>10. m \in Nat /\ l <= m /\ (m = l \/ (log_bom /\ m = l + 1))
  BY <1>3, <1>8, <1>9 DEF SharedInv, SharedTypes
<1> HIDE DEF before
<1>11. /\ new \in Seq(Units) /\ Len(new) = Len(before) + Len(line)
       /\ \A i \in 1 .. Len(before) + Len(line) :
             new[i] = IF i <= Len(before) THEN before[i] ELSE line[i - Len(before)]
  <2>1. /\ before \o line \in Seq(Units) /\ Len(before \o line) = Len(before) + Len(line)
        /\ \A i \in 1 .. Len(before) + Len(line) :
              (before \o line)[i] = IF i <= Len(before) THEN before[i] ELSE line[i - Len(before)]
    <3>1. before \in Seq(Units) /\ line \in Seq(Units) BY <1>4, <1>9
    <3> QED BY ONLY <3>1, ConcatProperties
  <2> QED BY <1>6, <2>1
<1>12. Len(new) = m + n + 2 BY <1>4, <1>8, <1>10, <1>11
<1>13. \A k \in 1 .. Len(line) : new[m + k] = line[k]
  BY <1>4, <1>6, <1>9, BehindAnother
<1> HIDE DEF n, m, l
<1>14. \A i \in 1 .. l : new[i] = file[i]
  <2>1. SUFFICES ASSUME NEW i \in 1 .. l PROVE new[i] = file[i] OBVIOUS
  <2>2. /\ i \in 1 .. Len(before) + Len(line) /\ i <= Len(before)
        /\ i \in 1 .. Len(file) + Len(bom) /\ i <= Len(file)
    BY <1>4, <1>8, <1>9, <1>10 DEF n, m, l
  <2>3. new[i] = before[i] BY <1>11, <2>2
  <2>4. before[i] = file[i] BY <1>9, <2>2
  <2> QED BY <2>3, <2>4
<1>15. \A k \in 1 .. n : new[m + k] = TextUnit(log_entry, k)
  <2>1. \A k \in 1 .. n : k \in 1 .. Len(line) BY <1>4, <1>8 DEF n
  <2> QED BY <1>4, <1>13, <2>1 DEF n
<1>16. new[m + (n + 1)] = CR /\ new[m + (n + 2)] = LF
  <2>1. n + 1 \in 1 .. Len(line) /\ n + 2 \in 1 .. Len(line) BY <1>4, <1>8 DEF n
  <2>2. new[m + (n + 1)] = line[n + 1] /\ new[m + (n + 2)] = line[n + 2] BY <1>13, <2>1
  <2> QED BY <1>4, <2>2 DEF n
<1>17. new[Len(new)] = LF
  <2>1. Len(new) = m + (n + 2) BY <1>8, <1>10, <1>12
  <2> QED BY <1>16, <2>1
<1>18. ASSUME log_bom => file = <<>> PROVE log_entry \in Readable(new)
  <2> DEFINE j == m + 1
  <2>1. j \in 1 .. Len(new) /\ j + n + 1 <= Len(new) BY <1>8, <1>10, <1>12
  <2>2. j = 2 \/ (j > 2 /\ new[j - 1] = LF)
    <3>1. CASE log_bom
      <4>1. l = 0 BY <3>1, <1>18 DEF l
      <4>2. m = 1 BY <3>1, <4>1, <1>3, <1>9 DEF m, l
      <4> QED BY <4>2
    <3>2. CASE ~log_bom
      <4>1. m = l BY <3>2, <1>10
      <4>2. file # <<>> BY <3>2 DEF SharedInv, Looks, AppendLine, file
      <4>3. file[l] = LF /\ l >= 1 BY <4>2, <1>2, <1>8, EmptySeq DEF EndsWell, l
      <4>4. new[l] = LF BY <4>3, <1>8, <1>14
      <4>5. j - 1 = l /\ (j = 2 \/ j > 2) BY <4>1, <4>3, <1>8
      <4> QED BY <4>4, <4>5
    <3> QED BY <3>1, <3>2
  <2>3. \A k \in 1 .. n : new[j + k - 1] = TextUnit(log_entry, k)
    <3>1. \A k \in 1 .. n : j + k - 1 = m + k BY <1>8, <1>10
    <3> QED BY <3>1, <1>15
  <2>4. j + n = m + (n + 1) /\ j + n + 1 = m + (n + 2) BY <1>8, <1>10
  <2>5. new[j + n] = CR /\ new[j + n + 1] = LF BY <1>16, <2>4
  <2>6. LineAt(new, j, log_entry) BY <1>8, <2>1, <2>2, <2>3, <2>5 DEF LineAt, n
  <2> QED BY <1>1, <1>11, <2>1, <2>6, ReadableWhere
<1>19. Len(file) < Len(new) BY <1>8, <1>10, <1>12 DEF l
<1>20. \A i \in 1 .. Len(file) : new[i] = file[i] BY <1>14 DEF l
<1> QED BY <1>1, <1>7, <1>11, <1>17, <1>18, <1>19, <1>20 DEF file, new

\* What stands in a file stands there with something behind it.
LEMMA PartStays ==
    ASSUME NEW file \in Seq(Units), NEW other \in Seq(Units), Len(file) <= Len(other),
           \A i \in 1 .. Len(file) : other[i] = file[i],
           NEW a \in 1 .. Len(file) + 1, NEW b \in a - 1 .. Len(file)
    PROVE  SubSeq(other, a, b) = SubSeq(file, a, b)
<1> DEFINE s == SubSeq(file, a, b)   t == SubSeq(other, a, b)   n == b - a + 1
<1>1. Len(file) \in Nat /\ Len(other) \in Nat BY LenProperties
<1>2. a \in 1 .. Len(other) + 1 /\ b \in a - 1 .. Len(other) BY <1>1
<1>3. s \in Seq(Units) /\ Len(s) = n /\ (\A i \in 1 .. n : s[i] = file[a + i - 1])
  BY PartOf
<1>4. t \in Seq(Units) /\ Len(t) = n /\ (\A i \in 1 .. n : t[i] = other[a + i - 1])
  BY <1>2, PartOf
<1>5. \A i \in 1 .. n : a + i - 1 \in 1 .. Len(file) BY <1>1
<1> HIDE DEF s, t, n
<1>6. \A i \in 1 .. n : s[i] = t[i] BY <1>3, <1>4, <1>5
<1>7. s = t BY <1>3, <1>4, <1>6, SeqEqual
<1> QED BY <1>7 DEF s, t

\* The bot writes its line: what history_add has looked at only grows.
LEMMA AppendLineKeeps ==
    ASSUME SharedAssumption, SharedInv, AppendLine
    PROVE  SharedInv'
<1> DEFINE name == log_entry.file   old == files[name]   new == files'[name]
<1>1. /\ log_entry \in Said /\ name \in Files
      /\ files' = [files EXCEPT ![name] = new]
      /\ new \in Seq(Units) /\ Len(old) < Len(new)
      /\ \A i \in 1 .. Len(old) : new[i] = old[i]
      /\ new[Len(new)] = LF
  BY LineAdded
<1>2. files \in [Files -> Seq(Units)] BY DEF SharedInv, SharedTypes
<1>3. \A f \in Files : f # name => files'[f] = files[f] BY <1>1, <1>2
<1>4. files' \in [Files -> Seq(Units)] BY <1>1, <1>2
<1>5. old \in Seq(Units) /\ Len(old) \in Nat /\ Len(new) \in Nat BY <1>1, <1>2, LenProperties
<1>6. new # <<>> BY <1>1, <1>5, EmptySeq
<1> HIDE DEF new, old
<1>7. UNCHANGED <<cacheVars, streamVars, callVars, pc, file_pos, data, log_entry, log_bom, creating>>
      /\ log_pc = "open" /\ log_pc' = "idle" /\ crossed' = crossed \cup {"bot"}
  BY DEF AppendLine
<1>8. SharedTypes'
  BY <1>4, <1>7 DEF SharedInv, SharedTypes, cacheVars, streamVars, callVars
<1>9. WholeLines'
  <2>1. ASSUME NEW f \in Files PROVE EndsWell(files'[f])
    <3>1. CASE f = name BY <3>1, <1>1 DEF EndsWell, new
    <3>2. CASE f # name BY <3>2, <1>3 DEF SharedInv, WholeLines
    <3> QED BY <3>1, <3>2
  <2> QED BY <2>1 DEF WholeLines
<1>10. ASSUME pc # "idle"
       PROVE  /\ added.file \in Files /\ File \in Seq(Units) /\ File' \in Seq(Units)
              /\ Len(File) \in Nat /\ Len(File') \in Nat /\ Len(File) <= Len(File')
              /\ \A i \in 1 .. Len(File) : File'[i] = File[i]
              /\ File' # <<>>
  <2>1. PICK e \in Entries : added = Message(e) BY <1>10 DEF SharedInv, Busy
  <2>2. added.file \in Files BY <2>1, LogAssumption DEF Message
  <2>3. File' = files'[added.file] BY <1>7 DEF File, callVars
  <2>4. File \in Seq(Units) /\ File' \in Seq(Units) BY <2>2, <2>3, <1>2, <1>4 DEF File
  <2>5. Len(File) \in Nat /\ Len(File') \in Nat BY <2>4, LenProperties
  <2>6. CASE added.file = name
    <3>1. File = old /\ File' = new BY <2>3, <2>6 DEF File, old, new
    <3> QED BY <3>1, <2>2, <2>4, <2>5, <1>1, <1>6 DEF old, new
  <2>7. CASE added.file # name
    <3>1. File' = File BY <2>2, <2>3, <2>7, <1>3 DEF File
    <3>2. File # <<>> BY <1>10 DEF SharedInv, Busy
    <3> QED BY <3>1, <3>2, <2>2, <2>4, <2>5
  <2> QED BY <2>6, <2>7
<1>11. Busy'
  <2>1. ASSUME pc' # "idle" PROVE ~creating' /\ (\E e \in Entries : added' = Message(e)) /\ File' # <<>>
    BY <2>1, <1>7, <1>10 DEF SharedInv, Busy, callVars
  <2>2. ASSUME creating' PROVE \E e \in Entries : added' = Message(e)
    BY <2>2, <1>7 DEF SharedInv, Busy, callVars
  <2> QED BY <2>1, <2>2 DEF Busy
<1>12. Scans'
  <2>1. SUFFICES ASSUME pc = "scan"
                 PROVE  /\ in_pos >= 1
                        /\ failbit => eofbit
                        /\ current_datetime > added.time /\ ~eofbit =>
                              /\ in_pos - line_size \in 1 .. Len(File') - 1
                              /\ StartOfText(File'[in_pos - line_size + 1])
    BY <1>7 DEF Scans, callVars, streamVars
  <2>2. ASSUME current_datetime > added.time /\ ~eofbit
        PROVE  /\ in_pos - line_size \in 1 .. Len(File') - 1
               /\ StartOfText(File'[in_pos - line_size + 1])
    <3>1. /\ in_pos - line_size \in 1 .. Len(File) - 1
          /\ StartOfText(File[in_pos - line_size + 1])
      BY <2>1, <2>2 DEF SharedInv, Scans
    <3> DEFINE at == in_pos - line_size + 1
    <3>2. /\ Len(File) \in Nat /\ Len(File') \in Nat /\ Len(File) <= Len(File')
          /\ \A i \in 1 .. Len(File) : File'[i] = File[i]
      BY <1>10, <2>1
    <3>3. in_pos - line_size \in 1 .. Len(File') - 1 /\ at \in 1 .. Len(File) BY <3>1, <3>2
    <3> HIDE DEF at
    <3>4. File'[at] = File[at] BY <3>2, <3>3
    <3> QED BY <3>1, <3>3, <3>4 DEF at
  <2> QED BY <2>1, <2>2 DEF SharedInv, Scans
<1>13. Writes'
  <2>1. "bot" \in crossed' BY <1>7
  <2>2. SUFFICES ASSUME pc = "write", file_pos # -1
                 PROVE  /\ file_pos >= 1 /\ file_pos + Len(data) <= Len(File')
                        /\ data = SubSeq(File', file_pos + 1, file_pos + Len(data))
                        /\ data = <<>> \/ (StartOfText(data[1]) /\ data[Len(data)] = LF)
    BY <1>7, <2>1 DEF Writes
  <2>3. /\ file_pos >= 1 /\ file_pos + Len(data) <= Len(File)
        /\ data = SubSeq(File, file_pos + 1, file_pos + Len(data))
        /\ data = <<>> \/ (StartOfText(data[1]) /\ data[Len(data)] = LF)
    BY <2>2 DEF SharedInv, Writes
  <2>4. /\ File \in Seq(Units) /\ File' \in Seq(Units)
        /\ Len(File) \in Nat /\ Len(File') \in Nat /\ Len(File) <= Len(File')
        /\ \A i \in 1 .. Len(File) : File'[i] = File[i]
    BY <1>10, <2>2
  <2>5. Len(data) \in Nat /\ file_pos \in Int BY LenProperties DEF SharedInv, SharedTypes
  <2> DEFINE a == file_pos + 1   b == file_pos + Len(data)
  <2>6. a \in 1 .. Len(File) + 1 /\ b \in a - 1 .. Len(File) /\ b <= Len(File')
    BY <2>3, <2>4, <2>5
  <2> DEFINE old1 == File   new1 == File'
  <2> HIDE DEF a, b, old1, new1
  <2>7. SubSeq(new1, a, b) = SubSeq(old1, a, b) BY <2>4, <2>6, PartStays DEF old1, new1
  <2> QED BY <2>3, <2>6, <2>7 DEF a, b, old1, new1
<1>14. Looks'
  <2>1. "bot" \in crossed' /\ log_pc' # "open" BY <1>7
  <2> QED BY <2>1 DEF Looks
<1> QED BY <1>8, <1>9, <1>11, <1>12, <1>13, <1>14 DEF SharedInv
-----------------------------------------------------------------------------
(***************************************************************************)
(* The steps of history_add.                                               *)
(***************************************************************************)
\* A call opens its file.
LEMMA StartAddKeeps ==
    ASSUME SharedInv, StartAdd
    PROVE  SharedInv'
<1> PICK entry \in Entries, dups \in IgnoreDups : Open(Message(entry), dups)
  BY DEF StartAdd
<1>1. /\ UNCHANGED <<files, cacheVars, file_pos, data, logVars, creating, crossed>>
      /\ ~creating /\ pc' = "scan" /\ added' = Message(entry) /\ files[entry.file] # <<>>
      /\ in_pos' \in {static_position, 1}
      /\ static_position = -1 => in_pos' = 1
      /\ eofbit' = FALSE /\ failbit' = FALSE /\ line_size' = 0
      /\ current_datetime' = 0
            \/ (current_datetime' = static_datetime /\ static_datetime <= entry.time)
  BY DEF StartAdd, Open, CacheHit, Message
<1>2. /\ static_datetime \in Nat /\ static_position \in Int
      /\ static_position = -1 \/ static_position >= 1
      /\ entry.time \in Nat
  BY LogAssumption DEF SharedInv, SharedTypes
<1>3. in_pos' \in Nat /\ in_pos' >= 1 /\ current_datetime' \in Nat /\ current_datetime' <= entry.time
  BY <1>1, <1>2
<1>4. SharedTypes'
  BY <1>1, <1>3 DEF SharedInv, SharedTypes, cacheVars, logVars
<1>5. WholeLines' BY <1>1 DEF SharedInv, WholeLines
<1>6. Busy'
  BY <1>1 DEF Busy, File, Message
<1>7. Scans'
  <2>1. added'.time = entry.time BY <1>1 DEF Message
  <2>2. ~(current_datetime' > added'.time) BY <2>1, <1>2, <1>3
  <2> QED BY <1>1, <1>3, <2>2 DEF Scans
<1>8. Writes' BY <1>1 DEF Writes
<1>9. Looks' BY <1>1 DEF SharedInv, Looks, logVars
<1> QED BY <1>4, <1>5, <1>6, <1>7, <1>8, <1>9 DEF SharedInv

\* A call finds its file missing or empty.
LEMMA FindEmptyKeeps ==
    ASSUME SharedInv, FindEmpty
    PROVE  SharedInv'
<1> PICK entry \in Entries : files[entry.file] = <<>> /\ added' = Message(entry)
  BY DEF FindEmpty
<1>1. /\ UNCHANGED <<files, cacheVars, streamVars, pc, file_pos, data, logVars>>
      /\ pc = "idle" /\ creating' = TRUE /\ crossed' = crossed \ {"bot"}
  BY DEF FindEmpty
<1>2. SharedTypes'
  BY <1>1 DEF SharedInv, SharedTypes, cacheVars, streamVars, logVars
<1>3. WholeLines' BY <1>1 DEF SharedInv, WholeLines
<1>4. Busy' /\ Scans' /\ Writes' BY <1>1 DEF Busy, Scans, Writes
<1>5. Looks'
  <2>1. files'[added'.file] = <<>> BY <1>1 DEF Message
  <2>2. "import" \notin crossed' => "import" \notin crossed BY <1>1
  <2> QED BY <1>1, <2>1, <2>2 DEF SharedInv, Looks, logVars
<1> QED BY <1>2, <1>3, <1>4, <1>5 DEF SharedInv

\* A call makes the file it has found missing or empty.
LEMMA WriteNewKeeps ==
    ASSUME SharedInv, WriteNew
    PROVE  SharedInv'
<1> PICK entry \in Entries : added = Message(entry) BY DEF SharedInv, Busy, WriteNew
<1> DEFINE line == Line(added)   new == <<BOM>> \o line   name == added.file
<1>1. entry \in Entry /\ name \in Files /\ name = entry.file
  BY LogAssumption DEF Message, Entry
<1>2. line \in Seq(Units) /\ Len(line) = entry.size + 2 /\ line[entry.size + 2] = LF
      /\ entry.size \in Nat
  BY <1>1, LineUnits DEF Entry
<1>3. /\ UNCHANGED <<cacheVars, streamVars, callVars, pc, file_pos, data, logVars>>
      /\ creating /\ creating' = FALSE /\ crossed' = crossed \cup {"import"}
      /\ files' = [files EXCEPT ![name] = new]
  BY DEF WriteNew
<1>4. <<BOM>> \in Seq(Units) /\ Len(<<BOM>>) = 1 BY DEF BOM, NoEntry, Units
<1> HIDE DEF line
<1>5. new \in Seq(Units) /\ Len(new) = entry.size + 3 /\ new[Len(new)] = LF
  <2>1. new \in Seq(Units) /\ Len(new) = Len(<<BOM>>) + Len(line)
    BY <1>2, <1>4, ConcatProperties
  <2>2. \A k \in 1 .. Len(line) : new[Len(<<BOM>>) + k] = line[k]
    BY <1>2, <1>4, BehindAnother
  <2>3. new[Len(<<BOM>>) + Len(line)] = line[Len(line)] BY <1>2, <2>2
  <2> QED BY <1>2, <1>4, <2>1, <2>3
<1>6. new # <<>> BY <1>2, <1>5, EmptySeq
<1> HIDE DEF new
<1>7. files \in [Files -> Seq(Units)] BY DEF SharedInv, SharedTypes
<1>8. files' \in [Files -> Seq(Units)] BY <1>3, <1>5, <1>7
<1>9. files'[name] = new /\ (\A f \in Files : f # name => files'[f] = files[f])
  BY <1>1, <1>3, <1>7
<1>10. pc = "idle" BY <1>3 DEF SharedInv, Busy
<1>11. SharedTypes'
  BY <1>3, <1>8 DEF SharedInv, SharedTypes, cacheVars, streamVars, callVars, logVars
<1>12. WholeLines'
  <2>1. ASSUME NEW f \in Files PROVE EndsWell(files'[f])
    <3>1. CASE f = name BY <3>1, <1>5, <1>9 DEF EndsWell
    <3>2. CASE f # name BY <3>2, <1>9 DEF SharedInv, WholeLines
    <3> QED BY <3>1, <3>2
  <2> QED BY <2>1 DEF WholeLines
<1>13. Busy' /\ Scans' /\ Writes' BY <1>3, <1>10 DEF Busy, Scans, Writes
<1>14. Looks'
  <2>1. "import" \in crossed' /\ ~creating' BY <1>3
  <2>2. ASSUME log_pc' = "open", ~log_bom' PROVE files'[log_entry'.file] # <<>>
    <3>1. log_pc = "open" /\ ~log_bom /\ log_entry' = log_entry BY <2>2, <1>3 DEF logVars
    <3>2. files[log_entry.file] # <<>> BY <3>1 DEF SharedInv, Looks
    <3> DEFINE said == log_entry.file
    <3>3. said = name => files'[said] # <<>> BY <1>6, <1>9
    <3>4. said # name => files'[said] = files[said] BY <1>3, <1>7
    <3> QED BY <3>1, <3>2, <3>3, <3>4
  <2> QED BY <2>1, <2>2 DEF Looks
<1> QED BY <1>11, <1>12, <1>13, <1>14 DEF SharedInv

\* A call reads on: the files stay, and a scan that ends before a line stands behind it.
LEMMA ScanKeeps ==
    ASSUME SharedInv, Scan
    PROVE  SharedInv'
<1>1. /\ pc = "scan" /\ current_datetime <= added.time /\ ~eofbit
      /\ UNCHANGED <<files, callVars, file_pos, data, logVars, creating, crossed>>
      /\ pc' \in {"idle", "scan"}
  BY DEF Scan, ReadLogLine, ReadOther, ReadEnd, ReadTornLine, Scanning, cacheVars
<1>2. PICK e \in Entries : added = Message(e) BY <1>1 DEF SharedInv, Busy
<1>3. added.file \in Files /\ added.time \in Nat BY <1>2, LogAssumption DEF Message
<1>4. File \in Seq(Units) BY <1>3 DEF SharedInv, SharedTypes, File
<1>5. Len(File) \in Nat /\ in_pos \in Nat /\ in_pos >= 1 /\ File' = File /\ added' = added
  BY <1>1, <1>4, LenProperties DEF SharedInv, SharedTypes, Scans, File, callVars
<1> DEFINE file == File
<1>6. ASSUME Returns # {}
      PROVE  /\ FirstReturn \in in_pos + 1 .. Len(File)
             /\ AfterLine \in Nat /\ AfterLine > in_pos
             /\ IsText(LineRead) => /\ in_pos < Len(File) /\ StartOfText(File[in_pos + 1])
                                    /\ TimeOf(LineRead) \in Nat
  <2>1. FirstReturn \in in_pos + 1 .. Len(File) BY <1>5, <1>6, FirstIsReturn DEF Returns
  <2>2. AfterLine \in Nat /\ AfterLine > in_pos BY <1>5, <2>1 DEF AfterLine
  <2>3. FirstReturn - 1 \in Int /\ FirstReturn - 1 <= Len(File) /\ FirstReturn - 1 < Len(File)
    BY <1>5, <2>1
  <2>4. ASSUME IsText(LineRead)
        PROVE  in_pos < Len(File) /\ StartOfText(File[in_pos + 1]) /\ TimeOf(LineRead) \in Nat
    <3> DEFINE to == FirstReturn - 1
    <3>1. LineRead = SubSeq(file, in_pos + 1, to) BY DEF LineRead
    <3> HIDE DEF file, to
    <3>2. IsText(SubSeq(file, in_pos + 1, to)) BY <2>4, <3>1
    <3>3. to \in Int /\ to <= Len(file) /\ file \in Seq(Units) BY <2>3, <1>4 DEF to, file
    <3>4. in_pos < to /\ StartOfText(file[in_pos + 1]) /\ TimeOf(SubSeq(file, in_pos + 1, to)) \in Nat
      BY <1>5, <3>2, <3>3, LineStarts
    <3>5. to < Len(File) BY <2>3 DEF to
    <3>6. in_pos < Len(File) BY <1>5, <3>3, <3>4, <3>5 DEF file
    <3> QED BY <3>1, <3>4, <3>6 DEF file
  <2> QED BY <2>1, <2>2, <2>4
<1>7. ASSUME IsText(LastLine)
      PROVE  TimeOf(LastLine) \in Nat
  <2>1. IsText(SubSeq(file, in_pos + 1, Len(file))) BY <1>7 DEF LastLine
  <2>2. file \in Seq(Units) /\ Len(file) \in Int /\ Len(file) <= Len(file) BY <1>4, <1>5
  <2>3. LastLine = SubSeq(file, in_pos + 1, Len(file)) BY DEF LastLine
  <2> HIDE DEF file
  <2> QED BY <1>5, <2>1, <2>2, <2>3, LineStarts
<1>8. /\ in_pos' \in Nat /\ in_pos' >= 1 /\ line_size' \in Nat /\ current_datetime' \in Nat
      /\ eofbit' \in BOOLEAN /\ failbit' \in BOOLEAN /\ (failbit' => eofbit')
      /\ static_datetime' \in Nat /\ static_position' \in Int
      /\ static_position' = -1 \/ static_position' >= 1
      /\ current_datetime' > added.time /\ ~eofbit' =>
            /\ in_pos' - line_size' = in_pos /\ in_pos < Len(File)
            /\ StartOfText(File[in_pos + 1])
  <2>1. /\ failbit \in BOOLEAN /\ (failbit => eofbit)
        /\ current_datetime \in Nat /\ line_size \in Nat /\ static_datetime \in Nat
        /\ static_position \in Int
        /\ static_position = -1 \/ static_position >= 1
    BY <1>1 DEF SharedInv, SharedTypes, Scans
  <2>2. ~failbit BY <1>1, <2>1
  <2>3. ~(current_datetime > added.time) BY <1>1, <1>3, <2>1
  <2>4. CASE ReadLogLine
    <3>1. Returns # {} /\ IsText(LineRead) BY <2>4 DEF ReadLogLine
    <3>2. /\ in_pos' = AfterLine /\ line_size' = AfterLine - in_pos /\ eofbit' = ~HasNewline
          /\ current_datetime' = TimeOf(LineRead) /\ static_position' = AfterLine
          /\ static_datetime' = TimeOf(LineRead) /\ failbit' = failbit
      BY <2>4 DEF ReadLogLine
    <3>3. /\ AfterLine \in Nat /\ AfterLine > in_pos /\ TimeOf(LineRead) \in Nat
          /\ in_pos < Len(File) /\ StartOfText(File[in_pos + 1])
      BY <1>6, <3>1
    <3>4. AfterLine >= 1 /\ AfterLine - in_pos \in Nat /\ AfterLine - (AfterLine - in_pos) = in_pos
      BY <1>5, <3>3
    <3>5. in_pos' - line_size' = in_pos BY <3>2, <3>4
    <3>6. in_pos' \in Nat /\ in_pos' >= 1 /\ line_size' \in Nat BY <3>2, <3>3, <3>4
    <3>7. eofbit' \in BOOLEAN /\ failbit' \in BOOLEAN /\ (failbit' => eofbit') BY <2>1, <2>2, <3>2 DEF HasNewline
    <3>8. static_datetime' \in Nat /\ static_position' \in Int /\ static_position' >= 1
          /\ current_datetime' \in Nat
      BY <3>2, <3>3, <3>4
    <3> QED BY <3>3, <3>5, <3>6, <3>7, <3>8
  <2>5. CASE ReadOther
    <3>1. Returns # {} BY <2>5 DEF ReadOther
    <3>2. /\ in_pos' = AfterLine /\ line_size' = AfterLine - in_pos /\ eofbit' = ~HasNewline
          /\ UNCHANGED <<cacheVars, failbit, current_datetime>>
      BY <2>5 DEF ReadOther
    <3>3. AfterLine \in Nat /\ AfterLine > in_pos BY <1>6, <3>1
    <3>4. AfterLine >= 1 /\ AfterLine - in_pos \in Nat BY <1>5, <3>3
    <3> QED BY <2>1, <2>2, <2>3, <3>2, <3>3, <3>4 DEF cacheVars
  <2>6. CASE ReadEnd
    <3>1. /\ in_pos' = (IF in_pos < Len(File) THEN Len(File) ELSE in_pos)
          /\ line_size' = in_pos' - in_pos + 1 /\ eofbit' = TRUE /\ failbit' = TRUE
          /\ UNCHANGED <<cacheVars, current_datetime>>
      BY <2>6 DEF ReadEnd
    <3>2. in_pos' \in Nat /\ in_pos' >= in_pos BY <1>5, <3>1
    <3>3. in_pos' >= 1 /\ in_pos' - in_pos + 1 \in Nat
      <4>1. \A old, new \in Nat : old >= 1 /\ new >= old => new >= 1 /\ new - old + 1 \in Nat
        OBVIOUS
      <4> QED BY <1>5, <3>2, <4>1
    <3> QED BY <2>1, <3>1, <3>2, <3>3 DEF cacheVars
  <2>7. CASE ReadTornLine
    <3>1. /\ in_pos' = Len(File) /\ line_size' = Len(File) - in_pos + 1
          /\ eofbit' = TRUE /\ failbit' = TRUE /\ IsText(LastLine)
          /\ current_datetime' = TimeOf(LastLine) /\ static_position' = -1
          /\ static_datetime' = TimeOf(LastLine)
      BY <2>7 DEF ReadTornLine
    <3>2. in_pos < Len(File)
      <4>1. SubSeq(file, in_pos + 1, Len(file)) # <<>> BY <3>1 DEF LastLine, IsText
      <4>2. Len(file) \in Int /\ in_pos + 1 \in Int BY <1>5
      <4> HIDE DEF file
      <4>3. ~(Len(file) < in_pos + 1) BY <4>1, <4>2, SubSeqEmpty
      <4> QED BY <4>2, <4>3, <1>5 DEF file
    <3>3. Len(File) - in_pos + 1 \in Nat /\ Len(File) >= 1 BY <1>5, <3>2
    <3> QED BY <1>5, <1>7, <3>1, <3>3
  <2> QED BY <2>4, <2>5, <2>6, <2>7 DEF Scan
<1>9. SharedTypes'
  BY <1>1, <1>8 DEF SharedInv, SharedTypes, callVars, logVars
<1>10. WholeLines' BY <1>1 DEF SharedInv, WholeLines
<1>11. Busy' BY <1>1, <1>5 DEF SharedInv, Busy
<1>12. Scans'
  <2>1. ASSUME current_datetime' > added.time /\ ~eofbit'
        PROVE  /\ in_pos' - line_size' \in 1 .. Len(File) - 1
               /\ StartOfText(File[in_pos' - line_size' + 1])
    <3>1. in_pos' - line_size' = in_pos /\ in_pos < Len(File) /\ StartOfText(File[in_pos + 1])
      BY <1>8, <2>1
    <3>2. in_pos \in 1 .. Len(File) - 1 BY <1>5, <3>1
    <3> QED BY <3>1, <3>2
  <2> QED BY <1>5, <1>8, <2>1 DEF Scans
<1>13. Writes' BY <1>1 DEF Writes
<1>14. Looks' BY <1>1, <1>5 DEF SharedInv, Looks, logVars
<1> QED BY <1>9, <1>10, <1>11, <1>12, <1>13, <1>14 DEF SharedInv

\* A call reads what follows its place: what it will write back is the rest of the
\* file as it is now, from the start of a line on.
LEMMA ReadRestKeeps ==
    ASSUME SharedInv, ReadRest
    PROVE  SharedInv'
<1>1. /\ pc = "scan" /\ ~Scanning
      /\ file_pos' = Place
      /\ data' = (IF Place = -1 THEN <<>> ELSE SubSeq(File, Place + 1, Len(File)))
      /\ pc' = "write" /\ crossed' = crossed \ {"bot"}
      /\ UNCHANGED <<files, cacheVars, streamVars, callVars, logVars, creating>>
  BY DEF ReadRest, Locate
<1>2. PICK e \in Entries : added = Message(e) BY <1>1 DEF SharedInv, Busy
<1>3. added.file \in Files /\ added.time \in Nat BY <1>2, LogAssumption DEF Message
<1>4. File \in Seq(Units) /\ EndsWell(File) /\ File # <<>>
  BY <1>1, <1>3 DEF SharedInv, SharedTypes, WholeLines, Busy, File
<1>5. File' = File BY <1>1 DEF File, callVars
<1> DEFINE file == File   n == Len(file)   at == Place   rest == SubSeq(file, at + 1, n)
<1>6. n \in Nat /\ n >= 1 /\ file[n] = LF BY <1>4, LenProperties, EmptySeq DEF EndsWell
<1>7. \/ at = -1
      \/ at = n
      \/ at \in 1 .. n - 1 /\ StartOfText(file[at + 1])
  <2>1. CASE failbit BY <2>1 DEF Place
  <2>2. CASE ~failbit /\ eofbit BY <2>2 DEF Place
  <2>3. CASE ~failbit /\ ~eofbit
    <3>1. current_datetime > added.time
      BY <1>1, <1>3, <2>3 DEF Scanning, SharedInv, SharedTypes
    <3>2. /\ in_pos - line_size \in 1 .. Len(File) - 1
          /\ StartOfText(File[in_pos - line_size + 1])
      BY <1>1, <2>3, <3>1 DEF SharedInv, Scans
    <3>3. Place = in_pos - line_size BY <2>3 DEF Place
    <3> QED BY <3>2, <3>3
  <2> QED BY <2>1, <2>2, <2>3
<1> HIDE DEF file, n, at
<1>8. ASSUME at # -1
      PROVE  /\ at \in 1 .. n
             /\ rest \in Seq(Units) /\ Len(rest) = n - at
             /\ rest = <<>> \/ (StartOfText(rest[1]) /\ rest[Len(rest)] = LF)
  <2>1. at \in 1 .. n BY <1>6, <1>7, <1>8
  <2> DEFINE a == at + 1
  <2>2. a \in 1 .. n + 1 /\ n \in a - 1 .. n /\ n - a + 1 = n - at BY <1>6, <2>1
  <2> HIDE DEF a
  <2>3. /\ SubSeq(file, a, n) \in Seq(Units) /\ Len(SubSeq(file, a, n)) = n - a + 1
        /\ \A i \in 1 .. n - a + 1 : SubSeq(file, a, n)[i] = file[a + i - 1]
    BY <1>4, <2>2, PartOf DEF file, n
  <2>4. rest = SubSeq(file, a, n) BY DEF a
  <2> HIDE DEF rest
  <2>5. ASSUME rest # <<>> PROVE StartOfText(rest[1]) /\ rest[Len(rest)] = LF
    <3>1. Len(rest) \in Nat \ {0} BY <2>3, <2>4, <2>5, EmptySeq
    <3>2. n - at >= 1 BY <2>2, <2>3, <2>4, <3>1
    <3>3. StartOfText(file[at + 1]) BY <1>6, <1>7, <1>8, <2>1, <3>2
    <3>4. /\ 1 \in 1 .. n - a + 1 /\ a + 1 - 1 = at + 1
          /\ n - at \in 1 .. n - a + 1 /\ a + (n - at) - 1 = n
      BY <1>6, <2>1, <3>2 DEF a
    <3>5. rest[1] = file[a + 1 - 1] /\ rest[n - at] = file[a + (n - at) - 1]
      BY <2>3, <2>4, <3>4
    <3> QED BY <1>6, <2>2, <2>3, <2>4, <3>3, <3>4, <3>5
  <2> QED BY <2>1, <2>2, <2>3, <2>4, <2>5
<1>9. file_pos' = at /\ data' = (IF at = -1 THEN <<>> ELSE rest) BY <1>1 DEF at, file, n
<1> HIDE DEF rest
<1>10. at \in Int /\ data' \in Seq(Units)
  <2>1. at \in Int BY <1>6, <1>7
  <2>2. <<>> \in Seq(Units) OBVIOUS
  <2> QED BY <1>8, <1>9, <2>1, <2>2
<1>11. SharedTypes'
  BY <1>1, <1>9, <1>10 DEF SharedInv, SharedTypes, cacheVars, streamVars, callVars, logVars
<1>12. WholeLines' BY <1>1 DEF SharedInv, WholeLines
<1>13. Busy' BY <1>1, <1>5 DEF SharedInv, Busy, callVars
<1>14. Scans' BY <1>1 DEF Scans
<1>15. Writes'
  <2>1. SUFFICES ASSUME file_pos' # -1
                 PROVE  /\ file_pos' >= 1 /\ file_pos' + Len(data') <= Len(File')
                        /\ data' = SubSeq(File', file_pos' + 1, file_pos' + Len(data'))
                        /\ data' = <<>> \/ (StartOfText(data'[1]) /\ data'[Len(data')] = LF)
                        /\ file_pos' + Len(data') = Len(File')
    BY DEF Writes
  <2>2. data' = rest /\ file_pos' = at /\ at # -1 BY <1>9, <2>1
  <2>3. File' = file /\ Len(File') = n BY <1>5 DEF file, n
  <2>4. at \in 1 .. n /\ Len(rest) = n - at
        /\ (rest = <<>> \/ (StartOfText(rest[1]) /\ rest[Len(rest)] = LF))
    BY <1>8, <2>2
  <2>5. at >= 1 /\ at + Len(rest) = n /\ at + Len(rest) <= n BY <1>6, <2>4
  <2>6. rest = SubSeq(file, at + 1, at + Len(rest)) BY <2>5 DEF rest
  <2> QED BY <2>2, <2>3, <2>4, <2>5, <2>6
<1>16. Looks'
  <2>1. ~creating' /\ ("import" \notin crossed' => "import" \notin crossed)
    BY <1>1 DEF SharedInv, Busy
  <2> QED BY <1>1, <2>1 DEF SharedInv, Looks, logVars
<1> QED BY <1>11, <1>12, <1>13, <1>14, <1>15, <1>16 DEF SharedInv

\* What the file holds to which a call has written its message and what followed its
\* place.
LEMMA WrittenBack ==
    ASSUME SharedInv, WriteBack, file_pos # -1
    PROVE  LET new == files'[added.file]
               w == Len(Line(added))
           IN  /\ added.file \in Files /\ File \in Seq(Units) /\ new \in Seq(Units)
               /\ files' = [files EXCEPT ![added.file] = new]
               /\ file_pos \in 1 .. Len(File)
               /\ w \in Nat \ {0}
               /\ file_pos + w + Len(data) <= Len(new)
               /\ \A i \in 1 .. file_pos : new[i] = File[i]
               /\ new[file_pos + w] = LF
               /\ \A i \in file_pos + 1 .. file_pos + Len(data) : new[i + w] = File[i]
               /\ new # <<>> /\ EndsWell(new)
<1>1. pc = "write"
      /\ files' = [files EXCEPT ![added.file] = Overwrite(File, file_pos, Line(added) \o data)]
  BY DEF WriteBack, Write
<1>2. PICK e \in Entries : added = Message(e) BY <1>1 DEF SharedInv, Busy
<1>3. added.file \in Files /\ e \in Entry BY <1>2, LogAssumption DEF Message, Entry
<1>4. File \in Seq(Units) /\ EndsWell(File) /\ files \in [Files -> Seq(Units)]
  BY <1>3 DEF SharedInv, SharedTypes, WholeLines, File
<1> DEFINE line == Line(added)   w == Len(line)   pos == file_pos   d == Len(data)
           units == line \o data   file == File   n == Len(file)   new == files'[added.file]
<1>5. line \in Seq(Units) /\ w = e.size + 2 /\ line[w] = LF /\ w \in Nat \ {0}
  BY <1>2, <1>3, LineUnits DEF Entry
<1>6. data \in Seq(Units) /\ d \in Nat BY LenProperties DEF SharedInv, SharedTypes
<1>7. /\ pos \in Int /\ pos >= 1 /\ pos + d <= n
      /\ data = SubSeq(file, pos + 1, pos + d)
      /\ data = <<>> \/ (StartOfText(data[1]) /\ data[d] = LF)
  BY <1>1 DEF SharedInv, SharedTypes, Writes
<1>8. n \in Nat BY <1>4, LenProperties
<1>9. pos \in 1 .. n /\ pos \in 0 .. n BY <1>6, <1>7, <1>8
<1>10. new = Overwrite(file, pos, units) BY <1>1, <1>3, <1>4
<1>11. files' = [files EXCEPT ![added.file] = new] BY <1>1, <1>10
<1> HIDE DEF line, file, new
<1>12. units \in Seq(Units) /\ Len(units) = w + d
       /\ (\A i \in 1 .. w + d : units[i] = IF i <= w THEN line[i] ELSE data[i - w])
  <2>1. line \in Seq(Units) /\ data \in Seq(Units) BY <1>5, <1>6
  <2> QED BY ONLY <2>1, ConcatProperties
<1> HIDE DEF units, w, d, n, pos
<1>0. /\ pos \in Nat /\ pos >= 1 /\ w \in Nat /\ w >= 1 /\ d \in Nat /\ n \in Nat
      /\ pos + d <= n /\ Len(units) = w + d
  BY <1>5, <1>6, <1>7, <1>8, <1>12
<1>13. /\ new \in Seq(Units) /\ Len(new) >= pos + Len(units) /\ Len(new) >= n
       /\ Len(new) = pos + Len(units) \/ Len(new) = n
       /\ \A i \in 1 .. pos : new[i] = file[i]
       /\ \A i \in 1 .. Len(units) : new[pos + i] = units[i]
       /\ \A i \in pos + Len(units) + 1 .. n : new[i] = file[i]
  <2>1. file \in Seq(Units) BY <1>4 DEF file
  <2> QED BY <1>9, <1>10, <1>12, <2>1, WrittenOver DEF n
<1>14. new[pos + w] = LF
  <2>1. w \in 1 .. Len(units) /\ w \in 1 .. w + d /\ w <= w BY <1>5, <1>6, <1>12
  <2>2. new[pos + w] = units[w] BY <1>13, <2>1
  <2>3. units[w] = line[w] BY <1>12, <2>1
  <2> QED BY <1>5, <2>2, <2>3
<1>15. ASSUME NEW i \in 1 .. d PROVE new[pos + (w + i)] = data[i]
  <2> DEFINE k == w + i
  <2>1. k \in 1 .. Len(units) /\ k \in 1 .. w + d /\ ~(k <= w) /\ k - w = i
    BY <1>0
  <2> HIDE DEF k
  <2>2. new[pos + k] = units[k] /\ units[k] = data[k - w] BY <1>12, <1>13, <2>1
  <2> QED BY <2>1, <2>2 DEF k
<1>16. \A i \in 1 .. d : data[i] = file[pos + i]
  <2>1. pos + 1 \in 1 .. n + 1 /\ pos + d \in pos + 1 - 1 .. n BY <1>6, <1>7, <1>8
  <2> DEFINE a == pos + 1   b == pos + d
  <2>2. b - a + 1 = d /\ (\A i \in 1 .. d : a + i - 1 = pos + i) BY <1>6, <1>7
  <2> HIDE DEF a, b
  <2>3. \A i \in 1 .. b - a + 1 : SubSeq(file, a, b)[i] = file[a + i - 1]
    <3>1. file \in Seq(Units) /\ a \in 1 .. Len(file) + 1 /\ b \in a - 1 .. Len(file)
      BY <2>1, <1>0, <1>4 DEF a, b, file, n
    <3> QED BY ONLY <3>1, PartOf
  <2>4. data = SubSeq(file, a, b) BY <1>7 DEF a, b
  <2> QED BY <2>2, <2>3, <2>4
<1>17. \A i \in pos + 1 .. pos + d : new[i + w] = file[i]
  <2>1. SUFFICES ASSUME NEW i \in pos + 1 .. pos + d PROVE new[i + w] = file[i] OBVIOUS
  <2> DEFINE k == i - pos
  <2>2. k \in 1 .. d /\ pos + (w + k) = i + w /\ pos + k = i BY <1>0
  <2> HIDE DEF k
  <2>3. new[pos + (w + k)] = data[k] /\ data[k] = file[pos + k] BY <1>15, <1>16, <2>2
  <2> QED BY <2>2, <2>3
<1>18. pos + w + d <= Len(new) /\ Len(new) \in Nat /\ Len(new) >= 1
  <2>1. Len(new) \in Nat BY <1>13, LenProperties
  <2>2. Len(new) >= pos + Len(units) BY <1>13
  <2> QED BY <1>0, <2>1, <2>2
<1>19. new[Len(new)] = LF
  <2>1. CASE Len(new) = pos + Len(units)
    <3>1. CASE d = 0
      <4>1. Len(new) = pos + w BY <2>1, <3>1, <1>5, <1>12
      <4> QED BY <4>1, <1>14
    <3>2. CASE d # 0
      <4>1. data # <<>> BY <3>2 DEF d
      <4>2. data[d] = LF BY <4>1, <1>7
      <4>3. d \in 1 .. d /\ Len(new) = pos + (w + d) BY <2>1, <3>2, <1>5, <1>6, <1>7, <1>12
      <4>4. new[pos + (w + d)] = data[d] BY <1>15, <4>3
      <4> QED BY <4>2, <4>3, <4>4
    <3> QED BY <3>1, <3>2
  <2>2. CASE Len(new) = n /\ Len(new) # pos + Len(units)
    <3>1. n \in pos + Len(units) + 1 .. n
      <4>1. Len(new) >= pos + Len(units) BY <1>13
      <4> QED BY <2>2, <4>1, <1>0
    <3>2. new[n] = file[n] BY <1>13, <3>1
    <3>3. file[n] = LF
      <4>1. file # <<>> BY <1>8, <1>9, <1>4, EmptySeq DEF n, file
      <4> QED BY <4>1, <1>4 DEF EndsWell, n, file
    <3> QED BY <2>2, <3>2, <3>3
  <2> QED BY <1>13, <2>1, <2>2
<1>20. new # <<>> BY <1>13, <1>18, EmptySeq
<1>21. EndsWell(new) BY <1>19 DEF EndsWell
<1>22. /\ added.file \in Files /\ file \in Seq(Units) /\ new \in Seq(Units)
       /\ pos \in 1 .. n /\ w \in Nat \ {0} /\ pos + w + d <= Len(new)
       /\ \A i \in 1 .. pos : new[i] = file[i]
  BY <1>3, <1>4, <1>5, <1>9, <1>13, <1>18 DEF file
<1> QED
  BY <1>11, <1>14, <1>17, <1>20, <1>21, <1>22 DEF new, file, n, pos, w, d, line

\* A call writes its message and what followed it: whole lines stay whole lines.
LEMMA WriteBackKeeps ==
    ASSUME SharedInv, WriteBack
    PROVE  SharedInv'
<1>1. /\ pc = "write" /\ pc' = "idle" /\ crossed' = crossed \cup {"import"}
      /\ UNCHANGED <<cacheVars, streamVars, callVars, file_pos, data, logVars, creating>>
      /\ file_pos = -1 => files' = files
  BY DEF WriteBack, Write
<1> DEFINE name == added.file   new == files'[name]
<1>2. files \in [Files -> Seq(Units)] BY DEF SharedInv, SharedTypes
<1>3. file_pos # -1 =>
         /\ name \in Files /\ new \in Seq(Units) /\ files' = [files EXCEPT ![name] = new]
         /\ new # <<>> /\ EndsWell(new)
  BY WrittenBack
<1> HIDE DEF new, name
<1>4. files' \in [Files -> Seq(Units)] BY <1>1, <1>2, <1>3
<1>5. \A f \in Files : files'[f] = files[f] \/ (files'[f] # <<>> /\ EndsWell(files'[f]))
  <2>1. CASE file_pos = -1 BY <1>1, <2>1
  <2>2. CASE file_pos # -1 BY <1>2, <1>3, <2>2
  <2> QED BY <2>1, <2>2
<1>6. SharedTypes'
  BY <1>1, <1>4 DEF SharedInv, SharedTypes, cacheVars, streamVars, callVars, logVars
<1>7. WholeLines' BY <1>5 DEF SharedInv, WholeLines
<1>8. ~creating' BY <1>1 DEF SharedInv, Busy
<1>9. Busy' /\ Scans' /\ Writes' BY <1>1, <1>8 DEF Busy, Scans, Writes
<1>10. Looks'
  <2>1. "import" \in crossed' BY <1>1
  <2>2. ASSUME log_pc' = "open", ~log_bom' PROVE files'[log_entry'.file] # <<>>
    <3>1. log_pc = "open" /\ ~log_bom /\ log_entry' = log_entry BY <2>2, <1>1 DEF logVars
    <3>2. files[log_entry.file] # <<>> BY <3>1 DEF SharedInv, Looks
    <3> DEFINE said == log_entry.file
    <3>3. CASE said \in Files BY <1>5, <3>1, <3>2, <3>3
    <3>4. CASE said \notin Files
      <4>1. CASE file_pos = -1 BY <1>1, <3>1, <3>2, <4>1
      <4>2. CASE file_pos # -1
        <5>1. said # name /\ files' = [files EXCEPT ![name] = new] BY <1>3, <3>4, <4>2
        <5>2. files'[said] = files[said] BY <5>1, <1>2
        <5> QED BY <3>1, <3>2, <5>2
      <4> QED BY <4>1, <4>2
    <3> QED BY <3>3, <3>4
  <2> QED BY <1>8, <2>1, <2>2 DEF Looks
<1> QED BY <1>6, <1>7, <1>9, <1>10 DEF SharedInv

\* Every step of either program keeps the invariant.
LEMMA SharedKeeps ==
    ASSUME SharedAssumption, SharedInv, [SharedNext]_sharedVars
    PROVE  SharedInv'
<1>1. CASE OpenLog BY <1>1, OpenLogKeeps
<1>2. CASE AppendLine BY <1>2, AppendLineKeeps
<1>3. CASE StartAdd BY <1>3, StartAddKeeps
<1>4. CASE FindEmpty BY <1>4, FindEmptyKeeps
<1>5. CASE WriteNew BY <1>5, WriteNewKeeps
<1>6. CASE Scan BY <1>6, ScanKeeps
<1>7. CASE ReadRest BY <1>7, ReadRestKeeps
<1>8. CASE WriteBack BY <1>8, WriteBackKeeps
<1>9. CASE UNCHANGED sharedVars
  <2> USE <1>9 DEF sharedVars, vars, cacheVars, streamVars, callVars, logVars
  <2>1. SharedTypes' BY DEF SharedInv, SharedTypes
  <2>2. WholeLines' /\ Busy' BY DEF SharedInv, WholeLines, Busy, File
  <2>3. Scans' BY DEF SharedInv, Scans, File
  <2>4. Writes' BY DEF SharedInv, Writes, File
  <2>5. Looks' BY DEF SharedInv, Looks
  <2> QED BY <2>1, <2>2, <2>3, <2>4, <2>5 DEF SharedInv
<1> QED BY <1>1, <1>2, <1>3, <1>4, <1>5, <1>6, <1>7, <1>8, <1>9 DEF SharedNext
-----------------------------------------------------------------------------
(***************************************************************************)
(* What the two programs keep of each other's lines.                       *)
(***************************************************************************)
\* No line can be read in an empty file.
LEMMA NothingInEmpty == Readable(<<>>) = {}
<1>1. <<>> \in Seq(Units) /\ Len(<<>>) = 0 OBVIOUS
<1>2. ASSUME NEW entry \in Readable(<<>>) PROVE FALSE
  <2> DEFINE none == <<>>
  <2>1. none \in Seq(Units) /\ Len(none) = 0 BY <1>1
  <2>2. entry \in Readable(none) BY <1>2
  <2> HIDE DEF none
  <2>3. PICK j \in 1 .. Len(none) : LineAt(none, j, entry) BY <2>1, <2>2, ReadableWhere
  <2> QED BY <2>1, <2>3
<1> QED BY <1>2

\* What history_add writes back hides none of the lines that stood before the end of
\* what it had read.
LEMMA SeenIsKept ==
    ASSUME SharedInv, WriteBack, file_pos # -1
    PROVE  Readable(SubSeq(File, 1, file_pos + Len(data))) \subseteq Readable(files'[added.file])
<1> DEFINE new == files'[added.file]   w == Len(Line(added))   d == Len(data)
           m == file_pos + d   seen == SubSeq(File, 1, m)
<1>1. /\ File \in Seq(Units) /\ new \in Seq(Units)
      /\ file_pos \in 1 .. Len(File) /\ w \in Nat \ {0} /\ m + w <= Len(new)
      /\ \A i \in 1 .. file_pos : new[i] = File[i]
      /\ new[file_pos + w] = LF
      /\ \A i \in file_pos + 1 .. m : new[i + w] = File[i]
  <2>1. /\ File \in Seq(Units) /\ new \in Seq(Units)
        /\ file_pos \in 1 .. Len(File) /\ w \in Nat \ {0} /\ file_pos + w + d <= Len(new)
        /\ \A i \in 1 .. file_pos : new[i] = File[i]
        /\ new[file_pos + w] = LF
        /\ \A i \in file_pos + 1 .. file_pos + d : new[i + w] = File[i]
    BY WrittenBack
  <2>2. d \in Nat BY LenProperties DEF SharedInv, SharedTypes
  <2>3. Len(File) \in Nat BY <2>1, LenProperties
  <2> HIDE DEF new, w, d
  <2>4. file_pos \in Nat BY <2>1, <2>3
  <2>5. m + w = file_pos + w + d BY <2>1, <2>2, <2>4
  <2> QED BY <2>1, <2>5
<1>2. /\ m <= Len(File) /\ data = SubSeq(File, file_pos + 1, m)
      /\ data = <<>> \/ StartOfText(data[1])
  BY DEF SharedInv, Writes, WriteBack, Write
<1>3. d \in Nat /\ Len(File) \in Nat /\ file_pos \in Nat /\ data \in Seq(Units)
  BY <1>1, LenProperties DEF SharedInv, SharedTypes
<1>4. m \in 1 .. Len(File) /\ m \in Nat BY <1>1, <1>2, <1>3
<1> DEFINE file == File
<1>5. seen \in Seq(Units) /\ Len(seen) = m /\ (\A i \in 1 .. m : seen[i] = file[i])
  <2>1. 1 \in 1 .. Len(file) + 1 /\ m \in 1 - 1 .. Len(file) BY <1>3, <1>4
  <2> HIDE DEF file, m
  <2>2. /\ SubSeq(file, 1, m) \in Seq(Units) /\ Len(SubSeq(file, 1, m)) = m - 1 + 1
        /\ \A i \in 1 .. m - 1 + 1 : SubSeq(file, 1, m)[i] = file[1 + i - 1]
    <3>1. file \in Seq(Units) BY <1>1 DEF file
    <3> QED BY ONLY <2>1, <3>1, PartOf
  <2>3. m - 1 + 1 = m /\ (\A i \in 1 .. m : 1 + i - 1 = i) BY <1>4
  <2>4. seen = SubSeq(file, 1, m) BY DEF file
  <2> HIDE DEF seen
  <2> QED BY <2>2, <2>3, <2>4
<1>6. file_pos < m => StartOfText(file[file_pos + 1])
  <2>1. SUFFICES ASSUME file_pos < m PROVE StartOfText(file[file_pos + 1]) OBVIOUS
  <2>2. d >= 1 BY <2>1, <1>3
  <2>3. data # <<>> BY <2>2
  <2> DEFINE a == file_pos + 1
  <2>4. a \in 1 .. Len(file) + 1 /\ m \in a - 1 .. Len(file) /\ 1 \in 1 .. m - a + 1 /\ a + 1 - 1 = a
    BY <1>3, <1>4, <2>2
  <2>5. data = SubSeq(file, a, m) BY <1>2
  <2> HIDE DEF a, file, m
  <2>6. \A i \in 1 .. m - a + 1 : SubSeq(file, a, m)[i] = file[a + i - 1]
    <3>1. file \in Seq(Units) BY <1>1 DEF file
    <3> QED BY ONLY <2>4, <3>1, PartOf
  <2>7. data[1] = file[a] BY <2>4, <2>5, <2>6
  <2> QED BY <1>2, <2>3, <2>7 DEF a
<1> HIDE DEF seen, new, w, m, d
<1>7. \A i \in 1 .. file_pos : i \in 1 .. m BY <1>1, <1>3, <1>4 DEF m
<1>8. file_pos + 1 \in 1 .. m \/ ~(file_pos < m) BY <1>3, <1>4
<1>9. /\ file_pos \in 1 .. m
      /\ \A i \in 1 .. file_pos : new[i] = seen[i]
      /\ \A i \in file_pos + 1 .. m : new[i + w] = seen[i]
      /\ file_pos < m => StartOfText(seen[file_pos + 1])
  <2>1. file_pos \in 1 .. m BY <1>1, <1>3, <1>4 DEF m
  <2>2. \A i \in 1 .. file_pos : new[i] = seen[i] BY <1>1, <1>5, <1>7
  <2>3. \A i \in file_pos + 1 .. m : i \in 1 .. m BY <1>3, <1>4
  <2>4. \A i \in file_pos + 1 .. m : new[i + w] = seen[i] BY <1>1, <1>5, <2>3
  <2>5. file_pos < m => StartOfText(seen[file_pos + 1]) BY <1>5, <1>6, <1>8
  <2> QED BY <2>1, <2>2, <2>4, <2>5
<1>10. Readable(seen) \subseteq Readable(new)
  BY <1>1, <1>5, <1>9, BetweenHidesNone
<1> QED BY <1>10 DEF seen, new, m, d

\* Nothing else than a crossed write of history_add hides a line.
LEMMA LostToCrossedOnly ==
    ASSUME SharedAssumption, SharedInv, SharedNext
    PROVE  LostOnlyWhenCrossed
<1>1. files \in [Files -> Seq(Units)] BY DEF SharedInv, SharedTypes
<1>2. ASSUME NEW name \in Files
      PROVE  \/ Readable(files[name]) \subseteq Readable(files'[name])
             \/ (WriteNew \/ WriteBack) /\ "bot" \in crossed
  <2>1. CASE OpenLog \/ StartAdd \/ FindEmpty \/ Scan \/ ReadRest
    <3>1. files' = files
      BY <2>1 DEF OpenLog, StartAdd, Open, FindEmpty, Scan, ReadLogLine, ReadOther, ReadEnd,
                  ReadTornLine, ReadRest, Locate, vars
    <3> QED BY <3>1
  <2>2. CASE AppendLine
    <3> DEFINE new == files'[log_entry.file]
    <3>1. /\ log_entry.file \in Files /\ files' = [files EXCEPT ![log_entry.file] = new]
          /\ new \in Seq(Units) /\ Len(files[log_entry.file]) < Len(new)
          /\ \A i \in 1 .. Len(files[log_entry.file]) : new[i] = files[log_entry.file][i]
      BY <2>2, LineAdded
    <3>2. CASE name = log_entry.file
      <4>1. /\ files[name] \in Seq(Units) /\ files'[name] \in Seq(Units)
            /\ Len(files[name]) < Len(files'[name])
            /\ \A i \in 1 .. Len(files[name]) : files'[name][i] = files[name][i]
        BY <3>1, <3>2, <1>1
      <4> DEFINE old == files[name]   other == files'[name]
      <4>2. Len(old) \in Nat /\ Len(other) \in Nat BY <4>1, LenProperties
      <4>3. Len(old) <= Len(other) BY <4>1, <4>2
      <4> HIDE DEF old, other
      <4>4. Readable(old) \subseteq Readable(other)
        BY <4>1, <4>3, BehindHidesNone DEF old, other
      <4> QED BY <4>4 DEF old, other
    <3>3. CASE name # log_entry.file
      <4> HIDE DEF new
      <4>1. files'[name] = files[name] BY <3>1, <3>3, <1>1
      <4> QED BY <4>1
    <3> QED BY <3>2, <3>3
  <2>3. CASE WriteNew
    <3>1. CASE name = added.file /\ "bot" \notin crossed
      <4>1. files[name] = <<>> BY <2>3, <3>1 DEF WriteNew, SharedInv, Looks
      <4> QED BY <4>1, NothingInEmpty
    <3>2. CASE name # added.file
      <4>1. files'[name] = files[name] BY <2>3, <3>2, <1>1 DEF WriteNew
      <4> QED BY <4>1
    <3> QED BY <2>3, <3>1, <3>2
  <2>4. CASE WriteBack
    <3>1. CASE file_pos = -1
      <4>1. files' = files BY <2>4, <3>1 DEF WriteBack, Write
      <4> QED BY <4>1
    <3>2. CASE file_pos # -1 /\ name # added.file
      <4> DEFINE new == files'[added.file]
      <4>1. files' = [files EXCEPT ![added.file] = new] BY <2>4, <3>2, WrittenBack
      <4> HIDE DEF new
      <4>2. files'[name] = files[name] BY <3>2, <4>1, <1>1
      <4> QED BY <4>2
    <3>3. CASE file_pos # -1 /\ name = added.file /\ "bot" \notin crossed
      <4>1. file_pos + Len(data) = Len(File)
        BY <2>4, <3>3 DEF WriteBack, Write, SharedInv, Writes
      <4>2. SubSeq(File, 1, Len(File)) = File
        <5>1. File \in Seq(Units) BY <3>3, <1>1 DEF File
        <5> QED BY <5>1, SubSeqFull
      <4>3. Readable(SubSeq(File, 1, file_pos + Len(data))) \subseteq Readable(files'[added.file])
        BY <2>4, <3>3, SeenIsKept
      <4> QED BY <3>3, <4>1, <4>2, <4>3 DEF File
    <3> QED BY <2>4, <3>1, <3>2, <3>3
  <2> QED BY <2>1, <2>2, <2>3, <2>4 DEF SharedNext
<1>3. ASSUME WriteBack
      PROVE  Readable(SubSeq(files[added.file], 1,
                             IF file_pos = -1 THEN 0 ELSE file_pos + Len(data)))
                \subseteq Readable(files'[added.file])
  <2>1. CASE file_pos = -1
    <3>1. SubSeq(files[added.file], 1, 0) = <<>> BY SubSeqEmpty
    <3> QED BY <2>1, <3>1, NothingInEmpty
  <2>2. CASE file_pos # -1 BY <1>3, <2>2, SeenIsKept DEF File
  <2> QED BY <2>1, <2>2
<1> QED BY <1>2, <1>3 DEF LostOnlyWhenCrossed

\* What the bot has logged can be read, unless its byte order mark is a second one.
LEMMA LoggedCanBeRead ==
    ASSUME SharedAssumption, SharedInv
    PROVE  LoggedIsReadable
<1>1. SUFFICES ASSUME AppendLine, ~(log_bom /\ "import" \in crossed)
               PROVE  log_entry \in Readable(files'[log_entry.file])
  BY DEF LoggedIsReadable
<1>2. log_bom => files[log_entry.file] = <<>>
  BY <1>1 DEF AppendLine, SharedInv, Looks
<1> QED BY <1>1, <1>2, LineAdded

\* The bot and the import write to the same logs, without a lock: at every step of
\* either, whatever the logs hold at the start, a line is hidden only by a write of
\* history_add that confLog's has crossed, never one that history_add had seen; and
\* what the bot has logged can be read, unless the import made the file after the bot
\* had found it empty.
THEOREM LogsNotLost ==
    ASSUME SharedAssumption
    PROVE  SharedSpec => LogsShared
<1>1. SharedInit => SharedInv BY SharedStart
<1>2. SharedInv /\ [SharedNext]_sharedVars => SharedInv' BY SharedKeeps
<1>3. SharedInv /\ [SharedNext]_sharedVars => [LostOnlyWhenCrossed /\ LoggedIsReadable]_sharedVars
  BY LostToCrossedOnly, LoggedCanBeRead
<1> QED BY <1>1, <1>2, <1>3, PTL DEF SharedSpec, LogsShared
=============================================================================
