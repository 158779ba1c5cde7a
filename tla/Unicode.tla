------------------------------- MODULE Unicode -------------------------------
(***************************************************************************)
(* deUTF8 and UTF8, with the functions of utfcpp that they are: what comes *)
(* from gloox as UTF-8 becomes a wide string, one turn of the loop for a   *)
(* code point, and what is sent becomes UTF-8 again.  An exception of      *)
(* utfcpp passes through the bot.                                          *)
(***************************************************************************)
EXTENDS Integers, Sequences

CONSTANTS Texts     \* [form |-> "octets" or "words", units |-> a string of either kind]

VARIABLES text,     \* the string converted
          it,       \* what is left of it
          result,   \* what was made of it
          step      \* "deUTF8", "UTF8", "done" or "thrown"
vars == <<text, it, result, step>>

\* UTF8 takes the length of a wide string from wcslen, which stops at a zero.
UpToZero(words) ==
    LET zeros == {k \in DOMAIN words : words[k] = 0}
    IN  IF zeros = {} THEN words
        ELSE SubSeq(words, 1, (CHOOSE k \in zeros : \A j \in zeros : k <= j) - 1)

Init ==
    /\ text \in Texts
    /\ step = IF text.form = "octets" THEN "deUTF8" ELSE "UTF8"
    /\ it = IF text.form = "octets" THEN text.units ELSE UpToZero(text.units)
    /\ result = <<>>
-----------------------------------------------------------------------------
IsTrail(octet) == octet \div 64 = 2
IsSurrogate(cp) == cp \in 55296 .. 57343
IsLeadSurrogate(cp) == cp \in 55296 .. 56319
IsTrailSurrogate(cp) == cp \in 56320 .. 57343
IsCodePointValid(cp) == cp <= 1114111 /\ ~IsSurrogate(cp) /\ cp \notin {65534, 65535}

SequenceLength(lead) ==
    CASE lead < 128 -> 1
      [] lead \div 32 = 6 -> 2
      [] lead \div 16 = 14 -> 3
      [] lead \div 8 = 30 -> 4
      [] OTHER -> 0

IsOverlongSequenceInTwo(cp, length) ==      \* mutant: the limit of three octets is not looked at
    \/ cp < 128 /\ length # 1
    \/ cp \in 128 .. 2047 /\ length # 2
IsOverlongSequence(cp, length) ==
    \/ cp < 128 /\ length # 1
    \/ cp \in 128 .. 2047 /\ length # 2
    \/ cp \in 2048 .. 65535 /\ length # 3

\* get_sequence_x: an octet that is missing or no trail ends the sequence; else the masked
\* bits of all of them are put together.
IsComplete(octets, length) ==
    length <= Len(octets) /\ \A k \in 2 .. length : IsTrail(octets[k])
GetSequence(octets, length) ==
    LET bits == <<128, 2048, 65536, 2097152>>
        shifted[k \in 1 .. length] ==
            IF k = 1 THEN octets[1]
            ELSE ((shifted[k - 1] * 64) % bits[length]) + (octets[k] % 64)
    IN  shifted[length]

\* validate_next: how many octets the next code point takes, 0 for an error of any kind.
ValidateNext(octets) ==
    LET length == SequenceLength(octets[1])
        cp == GetSequence(octets, length)
    IN  IF /\ length # 0 /\ IsComplete(octets, length)
           /\ IsCodePointValid(cp) /\ ~IsOverlongSequence(cp, length)
        THEN length ELSE 0

Rest(units, n) == SubSeq(units, n + 1, Len(units))

\* What utf8to16 makes of a code point: one word, or a pair of surrogates.
ToWords(cp) ==
    IF cp <= 65535 THEN <<cp>>
    ELSE <<(cp \div 1024) + 55232, (cp % 1024) + 56320>>

Next16 ==
    /\ step = "deUTF8" /\ it # <<>>
    /\ LET length == ValidateNext(it)
       IN  /\ length # 0
           /\ result' = result \o ToWords(GetSequence(it, length))
           /\ it' = Rest(it, length)
    /\ UNCHANGED <<text, step>>

\* The wide string is a C++ string, zeros and all, but goes to UTF8 as a C string.
ToUTF8 ==
    /\ step = "deUTF8" /\ it = <<>>
    /\ it' = UpToZero(result) /\ result' = <<>>
    /\ step' = "UTF8"
    /\ UNCHANGED text
-----------------------------------------------------------------------------
\* utf16to8: how many words the next code point takes, 0 for a surrogate without its other half.
WordsTaken(words) ==
    CASE IsLeadSurrogate(words[1]) ->
           IF Len(words) > 1 /\ IsTrailSurrogate(words[2]) THEN 2 ELSE 0
      [] IsTrailSurrogate(words[1]) -> 0
      [] OTHER -> 1
CodePoint(words) ==
    IF WordsTaken(words) = 2 THEN words[1] * 1024 + words[2] - 56613888 ELSE words[1]

\* append: the octets of a code point.
ToOctets(cp) ==
    CASE cp < 128 -> <<cp>>
      [] cp \in 128 .. 2047 -> <<(cp \div 64) + 192, (cp % 64) + 128>>
      [] cp \in 2048 .. 65535 -> <<(cp \div 4096) + 224, ((cp \div 64) % 64) + 128, (cp % 64) + 128>>
      [] OTHER -> <<(cp \div 262144) + 240, ((cp \div 4096) % 64) + 128,
                    ((cp \div 64) % 64) + 128, (cp % 64) + 128>>

Next8 ==
    /\ step = "UTF8" /\ it # <<>>
    /\ WordsTaken(it) # 0 /\ IsCodePointValid(CodePoint(it))
    /\ result' = result \o ToOctets(CodePoint(it))
    /\ it' = Rest(it, WordsTaken(it))
    /\ UNCHANGED <<text, step>>

Return ==
    /\ step = "UTF8" /\ it = <<>>
    /\ step' = "done"
    /\ UNCHANGED <<text, it, result>>

Throw ==
    /\ it # <<>>
    /\ \/ step = "deUTF8" /\ ValidateNext(it) = 0
       \/ step = "UTF8" /\ (WordsTaken(it) = 0 \/ ~IsCodePointValid(CodePoint(it)))
    /\ step' = "thrown"
    /\ UNCHANGED <<text, it, result>>

Next == Next16 \/ ToUTF8 \/ Next8 \/ Return \/ Throw

FairSpec == Init /\ [][Next]_vars /\ WF_vars(Next)
-----------------------------------------------------------------------------
(***************************************************************************)
(* Properties.  What UTF-8 is, from the table of well-formed octet         *)
(* sequences of the Unicode standard.                                      *)
(***************************************************************************)
Ranges ==
    {<<0 .. 127>>, <<194 .. 223, 128 .. 191>>,
     <<{224}, 160 .. 191, 128 .. 191>>, <<225 .. 236 \cup {238, 239}, 128 .. 191, 128 .. 191>>,
     <<{237}, 128 .. 159, 128 .. 191>>,
     <<{240}, 144 .. 191, 128 .. 191, 128 .. 191>>,
     <<241 .. 243, 128 .. 191, 128 .. 191, 128 .. 191>>,
     <<{244}, 128 .. 143, 128 .. 191, 128 .. 191>>}
IsCharacter(octets) ==
    \E ranges \in Ranges : Len(ranges) = Len(octets) /\ \A k \in DOMAIN octets : octets[k] \in ranges[k]

\* The ends of the characters that octets begin with, all well formed.
Ends(octets) ==
    LET ends[k \in 0 .. Len(octets)] ==
            IF k = 0 THEN {0}
            ELSE ends[k - 1] \cup
                 IF \E j \in ends[k - 1] : IsCharacter(SubSeq(octets, j + 1, k)) THEN {k} ELSE {}
    IN  ends[Len(octets)]
\* Octets that are UTF-8, but for two code points that utfcpp does not take.
Refused(octets) == \E k \in DOMAIN octets : k + 2 <= Len(octets)
                      /\ SubSeq(octets, k, k + 2) \in {<<239, 191, 190>>, <<239, 191, 191>>}
IsUtf8(octets) == Len(octets) \in Ends(octets) /\ ~Refused(octets)

\* A message gets through the bot as it was sent, up to a zero, and no other ends the
\* program than one that is not UTF-8; a wide string does unless a surrogate stands
\* alone in it.
TextSurvives ==
    /\ text.form = "octets" =>
          /\ (step = "done" => IsUtf8(text.units) /\ result = UpToZero(text.units))
          /\ (step = "thrown" => ~IsUtf8(text.units))
    /\ text.form = "words" /\ step = "done" => IsUtf8(result)

\* Every string is converted or refused.
ConversionReturns == <>(step \in {"done", "thrown"})
=============================================================================
