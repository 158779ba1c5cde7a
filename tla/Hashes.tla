------------------------------- MODULE Hashes -------------------------------
(***************************************************************************)
(* The classes MD5 and SHA: a message is fed in pieces of any size, cut    *)
(* into blocks, padded, followed by its length, and compressed block by    *)
(* block.  A digest is taken as hex() or binary(), and an object is used   *)
(* again after reset().  The compression of a block into the state is      *)
(* taken to be injective: a state is the sequence of blocks it was made    *)
(* of.  Octets of a message are numbered, to tell them apart.              *)
(***************************************************************************)
EXTENDS Integers, Sequences, SequencesExt

CONSTANTS
    Block,          \* octets in a block, 64 in the code
    WordBits,       \* bits in a word, 32 in the code
    MaxOctets,      \* bound: octets fed since a reset
    MaxPiece        \* bound: octets of a piece

HashAssumption ==
    /\ Block \in Nat /\ Block > 2 /\ WordBits \in Nat /\ WordBits > 3
    /\ {MaxOctets, MaxPiece} \subseteq Nat
    /\ (2 ^ (WordBits - 3)) % Block = 0 /\ 8 * MaxOctets < 2 ^ (2 * WordBits)

VARIABLES
    hash,           \* the object
    fed,            \* how many octets it was fed since a reset
    first,          \* and how many until the first digest after it, -1 for none
    digest          \* what was returned last
vars == <<hash, fed, first, digest>>

\* Padding and the two words of the length, the lower one first or last.
One == <<"pad", 1>>
Zero == <<"pad", 0>>
Pad(n) == IF n = 0 THEN <<>> ELSE <<One>> \o [i \in 1 .. n - 1 |-> Zero]
Words(low, high) == <<<<"low", low>>, <<"high", high>>>>
LengthSize == 2
Word == 2 ^ WordBits
Unset == <<"unset", 0>>

\* low and high count bits; buf is a partial block of which index octets count (MD5 takes
\* its index from low); blocks are those that were compressed.
NewHash(kind) ==
    [kind |-> kind, low |-> 0, high |-> 0, buf |-> [i \in 0 .. Block - 1 |-> Unset], index |-> 0,
     blocks |-> <<>>, finished |-> FALSE, corrupted |-> FALSE]
Reset(h) ==
    [h EXCEPT !.low = 0, !.high = 0, !.index = 0, !.blocks = <<>>, !.finished = FALSE,
              !.corrupted = FALSE]

Init ==
    /\ \E kind \in {"MD5", "SHA"} : hash = NewHash(kind)
    /\ fed = 0 /\ first = -1 /\ digest = <<>>
-----------------------------------------------------------------------------
(***************************************************************************)
(* MD5.                                                                    *)
(***************************************************************************)
Process(h, block) == [h EXCEPT !.blocks = Append(@, block)]
Buffered(h) == [i \in 1 .. Block |-> h.buf[i - 1]]
Copied(h, offset, data) ==
    [h EXCEPT !.buf = [i \in DOMAIN @ |->
        IF i \in offset .. offset + Len(data) - 1 THEN data[i - offset + 1] ELSE @[i]]]

\* The low word counts bits modulo its width and carries into the high one.
CountedNarrow(h, bytes) ==      \* mutant: without the carry
    [h EXCEPT !.high = (@ + ((bytes * 8) \div Word)) % Word, !.low = (@ + bytes * 8) % Word]
Counted(h, bytes) ==
    LET nbits == (bytes * 8) % Word
        low == (h.low + nbits) % Word
        carry == IF low < nbits THEN 1 ELSE 0
    IN  [h EXCEPT !.high = (@ + ((bytes * 8) \div Word) + carry) % Word, !.low = low]

\* Full blocks are compressed from where they are, what is left over is kept.
Blocks(h, data) ==
    LET full == Len(data) \div Block
        part(k) == SubSeq(data, (k - 1) * Block + 1, k * Block)
    IN  Copied([h EXCEPT !.blocks = @ \o [k \in 1 .. full |-> part(k)]], 0,
               SubSeq(data, full * Block + 1, Len(data)))
Offset(h) == (h.low \div 8) % Block
Md5Feed(h, data) ==
    LET offset == Offset(h)
        copy == IF offset + Len(data) > Block THEN Block - offset ELSE Len(data)
        copied == Copied(Counted(h, Len(data)), offset, SubSeq(data, 1, copy))
    IN  IF data = <<>> THEN h
        ELSE IF offset = 0 THEN Blocks(Counted(h, Len(data)), data)
        ELSE IF offset + copy < Block THEN copied
        ELSE Blocks(Process(copied, Buffered(copied)), SubSeq(data, copy + 1, Len(data)))
\* The length is taken before the padding is fed, which leaves room for it in a block.
Md5Finalize(h) ==
    LET padding == ((Block - LengthSize - 1 - (h.low \div 8)) % Block) + 1
    IN  IF h.finished THEN h
        ELSE [Md5Feed(Md5Feed(h, Pad(padding)), Words(h.low, h.high)) EXCEPT !.finished = TRUE]
-----------------------------------------------------------------------------
(***************************************************************************)
(* SHA.                                                                    *)
(***************************************************************************)
ShaProcess(h) == [Process(h, Buffered(h)) EXCEPT !.index = 0]
ShaOctet(h, octet) ==
    LET low == (h.low + 8) % Word
        high == IF low = 0 THEN (h.high + 1) % Word ELSE h.high
        put == [h EXCEPT !.buf[h.index] = octet, !.index = @ + 1, !.low = low, !.high = high,
                         !.corrupted = low = 0 /\ high = 0]
    IN  IF h.corrupted THEN h
        ELSE IF put.index = Block THEN ShaProcess(put)
        ELSE put
ShaFeed(h, data) ==
    IF data = <<>> THEN h
    ELSE IF h.finished \/ h.corrupted THEN [h EXCEPT !.corrupted = TRUE]
    ELSE FoldLeft(ShaOctet, h, data)
\* When the length does not fit behind the first octet of the padding, a block of
\* padding comes between.
ShaFilled(h, upto) == [Copied(h, h.index, [i \in 1 .. upto - h.index |-> Zero]) EXCEPT !.index = upto]
ShaPad(h) ==
    LET begun == [h EXCEPT !.buf[h.index] = One, !.index = @ + 1]
        room == IF begun.index > Block - LengthSize THEN ShaProcess(ShaFilled(begun, Block)) ELSE begun
        words == Reverse(Words(h.low, h.high))
    IN  ShaProcess(Copied(ShaFilled(room, Block - LengthSize), Block - LengthSize, words))
ShaFinalize(h) == IF h.finished THEN h ELSE [ShaPad(h) EXCEPT !.finished = TRUE]
-----------------------------------------------------------------------------
Piece(n) == [i \in 1 .. n |-> <<"octet", fed + i>>]
Feed ==
    /\ \E n \in 0 .. MaxPiece :
          /\ fed + n <= MaxOctets
          /\ hash' = IF hash.kind = "MD5" THEN Md5Feed(hash, Piece(n)) ELSE ShaFeed(hash, Piece(n))
          /\ fed' = fed + n
    /\ UNCHANGED <<first, digest>>

\* hex() of a SHA that was spoilt is empty, binary() does not look.
Digest ==
    \E form \in {"hex", "binary"} :
       /\ hash' = IF hash.kind = "MD5" THEN Md5Finalize(hash)
                  ELSE IF form = "hex" /\ hash.corrupted THEN hash
                  ELSE ShaFinalize(hash)
       /\ digest' = IF hash.kind = "SHA" /\ form = "hex" /\ hash.corrupted THEN <<>> ELSE hash'.blocks
       /\ first' = IF first = -1 THEN fed ELSE first
       /\ UNCHANGED fed

StartAgain == hash' = Reset(hash) /\ fed' = 0 /\ first' = -1 /\ digest' = <<>>

Next == Feed \/ Digest \/ StartAgain
Spec == Init /\ [][Next]_vars
-----------------------------------------------------------------------------
\* The reference: the message, one and as many zeros as make blocks with the length.
Padded(n, kind) ==
    LET words == Words((8 * n) % Word, (8 * n) \div Word)
        whole == CHOOSE m \in n + 1 + LengthSize .. n + Block + LengthSize : m % Block = 0
        text == [i \in 1 .. n |-> <<"octet", i>>] \o Pad(whole - n - LengthSize)
                   \o (IF kind = "MD5" THEN words ELSE Reverse(words))
    IN  [k \in 1 .. whole \div Block |-> SubSeq(text, (k - 1) * Block + 1, k * Block)]

\* A digest is that of everything that was fed since a reset, however it was cut and
\* however long it is, words that overflow included; taken again it is the same.  What is
\* fed after a digest spoils the object until the next reset: SHA::hex() is then empty
\* and binary() repeats the digest, while MD5 goes on with what the digest has left.
HashesTrue ==
    /\ digest # <<>> => digest = Padded(first, hash.kind) \/ (hash.kind = "MD5" /\ first # fed)
    /\ hash.kind = "SHA" /\ first \notin {-1, fed} => hash.corrupted
=============================================================================
