------------------------------ MODULE MCReading ------------------------------
(***************************************************************************)
(* What a client reads, and what it does with it.  A behaviour is one of   *)
(* these, while the variables of the others are not used:                  *)
(*   - reading: documents, renderings of small trees and a context         *)
(*     followed by any short text, most of which is malformed;             *)
(*   - editing: elements made, changed, copied and removed;                *)
(*   - hashing: both digests of what is fed in any pieces;                 *)
(*   - responders: two remotes ask what the client answers by itself;      *)
(*   - talks: sessions with a contact at two resources.                    *)
(***************************************************************************)
EXTENDS Parser, MessageSessions, Responders, FiniteSetsExt

MCRefValue == [r9 |-> 9, r127 |-> 127, r128 |-> 128, r2047 |-> 2047, r2048 |-> 2048,
               r8364 |-> 8364, r65533 |-> 65533, r65534 |-> 65534, r1114110 |-> 1114110]

\* Reference: the UTF-8 of a character, from its definition.
Utf8(n) ==
    LET Low(k) == ToString(128 + ((n \div k) % 64))
    IN  IF n < 128 THEN <<ToString(n)>>
        ELSE IF n < 2048 THEN <<ToString(192 + n \div 64), Low(1)>>
        ELSE IF n < 65536 THEN <<ToString(224 + n \div 4096), Low(64), Low(1)>>
        ELSE <<ToString(240 + n \div 262144), Low(4096), Low(64), Low(1)>>

\* How a text can be written, and what it means.
Texts == { [written |-> <<>>, means |-> <<>>],
           [written |-> <<"hi">>, means |-> <<"hi">>],
           [written |-> <<"&", "lt", ";", ">">>, means |-> <<"<", ">">>],
           [written |-> <<"!", "[", "x", "]", "]", "ws", "&", "amp", ";">>,
            means |-> <<"!", "[", "x", "]", "]", "ws", "&">>] }
Sections == { [written |-> <<"<", "!", "[", "<", "]", "]", "]", ">">>, means |-> <<"<", "]">>] }
Refs == {[written |-> <<"&", r, ";">>, means |-> Utf8(MCRefValue[r])] :
            r \in {x \in DOMAIN MCRefValue : MCRefValue[x] # 65534}}

Attribute(prefix, name, quote, text) ==
    [written |-> <<"ws">> \o (IF prefix = <<>> THEN <<>> ELSE prefix \o <<":">>) \o <<name, "=", quote>>
                  \o text.written \o <<quote>>,
     means |-> <<[prefix |-> prefix, name |-> <<name>>, value |-> text.means]>>]
NoAttribute == [written |-> <<>>, means |-> <<>>]
Attributes == {NoAttribute}
    \cup {Attribute(<<>>, "a", Quot, t) : t \in Texts \cup Refs}
    \cup {Attribute(<<>>, "a", Apos, t) : t \in Texts}
    \cup {Attribute(<<>>, "a", Quot, [written |-> <<"it", Apos, "s">>, means |-> <<"it", Apos, "s">>])}
    \cup {Attribute(<<XMLNS>>, "p", Apos, [written |-> <<"n">>, means |-> <<"n">>]),
          Attribute(<<"p">>, "a", Apos, [written |-> <<"v">>, means |-> <<"v">>])}

\* Elements without content and with one.
Empty(prefix, attribute, space) ==
    [written |-> <<"<">> \o (IF prefix = <<>> THEN <<>> ELSE prefix \o <<":">>) \o <<"b">>
                   \o attribute.written \o space \o <<"/">> \o space \o <<">">>,
     means |-> <<Opening(prefix, <<"b">>, attribute.means), Closing>>]
Nothing == [written |-> <<>>, means |-> <<>>]
Cdata(text) == [written |-> text.written, means |-> IF text.means = <<>> THEN <<>> ELSE <<CData(text.means)>>]
Element(prefix, name, attribute, first, second) ==
    LET full == (IF prefix = <<>> THEN <<>> ELSE prefix \o <<":">>) \o <<name>>
    IN  [written |-> <<"<">> \o full \o attribute.written \o <<">">> \o first.written
                       \o second.written \o <<"<", "/">> \o full \o <<">">>,
         means |-> <<Opening(prefix, <<name>>, attribute.means)>> \o first.means \o second.means \o <<Closing>>]

Children == {Nothing, Empty(<<>>, NoAttribute, <<>>), Empty(<<"p">>, NoAttribute, <<"ws">>)}
    \cup {Cdata(t) : t \in Texts \cup Sections}
Trees == {Element(<<>>, "m", at, Nothing, Nothing) : at \in Attributes}
    \cup {Empty(pre, at, sp) : pre \in {<<>>, <<"p">>}, at \in {NoAttribute, CHOOSE a \in Attributes : a # NoAttribute}, sp \in {<<>>, <<"ws">>}}
    \cup {Element(pre, "m", NoAttribute, c1, c2) :
            pre \in {<<>>, <<"stream">>}, c1 \in Children, c2 \in {Nothing, Empty(<<>>, NoAttribute, <<>>)}}
    \cup {Element(<<>>, "m", NoAttribute, Element(<<"p">>, "b", NoAttribute, Nothing, Cdata(t)), Nothing) :
            t \in Texts \cup Refs}
    \cup {Element(<<>>, "m", NoAttribute, Empty(<<>>, NoAttribute, <<>>), Cdata(t)) :
            t \in {x \in Texts : x.means # <<>> /\ x.written[1] # "&"}}
\* A stream: prolog and header, stanzas, the end.
HeaderAttributes == <<Attribute(<<XMLNS>>, "stream", Apos, [written |-> <<XMLNS_STREAM>>, means |-> <<XMLNS_STREAM>>])>>
Header ==
    [written |-> <<"<", "?", "xml", "ws", "v", "=", Apos, "1", Apos, "ws", "?", ">",
                   "<", "stream", ":", "stream">> \o HeaderAttributes[1].written \o <<">">>,
     means |-> <<Opening(<<"stream">>, <<"stream">>, HeaderAttributes[1].means)>>]
End == <<"<", "/", "stream", ":", "stream", ">">>

Small == {Empty(<<>>, NoAttribute, <<>>), Element(<<>>, "m", Attribute(<<>>, "a", Quot, [written |-> <<"v">>, means |-> <<"v">>]), Nothing, Nothing)}
Meanings ==
    {[doc |-> t.written, handled |-> <<t.means>>] : t \in Trees}
    \cup {[doc |-> Header.written \o t.written \o u.written \o End,
           handled |-> <<Header.means, t.means, u.means>>] : t \in Small, u \in Small}

\* Contexts with any text of up to three units behind them.
Units == {"<", ">", "/", "!", "?", "&", ":", "=", Quot, "ws", "b", "stream", ";", "lt", "["}
Contexts == {<<>>, <<"<", "b">>, <<"<", "b", "ws", "a">>, <<"<", "b", "ws", "a", "=", Apos>>,
             <<"<", "p", ":", "b", ">">>, <<"<", "b", ">", "x", "<", "/", "b">>, <<"<", "!", "[">>,
             <<"<", "m", ">", "<", "b", "/">>, <<"<", "stream", ":", "m", ">">>}
Broken == {c \o t : c \in Contexts, t \in UNION {[1..n -> Units] : n \in 1..3}}

WellFormed == {m.doc : m \in Meanings}
Streams == {Header.written \o t.written \o u \o End : t \in Small, u \in {<<>>, <<"ws", "<", "m", ">", "&", "lt", ";", "<", "/", "m", ">">>}}
MCDocuments == WellFormed \cup Broken \cup Streams
MCFollowing == [d \in MCDocuments |-> IF d \in Streams THEN Streams ELSE {}]
-----------------------------------------------------------------------------
VARIABLE part       \* which of them this behaviour is
Off == "off"

VARIABLES tags, created, edits, hung, detached
Editing == INSTANCE TagEditing WITH
    Names <- {"a"}, Values <- {"t", "u"}, Namespaces <- {"n"}, NsPrefixes <- {"p"},
    MaxTags <- 4, MaxEdits <- 3
editVars == <<tags, created, edits, hung, detached>>
EditingOff == tags = Off /\ created = Off /\ edits = Off /\ hung = Off /\ detached = Off

\* Blocks and words are smaller than in the code, to be filled and to overflow.
VARIABLES hash, fed, first, digest
Hashing == INSTANCE Hashes WITH Block <- 4, WordBits <- 6, MaxOctets <- 21, MaxPiece <- 14
hashVars == <<hash, fed, first, digest>>
HashingOff == hash = Off /\ fed = Off /\ first = Off /\ digest = Off

\* No session, and nobody to make one.
TalksOff == SessionsInit /\ auto = {} /\ ~invites

ASSUME ReadingAssumption ==
    /\ Editing!TagEditingAssumption /\ Hashing!HashAssumption
    /\ RespondersAssumption
-----------------------------------------------------------------------------
ReadingOff ==
    /\ parser = NewParser /\ document = <<>>
    /\ sent = 0 /\ error = FALSE /\ before = 0 /\ between = TRUE /\ streams = 1

ReadingInit ==
    \/ /\ part = "reading" /\ Init
       /\ EditingOff /\ HashingOff /\ RespondersInit /\ TalksOff
    \/ /\ part = "editing" /\ Editing!Init
       /\ ReadingOff /\ HashingOff /\ RespondersInit /\ TalksOff
    \/ /\ part = "hashing" /\ Hashing!Init
       /\ ReadingOff /\ EditingOff /\ RespondersInit /\ TalksOff
    \/ /\ part = "responders" /\ RespondersInit
       /\ ReadingOff /\ EditingOff /\ HashingOff /\ TalksOff
    \/ /\ part = "talks" /\ SessionsInit
       /\ ReadingOff /\ EditingOff /\ HashingOff /\ RespondersInit

Alone == UNCHANGED part
ReadingNext ==
    \/ /\ part = "reading" /\ Next /\ Alone
       /\ UNCHANGED <<editVars, hashVars, respondersVars, sessionsVars>>
    \/ /\ part = "editing" /\ Editing!Next /\ Alone
       /\ UNCHANGED <<vars, hashVars, respondersVars, sessionsVars>>
    \/ /\ part = "hashing" /\ Hashing!Next /\ Alone
       /\ UNCHANGED <<vars, editVars, respondersVars, sessionsVars>>
    \/ /\ part = "responders" /\ RespondersNext /\ Alone
       /\ UNCHANGED <<vars, editVars, hashVars, sessionsVars>>
    \/ /\ part = "talks" /\ SessionsNext /\ Alone
       /\ UNCHANGED <<vars, editVars, hashVars, respondersVars>>

allVars == <<vars, part, editVars, hashVars, respondersVars, sessionsVars>>
ReadingSpec == ReadingInit /\ [][ReadingNext]_allVars
-----------------------------------------------------------------------------
\* A well-formed document, however it was cut, reaches the handler as what it
\* means, and nothing of it is taken for an error.
MeansWhatItSays ==
    document \in WellFormed =>
      /\ streams = 1 => ~error
      /\ sent = Len(document) /\ streams = 1 =>
          \E m \in Meanings : m.doc = document /\ m.handled = parser.handled

\* The handler gets whole elements only, and a stream that is opened again after a loss
\* between two tags is read as the first was (Parser).
ElementsWhole == HandledWhole /\ NextStreamFresh

\* What an element holds, it holds once, in order and as its copies do (Tag).
TagsWhole == part = "editing" => Editing!TagsWhole

\* Digests are those of all that was fed (MD5 and SHA).
HashesTrue == part = "hashing" => Hashing!HashesTrue
=============================================================================
