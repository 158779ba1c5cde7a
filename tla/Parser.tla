------------------------------- MODULE Parser -------------------------------
(***************************************************************************)
(* gloox's XML parser: Parser::feed is given whatever the connection has   *)
(* received, so a tag, an entity or a CDATA section may be cut anywhere.   *)
(*                                                                         *)
(* Text is a sequence of units: the characters that mean something to the  *)
(* parser, and names, which stand for the characters of a name or a text.  *)
(* The needle of a CDATA section is shortened to "![".  A tag that is      *)
(* built, or handed to the TagHandler, is the sequence of its openings     *)
(* (with prefix, name and attributes), texts and closings.                 *)
(***************************************************************************)
EXTENDS Integers, Sequences, FiniteSets, TLC

CONSTANTS Documents,  \* what a server may send on one stream, each a sequence of units
          RefValue,   \* the units that are the number of a character reference: [unit -> Nat]
          Following,  \* the documents a stream may bring after each document
          MaxStreams  \* bound: streams opened one after another

ASSUME ParserAssumption == MaxStreams \in Nat /\ Following \in [Documents -> SUBSET Documents]

White == {"ws"}
Quot == "\""
Apos == "'"
\* The entities that have a name, and what they stand for.
Entities == [lt |-> "<", gt |-> ">", apos |-> Apos, amp |-> "&", quot |-> Quot]

XMLNS == "xmlns"
XMLNS_STREAM == "streamns"   \* http://etherx.jabber.org/streams

\* An element of a tag that is being built.
Opening(prefix, name, attribs) == [kind |-> "open", prefix |-> prefix, name |-> name, attribs |-> attribs, text |-> <<>>]
CData(text) == [kind |-> "cdata", prefix |-> <<>>, name |-> <<>>, attribs |-> <<>>, text |-> text]
Closing == [kind |-> "close", prefix |-> <<>>, name |-> <<>>, attribs |-> <<>>, text |-> <<>>]

\* The members of the parser.  root is the tag being built, rootXmlns what its
\* xmlns() is, current the openings from its root to m_current; handled is what the
\* TagHandler got.
NewParser ==
    [state |-> "Initial", root |-> <<>>, rootXmlns |-> <<>>, current |-> <<>>, cdata |-> <<>>,
     tag |-> <<>>, tagPrefix |-> <<>>, haveTagPrefix |-> FALSE,
     attrib |-> <<>>, attribPrefix |-> <<>>, haveAttribPrefix |-> FALSE,
     attribIsXmlns |-> FALSE, value |-> <<>>, quote |-> FALSE,
     attribs |-> <<>>, xmlnss |-> {}, xmlns |-> <<>>, preamble |-> 0,
     backBuffer |-> <<>>, handled |-> <<>>]

\* cleanup() leaves the quote, the flag of a namespace declaration and the back
\* buffer as they are.
Cleanup(p) ==
    [NewParser EXCEPT !.quote = p.quote, !.attribIsXmlns = p.attribIsXmlns,
                      !.backBuffer = p.backBuffer, !.handled = p.handled]

StreamEvent(p) == Cleanup([p EXCEPT !.handled = Append(@, p.root)])
-----------------------------------------------------------------------------
\* m_root->xmlns(), before the namespace of a stream is declared for its prefix: a
\* child leaves it as it is, the root has the parser's prefix and declarations.
RootXmlns(p) ==
    IF p.root # <<>> THEN p.rootXmlns
    ELSE IF p.haveTagPrefix
    THEN LET found == {d \in p.xmlnss : d[1] = p.tagPrefix}
         IN  IF found = {} THEN <<>> ELSE (CHOOSE d \in found : TRUE)[2]
    ELSE p.xmlns

\* mutant: a prolog stays what it is, the root of everything behind it
AddTagKeepingProlog(p) ==
    LET opening == Opening(IF p.haveTagPrefix THEN p.tagPrefix ELSE <<>>, p.tag, p.attribs)
        added == [p EXCEPT !.root = Append(@, opening), !.current = Append(@, opening),
                           !.haveTagPrefix = FALSE, !.attribs = <<>>,
                           !.xmlnss = {}, !.xmlns = <<>>]
    IN  IF p.tag = <<"stream">> THEN StreamEvent(added) ELSE added

\* addTag(): a child of the current tag, or the root, which is in the namespace of a
\* stream with that prefix.  A tag called stream under such a root, or that is one, has
\* the root handled at once, as far as it has come; a prolog is dropped.
AddTag(p) ==
    LET opening == Opening(IF p.haveTagPrefix THEN p.tagPrefix ELSE <<>>, p.tag, p.attribs)
        added == [p EXCEPT !.root = Append(@, opening), !.current = Append(@, opening),
                           !.haveTagPrefix = FALSE, !.attribs = <<>>,
                           !.xmlnss = {}, !.xmlns = <<>>]
        streamRoot == p.root = <<>> /\ p.tagPrefix = <<"stream">>
    IN  CASE p.tag = <<"stream">> /\ RootXmlns(p) = <<XMLNS_STREAM>> -> StreamEvent(added)
          [] p.tag = <<"xml">> /\ p.preamble = 2 -> Cleanup(added)
          [] OTHER -> [added EXCEPT !.rootXmlns =
                          IF streamRoot THEN <<XMLNS_STREAM>> ELSE RootXmlns(p)]

\* addAttribute(): a declaration of a namespace is remembered as one, too.
AddAttribute(p) ==
    LET prefix == IF p.attribIsXmlns THEN <<XMLNS>> ELSE p.attribPrefix
        declared == {d \in p.xmlnss : d[1] # p.attrib} \cup {<<p.attrib, p.value>>}
    IN  [p EXCEPT !.attribs = Append(@, [prefix |-> prefix, name |-> p.attrib, value |-> p.value]),
                  !.xmlnss = IF p.attribIsXmlns THEN declared ELSE @,
                  !.xmlns = IF ~p.attribIsXmlns /\ p.attrib = <<XMLNS>> THEN p.value ELSE @,
                  !.attrib = <<>>, !.value = <<>>, !.attribPrefix = <<>>,
                  !.haveAttribPrefix = FALSE, !.attribIsXmlns = FALSE]

\* addCData(): text outside of any tag stays in m_cdata.
AddCData(p) ==
    IF p.current # <<>> /\ p.cdata # <<>>
    THEN [p EXCEPT !.root = Append(@, CData(p.cdata)), !.cdata = <<>>]
    ELSE p

\* closeTag(): whether the name fits the current tag, and the parser after it.
\* The end of the stream fits always.
IsStreamEnd(p) == p.tag = <<"stream">> /\ p.tagPrefix = <<"stream">>
Current(p) == p.current[Len(p.current)]
Fits(p) ==
    /\ p.current # <<>> /\ Current(p).name = p.tag
    /\ Current(p).prefix # <<>> => Current(p).prefix = p.tagPrefix
CloseTagDelivering(p) ==      \* mutant: every closing hands the tag on
    IF IsStreamEnd(p) THEN p ELSE StreamEvent([p EXCEPT !.root = Append(@, Closing)])
CloseTag(p) ==
    IF IsStreamEnd(p) THEN p
    ELSE LET closed == [p EXCEPT !.root = Append(@, Closing), !.tagPrefix = <<>>,
                                 !.haveTagPrefix = FALSE,
                                 !.current = SubSeq(@, 1, Len(@) - 1)]
         IN  IF closed.current = <<>> THEN StreamEvent(closed) ELSE closed
-----------------------------------------------------------------------------
(***************************************************************************)
(* One unit.  Every operator returns the parser after it, how many units   *)
(* it took, and "go", "error" (feed returns the position) or "wait" (the   *)
(* rest is kept for the next call).                                        *)
(***************************************************************************)
Go(p) == [p |-> p, used |-> 1, then |-> "go"]
Skip(p, n) == [p |-> p, used |-> n, then |-> "go"]
Reject(p) == [p |-> Cleanup(p), used |-> 1, then |-> "error"]
Wait(p, rest) == [p |-> [p EXCEPT !.backBuffer = rest], used |-> 0, then |-> "wait"]
In(p, state) == Go([p EXCEPT !.state = state])

\* forwardScan() for a needle of n units: `Found' if it is there.
ForwardScan(p, rest, needle, Found, Otherwise) ==
    IF Len(rest) < Len(needle) THEN Wait(p, rest)
    ELSE IF SubSeq(rest, 1, Len(needle)) = needle THEN Skip(Found, Len(needle))
    ELSE Otherwise

\* The bytes of the character with a number, as decode() computes them.
\* Characters from 10000 to FFFFF are taken for invalid.
ByteUnit(n) == ToString(n)
RefBytesSwapped(n) ==      \* mutant: the two low groups in the wrong order
    IF n < 128 THEN <<ByteUnit(n)>>
    ELSE IF n < 2048 THEN <<ByteUnit(192 + n \div 64), ByteUnit(128 + (n % 64))>>
    ELSE <<ByteUnit(224 + n \div 4096), ByteUnit(128 + (n % 64)), ByteUnit(128 + ((n \div 64) % 64))>>
RefBytes(n) ==
    CASE n \in {9, 10, 13} \/ n \in 32 .. 127 -> <<ByteUnit(n)>>
      [] n \in 128 .. 2047 -> <<ByteUnit(192 + n \div 64), ByteUnit(128 + (n % 64))>>
      [] n \in 2048 .. 55295 \/ n \in 57344 .. 65533 ->
            <<ByteUnit(224 + n \div 4096), ByteUnit(128 + ((n \div 64) % 64)), ByteUnit(128 + (n % 64))>>
      [] n >= 1048576 /\ n < 1114111 ->
            <<ByteUnit(240 + n \div 262144), ByteUnit(128 + ((n \div 4096) % 64)),
              ByteUnit(128 + ((n \div 64) % 64)), ByteUnit(128 + (n % 64))>>
      [] OTHER -> <<>>

\* What the name of an entity stands for; <<>> if it is invalid.
Meaning(name) ==
    IF Len(name) # 1 THEN <<>>
    ELSE IF name[1] \in DOMAIN Entities THEN <<Entities[name[1]]>>
    ELSE IF name[1] \in DOMAIN RefValue THEN RefBytes(RefValue[name[1]])
    ELSE <<>>

\* decode(): up to the next semicolon of the data, however far it is; what the
\* entity stands for goes to the field, the text or the value being collected.
Decode(p, rest, field) ==
    LET ends == {k \in DOMAIN rest : rest[k] = ";"}
        end == CHOOSE k \in ends : \A j \in ends : k <= j
        meaning == Meaning(SubSeq(rest, 2, end - 1))
    IN  IF ends = {} THEN Wait(p, rest)
        ELSE IF meaning = <<>> THEN Reject(p)
        ELSE Skip([p EXCEPT ![field] = @ \o meaning], end)

\* The prefix of a tag name ends at a colon; there is only one.
TakePrefix(p) ==
    IF p.haveTagPrefix THEN Reject(p)
    ELSE Go([p EXCEPT !.haveTagPrefix = TRUE, !.tagPrefix = p.tag, !.tag = <<>>])

Initial(p, c) ==
    IF c \in White THEN Go(p) ELSE IF c = "<" THEN In(p, "TagOpening") ELSE Reject(p)

InterTag(q, c) ==
    LET p == [q EXCEPT !.tag = <<>>]
    IN  IF c \in White THEN Go(p)
        ELSE IF c = "<" THEN In(p, "TagOpening")
        ELSE IF p.current # <<>> THEN In([p EXCEPT !.cdata = Append(@, c)], "TagInside")
        ELSE Go(p)

TagOpening(p, c, rest) ==
    CASE c \in White -> Go(p)
      [] c \in {"<", ">", "&"} -> Reject(p)
      [] c = "/" -> In(p, "TagClosingSlash")
      [] c = "?" -> In([p EXCEPT !.preamble = 1], "TagNameCollect")
      [] c = "!" -> ForwardScan(p, rest, <<"!", "[">>, [p EXCEPT !.state = "TagCDATASection"], Reject(p))
      [] OTHER -> In([p EXCEPT !.tag = Append(@, c)], "TagNameCollect")

TagCDATASection(p, c, rest) ==
    LET more == Go([p EXCEPT !.cdata = Append(@, c)])
    IN  IF c = "]" THEN ForwardScan(p, rest, <<"]", "]", ">">>, [p EXCEPT !.state = "TagInside"], more)
        ELSE more

TagNameCollect(p, c) ==
    CASE c \in White -> In(p, "TagNameComplete")
      [] c \in {"<", "?", "!", "&"} -> Reject(p)
      [] c = "/" -> In(p, "TagOpeningSlash")
      [] c = ">" -> In(AddTag(p), "TagInside")
      [] c = ":" -> TakePrefix(p)
      [] OTHER -> Go([p EXCEPT !.tag = Append(@, c)])

TagInside(q, c, rest) ==
    LET p == [q EXCEPT !.tag = <<>>]
    IN  CASE c = "<" -> In(AddCData(p), "TagOpening")
          [] c = "&" -> Decode(p, rest, "cdata")
          [] OTHER -> Go([p EXCEPT !.cdata = Append(@, c)])

\* The end of a tag without content.  The parser is in InterTag behind it, the
\* end of the root included.
TagOpeningSlash(p, c) ==
    LET added == AddTag(p)
    IN  CASE c \in White -> Go(p)
          [] c = ">" -> IF IsStreamEnd(added) \/ Fits(added) THEN In(CloseTag(added), "InterTag")
                        ELSE Reject(added)
          [] OTHER -> Reject(p)

TagClosingSlash(p, c) ==
    CASE c \in White -> Go(p)
      [] c \in {">", "<", "/"} -> Reject(p)
      [] OTHER -> In([p EXCEPT !.tag = Append(@, c)], "TagClosing")

TagClosing(p, c) ==
    CASE c \in {"<", "/", "!", "?", "&"} -> Reject(p)
      [] c = ":" -> TakePrefix(p)
      [] c = ">" -> IF IsStreamEnd(p) \/ Fits(p) THEN In(CloseTag(p), "InterTag") ELSE Reject(p)
      [] OTHER -> Go([p EXCEPT !.tag = Append(@, c)])

\* The end of an opening that had attributes or white space; that of a prolog has
\* to follow a question mark.
EndOpening(p) ==
    IF p.preamble = 1 THEN Reject(p)
    ELSE LET added == AddTag([p EXCEPT !.state = "TagInside"]) IN Go(added)
EndPreamble(p) == IF p.preamble = 1 THEN Go([p EXCEPT !.preamble = 2]) ELSE Reject(p)

TagNameComplete(p, c) ==
    CASE c \in White -> Go(p)
      [] c \in {"<", "!", "&"} -> Reject(p)
      [] c = "/" -> In(p, "TagOpeningSlash")
      [] c = ">" -> EndOpening(p)
      [] c = "?" -> EndPreamble(p)
      [] OTHER -> In([p EXCEPT !.attrib = Append(@, c)], "TagAttribute")

TagAttribute(p, c) ==
    CASE c \in White -> In(p, "TagAttributeComplete")
      [] c \in {"<", "/", ">", "?", "!", "&"} -> Reject(p)
      [] c = "=" -> In(p, "TagAttributeEqual")
      [] c = ":" ->
            IF p.attrib = <<XMLNS>> THEN Go([p EXCEPT !.attribIsXmlns = TRUE, !.attrib = <<>>])
            ELSE IF p.haveAttribPrefix THEN Reject(p)
            ELSE Go([p EXCEPT !.haveAttribPrefix = TRUE, !.attribPrefix = p.attrib, !.attrib = <<>>])
      [] OTHER -> Go([p EXCEPT !.attrib = Append(@, c)])

TagAttributeComplete(p, c) ==
    IF c \in White THEN Go(p) ELSE IF c = "=" THEN In(p, "TagAttributeEqual") ELSE Reject(p)

TagAttributeEqual(p, c) ==
    CASE c \in White -> Go(p)
      [] c = Quot -> In([p EXCEPT !.quote = TRUE], "TagAttributeValue")
      [] c = Apos -> In(p, "TagAttributeValue")
      [] OTHER -> Reject(p)

\* An apostrophe is part of a value that began with a quotation mark; the
\* quotation mark ends every value.
TagAttributeValue(p, c, rest) ==
    CASE c = "<" -> Reject(p)
      [] c = Quot \/ (c = Apos /\ ~p.quote) ->
            In([AddAttribute(p) EXCEPT !.quote = FALSE], "TagNameAlmostComplete")
      [] c = "&" -> Decode(p, rest, "value")
      [] OTHER -> Go([p EXCEPT !.value = Append(@, c)])

TagNameAlmostComplete(p, c) ==
    CASE c \in White -> In(p, "TagNameComplete")
      [] c = "/" -> In(p, "TagOpeningSlash")
      [] c = ">" -> EndOpening(p)
      [] c = "?" -> EndPreamble(p)
      [] OTHER -> Reject(p)

Take(p, rest) ==
    LET c == rest[1]
    IN  CASE p.state = "Initial" -> Initial(p, c)
          [] p.state = "InterTag" -> InterTag(p, c)
          [] p.state = "TagOpening" -> TagOpening(p, c, rest)
          [] p.state = "TagCDATASection" -> TagCDATASection(p, c, rest)
          [] p.state = "TagNameCollect" -> TagNameCollect(p, c)
          [] p.state = "TagInside" -> TagInside(p, c, rest)
          [] p.state = "TagOpeningSlash" -> TagOpeningSlash(p, c)
          [] p.state = "TagClosingSlash" -> TagClosingSlash(p, c)
          [] p.state = "TagClosing" -> TagClosing(p, c)
          [] p.state = "TagNameComplete" -> TagNameComplete(p, c)
          [] p.state = "TagAttribute" -> TagAttribute(p, c)
          [] p.state = "TagAttributeComplete" -> TagAttributeComplete(p, c)
          [] p.state = "TagAttributeEqual" -> TagAttributeEqual(p, c)
          [] p.state = "TagAttributeValue" -> TagAttributeValue(p, c, rest)
          [] p.state = "TagNameAlmostComplete" -> TagNameAlmostComplete(p, c)

\* The loop of feed(): the parser, and whether it has found an error.
RECURSIVE Consume(_, _)
Consume(p, rest) ==
    IF rest = <<>> THEN [p |-> p, error |-> FALSE]
    ELSE LET step == Take(p, rest)
         IN  IF step.then = "go" THEN Consume(step.p, SubSeq(rest, step.used + 1, Len(rest)))
             ELSE [p |-> step.p, error |-> step.then = "error"]

\* feed(): behind what was kept from the call before.
FeedForgetting(p, data) ==      \* mutant: what was kept is not put before the data
    Consume([p EXCEPT !.backBuffer = <<>>], data)
Feed(p, data) == Consume([p EXCEPT !.backBuffer = <<>>], p.backBuffer \o data)
-----------------------------------------------------------------------------
VARIABLES parser,     \* the parser of the ClientBase
          document,   \* what the server sends on this stream
          sent,       \* how many units of it have arrived
          error,      \* feed has returned a position: the stream is closed
          before,     \* history: how many tags were handled on the streams before
          between,    \* history: the stream before ended between two tags
          streams     \* streams opened

vars == <<parser, document, sent, error, before, between, streams>>

Init ==
    /\ parser = NewParser /\ document \in Documents
    /\ sent = 0 /\ error = FALSE /\ before = 0 /\ between = TRUE /\ streams = 1

\* The connection delivers what it has received.  A parse error closes it.
Receive ==
    /\ ~error
    /\ \E upto \in sent + 1 .. Len(document) :
        LET fed == Feed(parser, SubSeq(document, sent + 1, upto))
        IN  /\ parser' = fed.p /\ error' = fed.error
            /\ sent' = upto
    /\ UNCHANGED <<document, before, between, streams>>

\* The connection is lost, or was closed for an error, and the client connects
\* again: the same parser reads the new stream, and nothing has reset it.
Reconnect ==
    /\ streams < MaxStreams
    /\ streams' = streams + 1
    /\ document' \in Following[document]
    /\ sent' = 0 /\ error' = FALSE
    /\ before' = Len(parser.handled)
    /\ between' = (~error /\ parser.root = <<>> /\ parser.state \in {"Initial", "InterTag"})
    /\ UNCHANGED parser

Next == Receive \/ Reconnect
Spec == Init /\ [][Next]_vars
-----------------------------------------------------------------------------
(***************************************************************************)
(* Properties.                                                             *)
(***************************************************************************)
States == {"Initial", "InterTag", "TagOpening", "TagCDATASection", "TagNameCollect",
           "TagInside", "TagOpeningSlash", "TagClosingSlash", "TagClosing",
           "TagNameComplete", "TagAttribute", "TagAttributeComplete", "TagAttributeEqual",
           "TagAttributeValue", "TagNameAlmostComplete"}

\* What the handler gets of a stream does not depend on where the connection cut
\* it, well-formed or not, and neither does whether an error is found.
SplitIndependent ==
    LET whole == Feed(NewParser, SubSeq(document, 1, sent))
    IN  streams = 1 => /\ whole.p.handled = parser.handled
                       /\ error => whole.error
                       /\ whole.error => error

\* A connection that is lost between two tags, behind the end of the stream for
\* one, leaves nothing in the parser that the next stream would see.
NextStreamFresh ==
    between => LET fresh == Feed(NewParser, SubSeq(document, 1, sent))
               IN  /\ SubSeq(parser.handled, before + 1, Len(parser.handled)) = fresh.p.handled
                   /\ error = fresh.error

\* A tag reaches the handler whole: its openings and closings match.  What is handed
\* over before it is whole ends with the opening of a tag called stream, and its root
\* is in the namespace of a stream: the header, and any such root with a child of that
\* name, which the handler gets as far as it has come.
Depth(tag) == Cardinality({k \in DOMAIN tag : tag[k].kind = "open"})
                - Cardinality({k \in DOMAIN tag : tag[k].kind = "close"})
InStreamNamespace(opening) ==
    \/ opening.prefix = <<"stream">>
    \/ \E k \in DOMAIN opening.attribs :
        LET a == opening.attribs[k]
        IN  /\ a.value = <<XMLNS_STREAM>>
            /\ IF opening.prefix = <<>> THEN a.prefix = <<>> /\ a.name = <<XMLNS>>
               ELSE a.prefix = <<XMLNS>> /\ a.name = opening.prefix
HandledWhole ==
    \A n \in DOMAIN parser.handled :
        LET tag == parser.handled[n]
            last == tag[Len(tag)]
        IN  /\ \A k \in 1 .. Len(tag) - 1 : Depth(SubSeq(tag, 1, k)) > 0
            /\ Depth(tag) # 0 => /\ last.kind = "open" /\ last.name = <<"stream">>
                                 /\ InStreamNamespace(tag[1])
=============================================================================
