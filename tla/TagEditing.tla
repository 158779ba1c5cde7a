---------------------------- MODULE TagEditing ----------------------------
(* The editing half of gloox's Tag (tag.cpp): elements in memory, built and *)
(* changed by an application, copied, compared and printed.                 *)
(*                                                                         *)
(* An element is an object: tags maps the addresses used so far to their    *)
(* contents.  Children and texts are kept twice, in lists of their own and  *)
(* in the list of nodes that has their order.  A list that was once made    *)
(* stays when it is emptied, and operator== tells it from one never made:   *)
(* lists names those an element has.  A text that is not valid XML stands   *)
(* as "bad".                                                                *)
(*                                                                         *)
(* Left out: Attribute( Tag*, ... ), which deletes itself while it is       *)
(* constructed, the private Tag( Tag* ), and numbers as values.             *)
EXTENDS Integers, SequencesExt

CONSTANTS Names,        \* names of elements
          Values,       \* values of attributes, and texts
          Namespaces, NsPrefixes,
          MaxTags,      \* addresses
          MaxEdits      \* calls after the first element is built

TagEditingAssumption ==
    /\ "" \notin Names \cup NsPrefixes
    /\ MaxTags \in Nat \ {0, 1} /\ MaxEdits \in Nat

VARIABLES tags,       \* the elements
          created,    \* addresses given out
          edits,      \* calls made
          hung,       \* a call that never returns was made
          detached    \* removed by pointer: kept by the application (history)

vars == <<tags, created, edits, hung, detached>>

checkValidXMLChars(text) == text /= "bad"

NoTag == [alive |-> FALSE, parent |-> 0, name |-> "", prefix |-> "", xmlns |-> "",
          xmlnss |-> <<>>, attribs |-> <<>>, children |-> <<>>, cdata |-> <<>>,
          nodes |-> <<>>, lists |-> {}]

-----------------------------------------------------------------------------
(* Attributes and namespaces. *)

NewAttribute(name, value, ns) ==
    LET known == checkValidXMLChars(ns)
        worth == known /\ checkValidXMLChars(value)
    IN  [name |-> IF worth /\ checkValidXMLChars(name) THEN name ELSE "",
         value |-> IF worth THEN value ELSE "",
         xmlns |-> IF known THEN ns ELSE "", prefix |-> "", parent |-> 0]

findAttribute(h, t, name) ==
    LET at == SelectInSeq(h[t].attribs, LAMBDA a : a.name = name)
    IN  IF at = 0 THEN "" ELSE h[t].attribs[at].value

(* The default namespace is the element's own; only prefixes are looked up *)
(* in the parents.                                                         *)
RECURSIVE xmlns(_, _, _)
xmlns(h, t, prefix) ==
    IF prefix = ""
    THEN IF \E i \in DOMAIN h[t].attribs : h[t].attribs[i].name = "xmlns"
         THEN findAttribute(h, t, "xmlns") ELSE h[t].xmlns
    ELSE IF prefix \in DOMAIN h[t].xmlnss THEN h[t].xmlnss[prefix]
    ELSE IF h[t].parent /= 0 THEN xmlns(h, h[t].parent, prefix)
    ELSE ""

prefixOf(h, t, ns) ==
    LET declared == {p \in DOMAIN h[t].xmlnss : h[t].xmlnss[p] = ns}
    IN  IF ns = "" \/ declared = {} THEN "" ELSE CHOOSE p \in declared : TRUE

attributeXmlns(h, a) ==
    IF a.xmlns /= "" THEN a.xmlns
    ELSE IF a.parent /= 0 THEN xmlns(h, a.parent, a.prefix) ELSE ""

attributePrefix(h, a) ==
    IF a.prefix /= "" THEN a.prefix
    ELSE IF a.parent /= 0 THEN prefixOf(h, a.parent, a.xmlns) ELSE ""

SameAttribute(h, a, b) ==
    /\ a.name = b.name
    /\ \/ attributeXmlns(h, a) = attributeXmlns(h, b)
       \/ attributePrefix(h, a) = attributePrefix(h, b)

addAttribute(h, t, attr) ==
    LET at == SelectInSeq(h[t].attribs, LAMBDA a : SameAttribute(h, a, attr))
    IN  IF attr.name = "" THEN h
        ELSE IF at /= 0 THEN [h EXCEPT ![t].attribs[at] = attr]
        ELSE [h EXCEPT ![t].attribs = Append(@, attr), ![t].lists = @ \cup {"attribs"}]

addAttributeText(h, t, name, value) ==
    IF name = "" \/ value = "" THEN h ELSE addAttribute(h, t, NewAttribute(name, value, ""))

setXmlns(h, t, ns, prefix) ==
    IF ~ checkValidXMLChars(ns) \/ ~ checkValidXMLChars(prefix) THEN h
    ELSE IF prefix = ""
         THEN addAttributeText([h EXCEPT ![t].xmlns = ns], t, "xmlns", ns)
    ELSE addAttributeText([h EXCEPT ![t].xmlnss = (prefix :> ns) @@ @], t,
                          "xmlns:" \o prefix, ns)

(* Each attribute is looked at with those before it already gone. *)
removeAttribute(h, t, name, value, ns) ==
    FoldLeft(LAMBDA g, a : IF /\ a.name = name
                              /\ value = "" \/ a.value = value
                              /\ ns = "" \/ attributeXmlns(g, a) = ns
                           THEN [g EXCEPT ![t].attribs = RemoveFirst(@, a)] ELSE g,
             h, h[t].attribs)

-----------------------------------------------------------------------------
(* Children and texts. *)

addChild(h, t, c) ==
    [h EXCEPT ![t].children = Append(@, c),
              ![t].nodes = Append(@, [type |-> "Tag", tag |-> c, str |-> ""]),
              ![t].lists = @ \cup {"children"},
              ![c].parent = t]

addCData(h, t, text) ==
    IF text = "" \/ ~ checkValidXMLChars(text) THEN h
    ELSE [h EXCEPT ![t].cdata = Append(@, text),
                   ![t].nodes = Append(@, [type |-> "String", tag |-> 0, str |-> text]),
                   ![t].lists = @ \cup {"cdata"}]

(* The loop that takes the texts out of the nodes goes on only when it has *)
(* taken one: it stands for ever before the first child.                   *)
ClearedReturns(h, t) == h[t].children = <<>>

setCData(h, t, text) ==
    LET upTo == SelectInSeq(h[t].nodes, LAMBDA n : n.type = "Tag")
        rest == IF upTo = 0 THEN <<>> ELSE SubSeq(h[t].nodes, upTo, Len(h[t].nodes))
        cleared == [h EXCEPT ![t].cdata = <<>>, ![t].nodes = rest,
                             ![t].lists = @ \cup {"cdata"}]
    IN  IF text = "" \/ ~ checkValidXMLChars(text) THEN h
        ELSE IF ClearedReturns(h, t) THEN addCData(cleared, t, text) ELSE cleared

RECURSIVE Deleted(_, _)
Deleted(h, t) == [FoldLeft(Deleted, h, h[t].children) EXCEPT ![t] = NoTag]

(* mutant: only the list of children is cleared *)
WithoutChildOnly(h, t, c) == [h EXCEPT ![t].children = Remove(@, c)]

WithoutChild(h, t, c) ==
    LET at == SelectInSeq(h[t].nodes, LAMBDA n : n.type = "Tag" /\ n.tag = c)
    IN  [h EXCEPT ![t].children = Remove(@, c),
                  ![t].nodes = IF at = 0 THEN @ ELSE RemoveAt(@, at)]

findChildren(h, t, name, ns) ==
    SelectSeq(h[t].children, LAMBDA c : /\ h[c].name = name
                                        /\ ns = "" \/ xmlns(h, c, h[c].prefix) = ns)

removeChildren(h, t, name, ns) ==
    FoldLeft(LAMBDA g, c : Deleted(WithoutChild(g, t, c), c), h, findChildren(h, t, name, ns))

-----------------------------------------------------------------------------
(* Copies, comparison and text.  A copy takes the addresses after those    *)
(* given out.                                                              *)

Heap(h, n) == [tags |-> h, created |-> n]

Copy(o, id) ==
    [NoTag EXCEPT !.alive = TRUE, !.name = o.name, !.prefix = o.prefix, !.xmlns = o.xmlns,
                  !.xmlnss = o.xmlnss, !.lists = o.lists \cap {"attribs"},
                  !.attribs = [i \in DOMAIN o.attribs |-> [o.attribs[i] EXCEPT !.parent = id]]]

RECURSIVE clone(_, _)
clone(s, t) ==
    LET id == s.created + 1
        copyNode(g, n) ==
            IF n.type = "String" THEN [g EXCEPT !.tags = addCData(@, id, n.str)]
            ELSE [clone(g, n.tag) EXCEPT !.tags = addChild(@, id, g.created + 1)]
    IN  FoldLeft(copyNode, Heap([s.tags EXCEPT ![id] = Copy(s.tags[t], id)], id),
                 s.tags[t].nodes)

RECURSIVE Size(_, _)
Size(h, t) == FoldLeft(LAMBDA n, c : n + Size(h, c), 1, h[t].children)

(* operator==: the right side may go on where the left one ends. *)
EqualAttributes(a, b) == a.name = b.name /\ a.value = b.value /\ a.xmlns = b.xmlns

RECURSIVE EqualTags(_, _, _)
EqualTags(h, l, r) ==
    /\ h[l].name = h[r].name /\ h[l].xmlns = h[r].xmlns
    /\ h[l].lists = h[r].lists
    /\ IsPrefix(h[l].cdata, h[r].cdata)
    /\ Len(h[l].children) <= Len(h[r].children)
    /\ \A i \in DOMAIN h[l].children : EqualTags(h, h[l].children[i], h[r].children[i])
    /\ Len(h[l].attribs) <= Len(h[r].attribs)
    /\ \A i \in DOMAIN h[l].attribs : EqualAttributes(h[l].attribs[i], h[r].attribs[i])

Qualified(prefix, name) == IF prefix = "" THEN name ELSE prefix \o ":" \o name

PrintedAttributes(h, t) ==
    FoldLeft(LAMBDA xml, a : xml \o <<" ", Qualified(a.prefix, a.name), a.value>>,
             <<>>, h[t].attribs)

RECURSIVE Printed(_, _)
Printed(h, t) ==
    LET name == Qualified(h[t].prefix, h[t].name)
        node(xml, n) == xml \o IF n.type = "Tag" THEN Printed(h, n.tag) ELSE <<n.str>>
    IN  IF h[t].name = "" THEN <<>>
        ELSE <<"<", name>> \o PrintedAttributes(h, t)
             \o IF h[t].nodes = <<>> THEN <<"/>">>
                ELSE FoldLeft(node, <<">">>, h[t].nodes) \o <<"</", name, ">">>

-----------------------------------------------------------------------------
(* The application: an element with a prefix declared and one child, then *)
(* any calls.  It does not put an element into two places, nor below     *)
(* itself (a parent that it was taken from still counts as one above it),  *)
(* and deletes only what no element owns.                                  *)

Alive == {t \in 1..created : tags[t].alive}
Owned(h, c) == \E t \in 1..created : c \in Range(h[t].children)
RECURSIVE Above(_)
Above(t) == IF tags[t].parent = 0 THEN {t} ELSE {t} \cup Above(tags[t].parent)

Texts == Values \cup {"", "bad"}

NewTag(h, t, parent, name) ==
    LET made == [h EXCEPT ![t] = [NoTag EXCEPT !.alive = TRUE, !.name = name]]
    IN  IF parent = 0 THEN made ELSE addChild(made, parent, t)

Init ==
    /\ created = 2 /\ edits = 0 /\ hung = FALSE /\ detached = {}
    /\ \E name \in Names, ns \in Namespaces, p \in NsPrefixes \cup {""} :
          LET none == [t \in 1..MaxTags |-> NoTag]
          IN  tags = addCData(NewTag(setXmlns(NewTag(none, 1, 0, name), 1, ns, p), 2, 1, name),
                              2, CHOOSE v \in Values : TRUE)

Edit(h) == tags' = h /\ UNCHANGED <<created, hung, detached>>
Grow(s) == tags' = s.tags /\ created' = s.created /\ UNCHANGED <<hung, detached>>

CreateWithText(parent, name, text) ==
    /\ created < MaxTags
    /\ Grow(Heap(addCData(NewTag(tags, created + 1, parent,
                                 IF checkValidXMLChars(name) THEN name ELSE ""),
                          created + 1, text), created + 1))

(* The name is set before it is looked at. *)
CreateWithAttribute(parent, name, value) ==
    /\ created < MaxTags
    /\ Grow(Heap(addAttributeText(NewTag(tags, created + 1, parent, name),
                                  created + 1, "x", value), created + 1))

AddAttribute(t, value, ns) ==
    Edit(IF ns = "" THEN addAttributeText(tags, t, "x", value)
         ELSE addAttribute(tags, t, NewAttribute("x", value, ns)))

SetXmlns(t, ns, prefix) == Edit(setXmlns(tags, t, ns, prefix))

SetPrefix(t, prefix) ==
    IF checkValidXMLChars(prefix) THEN Edit([tags EXCEPT ![t].prefix = prefix])
    ELSE Edit(tags)

(* The attributes are taken over as they are, whatever they are called. *)
SetAttributes(t, value, ns) ==
    Edit([tags EXCEPT ![t].attribs = <<[NewAttribute("x", value, ns) EXCEPT !.parent = t]>>,
                      ![t].lists = @ \cup {"attribs"}])

EditAttribute(t, i, field, value) ==
    /\ i \in DOMAIN tags[t].attribs
    /\ checkValidXMLChars(value)
    /\ Edit([tags EXCEPT ![t].attribs[i][field] = value])

AddChild(t, c) ==
    /\ ~ Owned(tags, c) /\ c \notin Above(t)
    /\ tags' = addChild(tags, t, c) /\ detached' = detached \ {c}
    /\ UNCHANGED <<created, hung>>

AddChildCopy(t, c) ==
    /\ created + Size(tags, c) <= MaxTags
    /\ LET copied == clone(Heap(tags, created), c)
       IN  Grow([copied EXCEPT !.tags = addChild(@, t, created + 1)])

SetCData(t, text) ==
    /\ tags' = setCData(tags, t, text)
    /\ hung' = (checkValidXMLChars(text) /\ text /= "" /\ ~ ClearedReturns(tags, t))
    /\ UNCHANGED <<created, detached>>

AddCData(t, text) == Edit(addCData(tags, t, text))

RemoveChildren(t, name, ns) == Edit(removeChildren(tags, t, name, ns))

RemoveChild(t, c) ==
    /\ c \in Range(tags[t].children)
    /\ tags' = WithoutChild(tags, t, c) /\ detached' = detached \cup {c}
    /\ UNCHANGED <<created, hung>>

RemoveAttribute(t, name, value, ns) ==
    Edit(removeAttribute(tags, t, name, value, ns))

Clone(t) ==
    /\ created + Size(tags, t) <= MaxTags
    /\ Grow(clone(Heap(tags, created), t))

(* What was detached from it keeps its address as its parent's. *)
Delete(t) == ~ Owned(tags, t) /\ Edit(Deleted(tags, t))

Change(t) ==
    \/ \E v \in Texts : SetCData(t, v) \/ AddCData(t, v)
    \/ \E v \in Texts, ns \in Namespaces \cup {""} : AddAttribute(t, v, ns)
    \/ \E v \in Values, ns \in Namespaces \cup {""} : SetAttributes(t, v, ns)
    \/ \E v \in Values \cup {""}, ns \in Namespaces \cup {""} :
          RemoveAttribute(t, "x", v, ns)
    \/ \E ns \in Namespaces, p \in NsPrefixes \cup {"", "bad"} : SetXmlns(t, ns, p)
    \/ \E p \in NsPrefixes \cup {"", "bad"} : SetPrefix(t, p)
    \/ \E v \in Values : EditAttribute(t, 1, "value", v)
    \/ \E ns \in Namespaces : EditAttribute(t, 1, "xmlns", ns)
    \/ \E p \in NsPrefixes : EditAttribute(t, 1, "prefix", p)
    \/ \E n \in Names, ns \in Namespaces \cup {""} : RemoveChildren(t, n, ns)
    \/ \E c \in Alive : AddChild(t, c) \/ AddChildCopy(t, c) \/ RemoveChild(t, c)

(* An element that is used has no parent that is gone. *)
Usable(t) == tags[t].parent \in {0} \cup Alive

Next ==
    \/ /\ ~ hung /\ edits < MaxEdits
       /\ edits' = edits + 1
       /\ \/ \E parent \in {0} \cup Alive, n \in Names \cup {"bad"}, v \in Texts :
                CreateWithText(parent, n, v)
          \/ \E parent \in {0} \cup Alive, n \in Names, v \in Texts :
                CreateWithAttribute(parent, n, v)
          \/ \E t \in Alive : Usable(t) /\ (Change(t) \/ Clone(t) \/ Delete(t))
    \/ (hung \/ edits = MaxEdits) /\ UNCHANGED vars

Spec == Init /\ [][Next]_vars

-----------------------------------------------------------------------------
TypeOK ==
    /\ created \in 2..MaxTags /\ edits \in 0..MaxEdits /\ hung \in BOOLEAN
    /\ detached \subseteq 1..MaxTags
    /\ DOMAIN tags = 1..MaxTags

(* The two records of what an element holds agree (tag.cpp:423-492,         *)
(* 727-778): the nodes are its children and its texts, in the order of      *)
(* either list.                                                             *)
NodesAgree ==
    \A t \in Alive :
        LET of(type) == SelectSeq(tags[t].nodes, LAMBDA n : n.type = type)
        IN  hung \/ /\ tags[t].children = [i \in DOMAIN of("Tag") |-> of("Tag")[i].tag]
                    /\ tags[t].cdata = [i \in DOMAIN of("String") |-> of("String")[i].str]

(* Every child is there, is in one place and knows its parent; whoever     *)
(* thinks it has a parent is its child, or was taken from it by pointer    *)
(* (or copied attributes' element went: tag.cpp:762-778).                  *)
OwnedOnce ==
    /\ \A t \in Alive : \A i \in DOMAIN tags[t].children :
          LET c == tags[t].children[i]
          IN  /\ c \in Alive /\ tags[c].parent = t
              /\ \A u \in Alive : \A j \in DOMAIN tags[u].children :
                    tags[u].children[j] = c => u = t /\ j = i
    /\ \A t \in Alive : tags[t].parent /= 0 /\ t \notin detached
          => t \in Range(tags[tags[t].parent].children)

(* A copy prints as its original does (tag.cpp:670-707), and compares equal *)
(* both ways unless a list of the original, or of something in it, was      *)
(* emptied, which makes it differ from one never made.                      *)
RECURSIVE HasEmptied(_)
HasEmptied(t) == \/ "children" \in tags[t].lists /\ tags[t].children = <<>>
                 \/ \E i \in DOMAIN tags[t].children : HasEmptied(tags[t].children[i])
CopiesEqual ==
    \A t \in Alive :
        created + Size(tags, t) <= MaxTags =>
            LET copied == clone(Heap(tags, created), t).tags
            IN  /\ Printed(copied, created + 1) = Printed(tags, t)
                /\ hung \/ HasEmptied(t) \/ /\ EqualTags(copied, t, created + 1)
                                            /\ EqualTags(copied, created + 1, t)

(* No attribute is printed twice (tag.cpp:339-369: one of the same name is *)
(* replaced) unless it was given a namespace of its own, for which the     *)
(* element it is copied into may have a prefix that is not printed.        *)
AttributesOnce ==
    \A t \in Alive : \A i, j \in DOMAIN tags[t].attribs :
        LET a == tags[t].attribs[i]
            b == tags[t].attribs[j]
        IN  Qualified(a.prefix, a.name) = Qualified(b.prefix, b.name)
            /\ a.xmlns = "" /\ b.xmlns = "" => i = j

TagsWhole == NodesAgree /\ OwnedOnce /\ CopiesEqual /\ AttributesOnce

(* Every call returns (tag.cpp:444-473): setCData() is said to set the text *)
(* and to return (tag.h:374-379), but does not come back from an element    *)
(* that has a child.                                                       *)
EditsReturn == ~ hung
=============================================================================
