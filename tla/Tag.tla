---------------------------- MODULE Tag ----------------------------
(* gloox's Tag (tag.cpp): an XML element with attributes, children and     *)
(* text, and the XPath-like search in it.                                  *)
(*                                                                         *)
(* An element is a value; a place in it is the path of child positions     *)
(* from the root, so an element's parent is the path without its last      *)
(* position.  Text is kept as one value: the order of text and children in *)
(* m_nodes matters to the printed form only, which no search looks at.     *)
(* An expression is a sequence of symbols, a name or a literal being one.  *)
(*                                                                         *)
(* Left out of the search: "..", which rewrites the tokens it evaluates,   *)
(* parentheses and arithmetic, and a position below the second step        *)
(* ("a/b/c[1]"), whose token the parser puts below two parents and deletes *)
(* twice.                                                                  *)
EXTENDS Integers, SequencesExt

NoTag == [name |-> "", attrs |-> <<>>, kids |-> <<>>, cdata |-> ""]

(* addAttribute() refuses an empty value, addChild() a null child. *)
NewTag(name, attributes, children, text) ==
    [name |-> name,
     attrs |-> [a \in {b \in DOMAIN attributes : attributes[b] /= ""}
                  |-> attributes[a]],
     kids |-> SelectSeq(children, LAMBDA c : c.name /= ""),
     cdata |-> text]

hasAttribute(t, a) == a \in DOMAIN t.attrs

findAttribute(t, a) == IF hasAttribute(t, a) THEN t.attrs[a] ELSE ""

(* A namespace is the element's own: none is inherited. *)
xmlns(t) == findAttribute(t, "xmlns")

findChildren(t, name) == SelectSeq(t.kids, LAMBDA c : c.name = name)

findChild(t, name) ==
    LET found == findChildren(t, name) IN IF found = <<>> THEN NoTag ELSE Head(found)

hasChild(t, name) == findChildren(t, name) /= <<>>

(* findChild( name, "xmlns", ns ). *)
findChildNs(t, name, ns) ==
    LET found == SelectSeq(t.kids, LAMBDA c : c.name = name /\ xmlns(c) = ns)
    IN  IF found = <<>> THEN NoTag ELSE Head(found)

At(root, path) ==
    LET at[n \in 0..Len(path)] == IF n = 0 THEN root ELSE at[n - 1].kids[path[n]]
    IN  at[Len(path)]

-----------------------------------------------------------------------------
(* The tokens of an expression.  The parser walks the symbols with the     *)
(* root of the tokens so far, the path to the token last added, the name   *)
(* being collected and the type it will have; "[" and the operators call   *)
(* it again with the symbol that will end the inner part, the border.      *)
NoToken == [name |-> "", type |-> "None", kids |-> <<>>, predicate |-> FALSE]

Fresh(at) == [root |-> NoToken, current |-> <<>>, token |-> "",
              type |-> "Element", len |-> at]

Numbers == [n \in {"1", "2", "3"} |-> CHOOSE k \in 1..3 : n = <<"1", "2", "3">>[k]]

RECURSIVE Graft(_, _, _)
Graft(token, path, arg) ==
    IF path = <<>> THEN [token EXCEPT !.kids = Append(@, arg)]
    ELSE [token EXCEPT !.kids[Head(path)] = Graft(@, Tail(path), arg)]

addToken(s, type, name) ==
    LET new == [NoToken EXCEPT !.name = name,
                               !.type = IF name \in DOMAIN Numbers THEN "Integer"
                                        ELSE type]
    IN  IF s.root = NoToken THEN [s EXCEPT !.root = new]
        ELSE [s EXCEPT !.root = Graft(@, s.current, new),
                       !.current = Append(@, Len(At(s.root, @).kids) + 1)]

closePreviousToken(s) ==
    IF s.token = "" THEN s
    ELSE [addToken(s, s.type, s.token) EXCEPT !.type = "Element", !.token = ""]

addOperator(s, arg, type) ==
    [s EXCEPT !.root = [NoToken EXCEPT !.type = type, !.kids = <<s.root, arg>>],
              !.current = <<>>]

(* A number goes between the token and its parent, anything else below it. *)
addPredicate(s, token) ==
    IF s.root = NoToken THEN s
    ELSE IF token.type /= "Integer"
         THEN [s EXCEPT !.root = Graft(@, s.current, [token EXCEPT !.predicate = TRUE])]
    ELSE IF s.current = <<>>
         THEN [s EXCEPT !.root = [token EXCEPT !.kids = <<s.root>>], !.current = <<1>>]
    ELSE [s EXCEPT !.root.kids =
                       Append(SelectSeq(@, LAMBDA k : k /= At(s.root, s.current)),
                              [token EXCEPT !.kids = <<At(s.root, s.current)>>]),
                   !.current = <<Len(s.root.kids), 1>>]

(* getType(), and the order of the enumeration TokenType. *)
Operators == ("=" :> "OperatorEq") @@ ("|" :> "Union")
Rank == [None |-> 0, RightBracket |-> 1, OperatorEq |-> 2, Union |-> 3]

RECURSIVE parseFrom(_, _, _)
parseFrom(expression, s, border) ==
    LET c == expression[s.len]
        literal == s.type = "LiteralInside" /\ c /= "'"
        operator == c \in DOMAIN Operators /\ ~ literal
        closed == closePreviousToken(s)
        inner == parseFrom(expression, Fresh(s.len + 1),
                           IF c = "[" THEN "RightBracket" ELSE Operators[c])
        done == [addOperator(closed, inner.root, Operators[c]) EXCEPT !.len = inner.len]
        step ==
            IF literal THEN [s EXCEPT !.token = c]
            ELSE CASE c = "/" ->
                        IF s.len < Len(expression) /\ expression[s.len + 1] = "/"
                        THEN [closed EXCEPT !.type = "DoubleSlash", !.len = @ + 1]
                        ELSE closed
                 [] c = "[" -> [addPredicate(closed, inner.root) EXCEPT !.len = inner.len]
                 [] c = "'" -> [s EXCEPT !.type = IF @ = "LiteralInside" THEN "Literal"
                                                  ELSE "LiteralInside"]
                 [] c = "@" -> [s EXCEPT !.type = "Attribute"]
                 [] c = "." -> [s EXCEPT !.token = c, !.type = "Dot"]
                 [] c = "*" -> [addToken(s, s.type, c) EXCEPT !.type = "Element"]
                 [] operator -> done
                 [] OTHER -> [s EXCEPT !.token = c]
    IN  IF \/ s.len > Len(expression)
           \/ c = "]" /\ ~ literal
           \/ operator /\ Rank[Operators[c]] <= Rank[border]
        THEN closed
        ELSE IF operator /\ border = "RightBracket" THEN done
        ELSE parseFrom(expression, [step EXCEPT !.len = @ + 1], border)

parse(expression) == parseFrom(expression, Fresh(1), "None").root

-----------------------------------------------------------------------------
(* The places an expression's tokens find, in order, none twice. *)

(* mutant: the lists are only joined *)
addAgain(one, two) == one \o two

add(one, two) ==
    FoldLeft(LAMBDA found, p : IF Contains(found, p) THEN found ELSE Append(found, p),
             one, two)

RECURSIVE allDescendants(_, _)
allDescendants(root, path) ==
    FoldLeft(LAMBDA found, i : LET p == Append(path, i)
                               IN  found \o <<p>> \o allDescendants(root, p),
             <<>>, [i \in DOMAIN At(root, path).kids |-> i])

evaluateEquals(t, token) ==
    LET one == token.kids[1] two == token.kids[2]
        Constant(k) == k.type \in {"Integer", "Literal"}
    IN  /\ Len(token.kids) = 2
        /\ \/ one.type = "Attribute" /\ Constant(two) /\ findAttribute(t, one.name) = two.name
           \/ Constant(one) /\ two.type = "Attribute" /\ findAttribute(t, two.name) = one.name
           \/ Constant(one) /\ Constant(two) /\ one.name = two.name
           \/ /\ one.type = "Attribute" /\ two.type = "Attribute"
              /\ hasAttribute(t, one.name) /\ hasAttribute(t, two.name)
              /\ findAttribute(t, one.name) = findAttribute(t, two.name)

RECURSIVE evaluateTagList(_, _, _)

(* An element in a predicate is looked for in the place itself. *)
evaluateBoolean(root, path, token) ==
    LET t == At(root, path)
    IN  CASE token.type = "Attribute" ->
                 \/ token.name = "*" /\ DOMAIN t.attrs /= {}
                 \/ hasAttribute(t, token.name)
          [] token.type = "OperatorEq" -> evaluateEquals(t, token)
          [] token.type \in {"Union", "Element"} -> evaluateTagList(root, path, token) /= <<>>
          [] OTHER -> FALSE

evaluateTagList(root, path, token) ==
    LET t == At(root, path)
        below == [i \in DOMAIN t.kids |-> Append(path, i)]
        steps == SelectSeq(token.kids, LAMBDA k : ~ k.predicate)
        All(places, k) ==
            FoldLeft(LAMBDA found, p : add(found, evaluateTagList(root, p, k)), <<>>, places)
    IN  CASE token.type = "Union" ->
                 FoldLeft(LAMBDA found, k : add(found, evaluateTagList(root, path, k)),
                          <<>>, token.kids)
          [] token.type = "Element" ->
                 IF \/ token.name \notin {t.name, "*"}
                    \/ \E i \in DOMAIN token.kids :
                          token.kids[i].predicate /\ ~ evaluateBoolean(root, path, token.kids[i])
                 THEN <<>>
                 ELSE IF steps = <<>> THEN <<path>>
                 ELSE FoldLeft(LAMBDA found, k : add(found, All(below, k)), <<>>, steps)
          [] token.type = "DoubleSlash" ->
                 All(<<path>> \o allDescendants(root, path), [token EXCEPT !.type = "Element"])
          [] token.type = "Dot" ->
                 IF token.kids = <<>> THEN <<path>>
                 ELSE evaluateTagList(root, path, Head(token.kids))
          [] token.type = "Integer" /\ token.kids /= <<>> ->
                 LET found == evaluateTagList(root, path, Head(token.kids))
                     pos == Numbers[token.name]
                 IN  IF pos <= Len(found) THEN <<found[pos]>> ELSE <<>>
          [] OTHER -> <<>>

(* A single leading "/" climbs to the root, wherever the search begins; the *)
(* first name is that of the place itself.                                  *)
findTagListBy(root, path, expression, tokens) ==
    LET climbs == /\ Len(expression) >= 2
                  /\ expression[1] = "/" /\ expression[2] /= "/"
    IN  IF expression \in {<<"/">>, <<"/", "/">>} THEN <<>>
        ELSE evaluateTagList(root, IF climbs THEN <<>> ELSE path, tokens)

findTagList(root, path, expression) ==
    findTagListBy(root, path, expression, parse(expression))

findTag(root, path, expression) ==
    LET found == findTagList(root, path, expression)
    IN  IF found = <<>> THEN NoTag ELSE At(root, Head(found))
=============================================================================
