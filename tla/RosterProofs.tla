---------------------------- MODULE RosterProofs ----------------------------
(***************************************************************************)
(* Proof that the client's roster is the server's whenever nothing is under*)
(* way, and that no edit is lost, for any contacts, names and number of    *)
(* operations, events and connections.                                     *)
(*                                                                         *)
(* The invariant says what the client will come to have: the last push of a*)
(* contact under way is what the server has of it, and the last presence   *)
(* what it shows; without one the client has it already.                   *)
(***************************************************************************)
EXTENDS Roster, SequenceTheorems, FiniteSetTheorems, WellFoundedInduction, TLAPS

AllNames == Names \cup {NoName}
Data == [name : AllNames, to : BOOLEAN, from : BOOLEAN, ask : BOOLEAN]
Items == [name : AllNames, to : BOOLEAN, from : BOOLEAN, ask : BOOLEAN,
          changed : BOOLEAN, shown : BOOLEAN]
Entries == [listed : BOOLEAN, name : AllNames, to : BOOLEAN, from : BOOLEAN, ask : BOOLEAN,
            pending : BOOLEAN, online : BOOLEAN]
Tables(S) == UNION {[D -> S] : D \in SUBSET Contacts}
Kinds == {"subscribe", "unsubscribe", "subscribed", "unsubscribed"}
Requests ==
    [kind : {"get", "presence"}, contact : {Own}]
    \cup [kind : {"set"}, contact : Contacts, name : AllNames]
    \cup [kind : Kinds \cup {"remove"}, contact : Contacts]
News ==
    [kind : {"roster"}, error : BOOLEAN, items : Tables(Data)]
    \cup [kind : {"push"}, contact : Contacts, item : {<<>>} \cup {<<d>> : d \in Data}]
    \cup [kind : {"presence"}, contact : Contacts \cup {Own}, shown : BOOLEAN]
    \cup [kind : Kinds \cup {"result"}, contact : Contacts]

RosterTypes ==
    /\ client \in [sync : BOOLEAN, online : BOOLEAN, filled : BOOLEAN, items : Tables(Items),
                   self : BOOLEAN, told : SUBSET Contacts]
    /\ account \in [Contacts -> Entries]
    /\ session \in [available : BOOLEAN, interested : BOOLEAN, other : BOOLEAN]
    /\ up \in Seq(Requests) /\ down \in Seq(News)
    /\ history \in [stimuli : Nat, refused : BOOLEAN, stale : BOOLEAN,
                    edit : [Contacts -> AllNames]]

\* What the server has of a contact that is not listed.
Entered ==
    \A c \in Contacts :
        account[c].name # NoName \/ account[c].to \/ account[c].from \/ account[c].ask
            => account[c].listed

\* The phases of a connection: the roster is asked for, answered and filled, then the
\* presence is sent and served.
Offline ==
    ~client.online =>
        /\ up = <<>> /\ down = <<>> /\ ~client.filled
        /\ ~session.available /\ ~session.interested
        /\ \A c \in Contacts : history.edit[c] = NoName
Asking ==
    /\ up = <<[kind |-> "get", contact |-> Own]>> /\ down = <<>>
    /\ ~session.interested /\ ~history.refused
Answered ==
    /\ up = <<>> /\ down # <<>> /\ down[1].kind = "roster"
    /\ down[1].error <=> history.refused
    /\ session.interested <=> ~history.refused
    /\ \A i \in DOMAIN down : i # 1 => down[i].kind # "roster"
Filling ==
    client.online /\ ~client.filled =>
        /\ ~session.available /\ DOMAIN client.items = {}
        /\ Asking \/ Answered
Filled ==
    client.filled =>
        /\ client.online
        /\ session.interested <=> ~history.refused
        /\ \A i \in DOMAIN up : up[i].kind # "get"
        /\ \A i \in DOMAIN down : down[i].kind # "roster"
        /\ session.available \/ \E i \in DOMAIN up : up[i].kind = "presence"
        /\ session.interested => client.told = DOMAIN client.items
Unavailable ==
    client.online /\ ~session.available =>
        /\ \A i \in DOMAIN down : down[i].kind # "presence"
        /\ \A c \in DOMAIN client.items : ~client.items[c].shown
        /\ ~history.stale => ~client.self
Uninterested ==
    client.online /\ ~session.interested =>
        /\ \A i \in DOMAIN down : down[i].kind # "push"
        /\ DOMAIN client.items = {}
Phases == Offline /\ Filling /\ Filled /\ Unavailable /\ Uninterested

\* Stanzas of one kind and contact in a sequence.
At(s, i, kind, x) == s[i].kind = kind /\ s[i].contact = x
LastOf(s, i, kind, x) == At(s, i, kind, x) /\ \A j \in DOMAIN s : j > i => ~At(s, j, kind, x)
NoneOf(s, kind, x) == \A i \in DOMAIN s : ~At(s, i, kind, x)

\* The items: the last push is true, and without one the item is, or what the answer to the
\* first request says of it.
PushesTrue(c) ==
    \A i \in DOMAIN down : LastOf(down, i, "push", c) => down[i].item = PushOf(c, account[c]).item
ItemIsTrue(c) ==
    /\ c \in DOMAIN client.items <=> account[c].listed
    /\ c \in DOMAIN client.items =>
          /\ client.items[c].to = account[c].to /\ client.items[c].from = account[c].from
          /\ client.items[c].ask = account[c].ask
          /\ client.items[c].changed \/ client.items[c].name = account[c].name
AnswerTrue(c) ==
    /\ c \in DOMAIN down[1].items <=> account[c].listed
    /\ c \in DOMAIN down[1].items => down[1].items[c] = ItemOf(c)
ContactTrue(c) ==
    session.interested =>
        /\ PushesTrue(c)
        /\ NoneOf(down, "push", c) => IF client.filled THEN ItemIsTrue(c) ELSE AnswerTrue(c)

\* The presences: the same of the last presence.  A contact that is seen is an item of the
\* client from then on, when k of the stanzas under way will have been handled.
Seen(c) == account[c].to /\ account[c].online
Has(c, k) ==
    \/ c \in DOMAIN client.items /\ \A j \in 1 .. k : ~At(down, j, "push", c)
    \/ \E j \in 1 .. k : /\ At(down, j, "push", c) /\ down[j].item # <<>>
                         /\ \A m \in j + 1 .. k : ~At(down, m, "push", c)
PresenceTrue(c) ==
    session.available /\ session.interested =>
        /\ \A i \in DOMAIN down : LastOf(down, i, "presence", c) => down[i].shown = Seen(c)
        /\ NoneOf(down, "presence", c) /\ c \in DOMAIN client.items =>
              client.items[c].shown = Seen(c)
        /\ Seen(c) => \A k \in 0 .. Len(down) :
              (\A j \in k + 1 .. Len(down) : ~At(down, j, "presence", c)) => Has(c, k)
OwnTrue ==
    session.available /\ ~history.stale =>
        /\ \A i \in DOMAIN down : LastOf(down, i, "presence", Own) => down[i].shown = session.other
        /\ NoneOf(down, "presence", Own) => client.self = session.other

\* A request of a contact is on its way to a client that answers at once, or its answer
\* is to the server.
Answering == {"subscribed", "unsubscribed"}
RequestKept(c) ==
    session.available /\ client.sync /\ account[c].pending =>
        \/ \E i \in DOMAIN down : At(down, i, "subscribe", c)
        \/ \E i \in DOMAIN up : up[i].kind \in Answering /\ up[i].contact = c

\* Whatever comes of a contact that was edited has the name it was given.
EditTrue(c) ==
    history.edit[c] # NoName =>
        /\ c \in DOMAIN client.items /\ client.items[c].name = history.edit[c]
        /\ client.items[c].changed \/ account[c].name = history.edit[c]
        /\ \A i \in DOMAIN down : At(down, i, "push", c) =>
              /\ down[i].item # <<>> /\ down[i].item[1].name = history.edit[c]
              /\ account[c].name = history.edit[c]

ContactInv(c) == ContactTrue(c) /\ PresenceTrue(c) /\ RequestKept(c) /\ EditTrue(c)
RosterInv == Entered /\ Phases /\ OwnTrue /\ \A c \in Contacts : ContactInv(c)
-----------------------------------------------------------------------------
(***************************************************************************)
(* Sequences: what is taken off the front, and what is put behind.         *)
(***************************************************************************)
LEMMA TailIs ==
    ASSUME NEW S, NEW s \in Seq(S), s # <<>>
    PROVE  /\ Tail(s) \in Seq(S) /\ Len(s) \in Nat \ {0} /\ 1 \in DOMAIN s /\ s[1] \in S
           /\ \A i : i \in DOMAIN Tail(s) <=> i \in Nat /\ 1 <= i /\ i + 1 <= Len(s)
           /\ \A i : i \in DOMAIN s <=> i \in Nat /\ 1 <= i /\ i <= Len(s)
           /\ \A i \in DOMAIN Tail(s) : Tail(s)[i] = s[i + 1]
           /\ Len(Tail(s)) = Len(s) - 1
<1>1. Len(s) \in Nat \ {0} BY EmptySeq
<1>2. /\ Tail(s) \in Seq(S) /\ Len(Tail(s)) = Len(s) - 1
      /\ \A i \in 1 .. Len(Tail(s)) : Tail(s)[i] = s[i + 1]
  BY HeadTailProperties
<1>3. DOMAIN s = 1 .. Len(s) /\ DOMAIN Tail(s) = 1 .. Len(s) - 1 BY <1>2, LenProperties
<1>4. 1 \in 1 .. Len(s) BY <1>1
<1>5. s[1] \in S BY <1>4, ElementOfSeq
<1> QED BY <1>1, <1>2, <1>3, <1>4, <1>5

\* Where the elements of two joined sequences stand.
LEMMA JoinIs ==
    ASSUME NEW S, NEW s \in Seq(S), NEW t \in Seq(S)
    PROVE  /\ s \o t \in Seq(S) /\ Len(s) \in Nat /\ Len(t) \in Nat
           /\ Len(s \o t) = Len(s) + Len(t)
           /\ DOMAIN s = 1 .. Len(s) /\ DOMAIN t = 1 .. Len(t)
           /\ DOMAIN (s \o t) = 1 .. Len(s) + Len(t)
           /\ \A i \in DOMAIN s : (s \o t)[i] = s[i]
           /\ \A i \in DOMAIN t : (s \o t)[Len(s) + i] = t[i]
<1>1. /\ s \o t \in Seq(S) /\ Len(s \o t) = Len(s) + Len(t)
      /\ \A i \in 1 .. Len(s) + Len(t) : (s \o t)[i] = IF i <= Len(s) THEN s[i] ELSE t[i - Len(s)]
  BY ConcatProperties
<1>2. /\ Len(s) \in Nat /\ Len(t) \in Nat /\ DOMAIN s = 1 .. Len(s) /\ DOMAIN t = 1 .. Len(t)
      /\ DOMAIN (s \o t) = 1 .. Len(s) + Len(t)
  BY <1>1, LenProperties
<1> DEFINE q == s \o t
           n == Len(s)
           m == Len(t)
<1>3. \A i \in 1 .. n : q[i] = s[i] BY <1>1, <1>2
<1>4. ASSUME NEW i \in 1 .. m PROVE q[n + i] = t[i]
  <2>1. n + i \in 1 .. n + m /\ ~(n + i <= n) /\ (n + i) - n = i BY <1>2
  <2> QED BY <1>1, <2>1
<1> QED BY <1>1, <1>2, <1>3, <1>4

\* A sequence of one.
LEMMA OneStanza ==
    ASSUME NEW S, NEW x \in S
    PROVE  /\ <<x>> \in Seq(S) /\ Len(<<x>>) = 1 /\ DOMAIN <<x>> = {1} /\ <<x>>[1] = x
           /\ <<x>> # <<>> /\ Tail(<<x>>) = <<>>
<1>1. <<x>> \in Seq(S) /\ Len(<<x>>) = 1 /\ <<x>>[1] = x OBVIOUS
<1>2. DOMAIN <<x>> = 1 .. 1 BY <1>1, LenProperties
<1>3. <<x>> # <<>> BY <1>1, EmptySeq
<1>4. Tail(<<x>>) = <<>> OBVIOUS
<1> QED BY <1>1, <1>2, <1>3, <1>4

\* The empty sequence.
LEMMA NoStanza ==
    ASSUME NEW S
    PROVE  <<>> \in Seq(S) /\ Len(<<>>) = 0 /\ DOMAIN <<>> = {}
<1>1. <<>> \in Seq(S) /\ Len(<<>>) = 0 BY EmptySeq
<1>2. DOMAIN <<>> = 1 .. 0 BY <1>1, LenProperties
<1> QED BY <1>1, <1>2

\* Up to a place there is a last stanza of a kind, or none.
LEMMA LastUpTo ==
    ASSUME NEW S, NEW s \in Seq(S), NEW k \in 0 .. Len(s), NEW kind, NEW x
    PROVE  \/ \A i \in 1 .. k : ~At(s, i, kind, x)
           \/ \E i \in 1 .. k : At(s, i, kind, x) /\ \A j \in i + 1 .. k : ~At(s, j, kind, x)
<1> DEFINE d == {n \in 0 .. k - 1 : At(s, k - n, kind, x)}
<1>0. k \in Nat BY LenProperties
<1>1. SUFFICES ASSUME NEW h \in 1 .. k, At(s, h, kind, x)
               PROVE  \E i \in 1 .. k : /\ At(s, i, kind, x)
                                        /\ \A j \in i + 1 .. k : ~At(s, j, kind, x)
  OBVIOUS
<1>2. k - h \in d
  <2>1. k - h \in 0 .. k - 1 /\ k - (k - h) = h BY <1>0
  <2> QED BY <1>1, <2>1
<1>3. d \subseteq Nat BY <1>0
<1>4. PICK n \in d : \A m \in d : ~(<<m, n>> \in OpToRel(<, Nat))
  <2> HIDE DEF d
  <2> QED BY <1>2, <1>3, NatLessThanWellFounded, WFMin
<1>5. \A m \in d : ~(m < n) BY <1>3, <1>4 DEF OpToRel
<1> DEFINE i == k - n
<1>6. i \in 1 .. k /\ At(s, i, kind, x)
  <2>1. n \in 0 .. k - 1 /\ At(s, k - n, kind, x) OBVIOUS
  <2>2. k - n \in 1 .. k BY ONLY <2>1, <1>0
  <2> QED BY <2>1, <2>2
<1>7. ASSUME NEW j \in i + 1 .. k PROVE ~At(s, j, kind, x)
  <2>1. SUFFICES ASSUME At(s, j, kind, x) PROVE FALSE OBVIOUS
  <2>2. k - j \in 0 .. k - 1 /\ k - (k - j) = j /\ k - j < n BY <1>0, <1>6
  <2>3. k - j \in d BY <2>1, <2>2
  <2> QED BY <1>5, <2>2, <2>3
<1> QED BY <1>6, <1>7

\* What a queue without its head still holds of a kind.
LEMMA TailKinds ==
    ASSUME NEW S, NEW s \in Seq(S), s # <<>>, NEW kind, NEW x
    PROVE  /\ NoneOf(Tail(s), kind, x) => NoneOf(s, kind, x) \/ LastOf(s, 1, kind, x)
           /\ \A i \in DOMAIN Tail(s) :
                /\ i + 1 \in DOMAIN s /\ Tail(s)[i] = s[i + 1]
                /\ At(Tail(s), i, kind, x) <=> At(s, i + 1, kind, x)
                /\ LastOf(Tail(s), i, kind, x) => LastOf(s, i + 1, kind, x)
<1> DEFINE t == Tail(s)
<1>1. /\ Len(s) \in Nat \ {0} /\ 1 \in DOMAIN s
      /\ \A i : i \in DOMAIN t <=> i \in Nat /\ 1 <= i /\ i + 1 <= Len(s)
      /\ \A i : i \in DOMAIN s <=> i \in Nat /\ 1 <= i /\ i <= Len(s)
      /\ \A i \in DOMAIN t : t[i] = s[i + 1]
  BY TailIs
<1> HIDE DEF t
<1>2. \A i \in DOMAIN t : i + 1 \in DOMAIN s
  <2> TAKE i \in DOMAIN t
  <2>1. i \in Nat /\ 1 <= i /\ i + 1 <= Len(s) BY <1>1
  <2>2. i + 1 \in Nat /\ 1 <= i + 1 BY ONLY <2>1
  <2> QED BY ONLY <2>1, <2>2, <1>1
<1>3. \A i \in DOMAIN t : At(t, i, kind, x) <=> At(s, i + 1, kind, x) BY <1>1, <1>2 DEF At
<1>4. \A j \in DOMAIN s : j # 1 => j - 1 \in DOMAIN t /\ (j - 1) + 1 = j BY <1>1
<1>5. ASSUME NEW i \in DOMAIN t, LastOf(t, i, kind, x) PROVE LastOf(s, i + 1, kind, x)
  <2>1. At(s, i + 1, kind, x) BY <1>3, <1>5 DEF LastOf
  <2>2. ASSUME NEW j \in DOMAIN s, j > i + 1 PROVE ~At(s, j, kind, x)
    <3>1. j # 1 /\ j - 1 > i BY <1>1, <2>2
    <3>2. ~At(t, j - 1, kind, x) BY <3>1, <1>4, <1>5 DEF LastOf
    <3> QED BY <3>1, <3>2, <1>3, <1>4
  <2> QED BY <2>1, <2>2 DEF LastOf
<1>6. ASSUME NoneOf(t, kind, x) PROVE NoneOf(s, kind, x) \/ LastOf(s, 1, kind, x)
  <2>1. ASSUME NEW j \in DOMAIN s, j # 1 PROVE ~At(s, j, kind, x)
    <3>1. ~At(t, j - 1, kind, x) BY <2>1, <1>4, <1>6 DEF NoneOf
    <3> QED BY <2>1, <3>1, <1>3, <1>4
  <2> QED BY <1>1, <2>1 DEF NoneOf, LastOf
<1> QED BY <1>1, <1>2, <1>3, <1>5, <1>6 DEF t

\* What two joined queues hold of a kind, and which is the last.
LEMMA JoinKinds ==
    ASSUME NEW s \in Seq(News), NEW t \in Seq(News), NEW kind, NEW x
    PROVE  /\ NoneOf(s \o t, kind, x) <=> NoneOf(s, kind, x) /\ NoneOf(t, kind, x)
           /\ \A i \in DOMAIN s : At(s \o t, i, kind, x) <=> At(s, i, kind, x)
           /\ \A i \in DOMAIN t : At(s \o t, Len(s) + i, kind, x) <=> At(t, i, kind, x)
           /\ \A i \in DOMAIN (s \o t) : LastOf(s \o t, i, kind, x) =>
                \/ /\ i \in DOMAIN s /\ (s \o t)[i] = s[i]
                   /\ LastOf(s, i, kind, x) /\ NoneOf(t, kind, x)
                \/ \E j \in DOMAIN t : (s \o t)[i] = t[j] /\ At(t, j, kind, x)
<1> DEFINE q == s \o t
           n == Len(s)
           m == Len(t)
<1>1. /\ n \in Nat /\ m \in Nat /\ DOMAIN s = 1 .. n /\ DOMAIN t = 1 .. m
      /\ DOMAIN q = 1 .. n + m
      /\ \A i \in DOMAIN s : q[i] = s[i]
      /\ \A i \in DOMAIN t : q[n + i] = t[i]
  BY JoinIs
<1> HIDE DEF q, n, m
<1>2. \A i \in DOMAIN s : i \in DOMAIN q /\ (At(q, i, kind, x) <=> At(s, i, kind, x))
  BY <1>1 DEF At
<1>3. \A i \in DOMAIN t : n + i \in DOMAIN q /\ (At(q, n + i, kind, x) <=> At(t, i, kind, x))
  BY <1>1 DEF At
<1>4. \A i \in DOMAIN q : i \in DOMAIN s \/ (i - n \in DOMAIN t /\ n + (i - n) = i) BY <1>1
<1>5. NoneOf(q, kind, x) <=> NoneOf(s, kind, x) /\ NoneOf(t, kind, x)
  <2>1. NoneOf(q, kind, x) => NoneOf(s, kind, x) /\ NoneOf(t, kind, x)
    BY <1>2, <1>3 DEF NoneOf
  <2>2. ASSUME NoneOf(s, kind, x), NoneOf(t, kind, x), NEW i \in DOMAIN q
        PROVE  ~At(q, i, kind, x)
    <3>1. CASE i \in DOMAIN s BY <2>2, <3>1, <1>2 DEF NoneOf
    <3>2. CASE i - n \in DOMAIN t /\ n + (i - n) = i BY <2>2, <3>2, <1>3 DEF NoneOf
    <3> QED BY <3>1, <3>2, <1>4
  <2> QED BY <2>1, <2>2 DEF NoneOf
<1>6. ASSUME NEW i \in DOMAIN q, LastOf(q, i, kind, x)
      PROVE  \/ /\ i \in DOMAIN s /\ q[i] = s[i]
                /\ LastOf(s, i, kind, x) /\ NoneOf(t, kind, x)
             \/ \E j \in DOMAIN t : q[i] = t[j] /\ At(t, j, kind, x)
  <2>1. CASE i \in DOMAIN s
    <3>1. q[i] = s[i] /\ At(s, i, kind, x) BY <2>1, <1>1, <1>2, <1>6 DEF LastOf
    <3>2. ASSUME NEW j \in DOMAIN s, j > i PROVE ~At(s, j, kind, x)
      BY <3>2, <1>2, <1>6 DEF LastOf
    <3>3. ASSUME NEW j \in DOMAIN t PROVE ~At(t, j, kind, x)
      <4>1. n + j > i BY <2>1, <1>1
      <4>2. ~At(q, n + j, kind, x) BY <4>1, <1>3, <1>6 DEF LastOf
      <4> QED BY <4>2, <1>3
    <3> QED BY <2>1, <3>1, <3>2, <3>3 DEF LastOf, NoneOf
  <2>2. CASE i - n \in DOMAIN t /\ n + (i - n) = i
    <3>1. q[n + (i - n)] = t[i - n] BY <2>2, <1>1
    <3>2. At(q, i, kind, x) BY <1>6 DEF LastOf
    <3>3. At(t, i - n, kind, x) BY <2>2, <3>2, <1>3
    <3> QED BY <2>2, <3>1, <3>3
  <2> QED BY <2>1, <2>2, <1>4
<1> QED BY <1>2, <1>3, <1>5, <1>6 DEF q, n
-----------------------------------------------------------------------------
(***************************************************************************)
(* A stanza is handled: the client's item of c becomes what it says, if it *)
(* is about c.                                                             *)
(***************************************************************************)
ItemKept(c) ==
    /\ c \in DOMAIN client'.items <=> c \in DOMAIN client.items
    /\ c \in DOMAIN client.items => client'.items[c] = client.items[c]
ItemPushed(c, item) ==
    /\ c \in DOMAIN client'.items <=> item # <<>>
    /\ c \in DOMAIN client'.items =>
          /\ client'.items[c].name = item[1].name /\ client'.items[c].to = item[1].to
          /\ client'.items[c].from = item[1].from /\ client'.items[c].ask = item[1].ask
          /\ client'.items[c].shown = Shown(c)
ItemShown(c, shown) ==
    /\ c \in DOMAIN client'.items <=> c \in DOMAIN client.items
    /\ c \in DOMAIN client.items =>
          /\ client'.items[c].name = client.items[c].name
          /\ client'.items[c].to = client.items[c].to
          /\ client'.items[c].from = client.items[c].from
          /\ client'.items[c].ask = client.items[c].ask
          /\ client'.items[c].changed = client.items[c].changed
          /\ client'.items[c].shown = shown
HeadDone(c) ==
    \/ ~At(down, 1, "push", c) /\ ~At(down, 1, "presence", c) /\ ItemKept(c)
    \/ At(down, 1, "push", c) /\ ItemPushed(c, down[1].item)
    \/ At(down, 1, "presence", c) /\ ItemShown(c, down[1].shown)

\* What RosterManager reads in a push (handleIq).
LEMMA PushItem ==
    ASSUME NEW c, NEW a
    PROVE  /\ PushOf(c, a).kind = "push" /\ PushOf(c, a).contact = c
           /\ PushOf(c, a).item = <<>> <=> ~a.listed
           /\ a.listed => /\ PushOf(c, a).item[1].name = a.name
                          /\ PushOf(c, a).item[1].to = a.to
                          /\ PushOf(c, a).item[1].from = a.from
                          /\ PushOf(c, a).item[1].ask = a.ask
<1> DEFINE x == [name |-> a.name, to |-> a.to, from |-> a.from, ask |-> a.ask]
<1>1. PushOf(c, a) = [kind |-> "push", contact |-> c, item |-> IF a.listed THEN <<x>> ELSE <<>>]
  BY DEF PushOf
<1>2. x.name = a.name /\ x.to = a.to /\ x.from = a.from /\ x.ask = a.ask OBVIOUS
<1> HIDE DEF x
<1>3. <<x>> # <<>> /\ <<x>>[1] = x BY OneStanza
<1> QED BY <1>1, <1>2, <1>3

\* An item that is ahead in the queue is still ahead of it without its head.
LEMMA HasTail ==
    ASSUME RosterTypes, down # <<>>, down' = Tail(down), NEW c, HeadDone(c),
           NEW k \in 0 .. Len(down'), k + 1 <= Len(down), Has(c, k + 1)
    PROVE  Has(c, k)'
<1>1. /\ Len(down) \in Nat \ {0}
      /\ \A i : i \in DOMAIN down' <=> i \in Nat /\ 1 <= i /\ i + 1 <= Len(down)
      /\ \A i \in DOMAIN down' : down'[i] = down[i + 1]
      /\ Len(down') = Len(down) - 1
  BY TailIs DEF RosterTypes
<1>2. \A i \in DOMAIN down' : At(down', i, "push", c) <=> At(down, i + 1, "push", c)
  BY TailKinds DEF RosterTypes
<1>3. k \in Nat /\ k <= Len(down') BY <1>1
<1>4. \A i \in 1 .. k : i \in DOMAIN down' BY <1>1, <1>3
<1>5. \A i \in 2 .. k + 1 : i - 1 \in 1 .. k /\ (i - 1) + 1 = i BY <1>3
<1>6. At(down, 1, "push", c) => (c \in DOMAIN client'.items <=> down[1].item # <<>>)
  BY DEF HeadDone, ItemPushed, At
<1>7. ~At(down, 1, "push", c) => (c \in DOMAIN client'.items <=> c \in DOMAIN client.items)
  BY DEF HeadDone, ItemKept, ItemShown
<1>8. CASE c \in DOMAIN client.items /\ \A j \in 1 .. k + 1 : ~At(down, j, "push", c)
  <2>1. c \in DOMAIN client'.items
    <3>1. 1 \in 1 .. k + 1 BY <1>3
    <3> QED BY <1>8, <3>1, <1>7
  <2>2. ASSUME NEW j \in 1 .. k PROVE ~At(down', j, "push", c)
    <3>1. j + 1 \in 1 .. k + 1 BY <1>3
    <3> QED BY <3>1, <1>8, <1>2, <1>4
  <2> QED BY <2>1, <2>2 DEF Has
<1>9. ASSUME NEW j \in 1 .. k + 1, At(down, j, "push", c), down[j].item # <<>>,
             \A m \in j + 1 .. k + 1 : ~At(down, m, "push", c)
      PROVE  Has(c, k)'
  <2>1. ASSUME NEW m \in 1 .. k, m > j - 1 PROVE ~At(down', m, "push", c)
    <3>1. m + 1 \in j + 1 .. k + 1 BY <2>1, <1>3
    <3> QED BY <3>1, <1>9, <1>2, <1>4
  <2>2. CASE j = 1
    <3>1. c \in DOMAIN client'.items BY <2>2, <1>6, <1>9
    <3>2. \A m \in 1 .. k : ~At(down', m, "push", c)
      <4>1. \A m \in 1 .. k : m > j - 1 BY <2>2, <1>3
      <4> QED BY <4>1, <2>1
    <3> QED BY <3>1, <3>2 DEF Has
  <2>3. CASE j # 1
    <3>1. j - 1 \in 1 .. k /\ (j - 1) + 1 = j BY <2>3, <1>3
    <3>2. At(down', j - 1, "push", c) BY <3>1, <1>9, <1>2, <1>4
    <3>3. down'[j - 1].item # <<>> BY <3>1, <1>9, <1>1, <1>4
    <3>4. \A m \in (j - 1) + 1 .. k : ~At(down', m, "push", c)
      <4>1. \A m \in (j - 1) + 1 .. k : m \in 1 .. k /\ m > j - 1 BY <3>1, <1>3
      <4> QED BY <4>1, <2>1
    <3> QED BY <3>1, <3>2, <3>3, <3>4 DEF Has
  <2> QED BY <2>2, <2>3
<1> QED BY <1>8, <1>9 DEF Has

\* A stanza taken from the queue and done keeps what is owed to the contact.
LEMMA HeadKeeps ==
    ASSUME RosterTypes, NEW c \in Contacts, ContactTrue(c), PresenceTrue(c), EditTrue(c),
           client.filled, client'.filled, down # <<>>, down' = Tail(down), HeadDone(c),
           UNCHANGED <<account, session, history>>
    PROVE  ContactTrue(c)' /\ PresenceTrue(c)' /\ EditTrue(c)'
<1>0. down \in Seq(News) /\ account \in [Contacts -> Entries] BY DEF RosterTypes
<1>1. /\ Len(down) \in Nat \ {0} /\ 1 \in DOMAIN down
      /\ \A i : i \in DOMAIN down' <=> i \in Nat /\ 1 <= i /\ i + 1 <= Len(down)
      /\ \A i \in DOMAIN down' : down'[i] = down[i + 1]
      /\ Len(down') = Len(down) - 1
  BY <1>0, TailIs
<1>2. ASSUME NEW kind
      PROVE  /\ NoneOf(down', kind, c) => NoneOf(down, kind, c) \/ LastOf(down, 1, kind, c)
             /\ \A i \in DOMAIN down' :
                  /\ i + 1 \in DOMAIN down /\ down'[i] = down[i + 1]
                  /\ At(down', i, kind, c) <=> At(down, i + 1, kind, c)
                  /\ LastOf(down', i, kind, c) => LastOf(down, i + 1, kind, c)
  BY <1>0, TailKinds
<1>3. UNCHANGED account[c] /\ Seen(c)' = Seen(c) BY DEF Seen
<1>4. ContactTrue(c)'
  <2>1. SUFFICES ASSUME session.interested
                 PROVE  PushesTrue(c)' /\ (NoneOf(down, "push", c)' => ItemIsTrue(c)')
    BY DEF ContactTrue
  <2>2. PushesTrue(c) /\ (NoneOf(down, "push", c) => ItemIsTrue(c)) BY <2>1 DEF ContactTrue
  <2>3. PushesTrue(c)'
    <3>1. SUFFICES ASSUME NEW i \in DOMAIN down', LastOf(down', i, "push", c)
                   PROVE  down'[i].item = PushOf(c, account[c]).item
      BY <1>3 DEF PushesTrue
    <3>2. LastOf(down, i + 1, "push", c) /\ i + 1 \in DOMAIN down /\ down'[i] = down[i + 1]
      BY <3>1, <1>2
    <3> QED BY <3>2, <2>2 DEF PushesTrue
  <2>4. ASSUME NoneOf(down', "push", c) PROVE ItemIsTrue(c)'
    <3>1. CASE LastOf(down, 1, "push", c)
      <4>1. At(down, 1, "push", c) /\ down[1].item = PushOf(c, account[c]).item
        BY <3>1, <1>1, <2>2 DEF PushesTrue, LastOf
      <4>2. ItemPushed(c, down[1].item) BY <4>1 DEF HeadDone, At
      <4> QED BY <4>1, <4>2, <1>3, PushItem DEF ItemPushed, ItemIsTrue
    <3>2. CASE NoneOf(down, "push", c)
      <4>1. ItemIsTrue(c) BY <3>2, <2>2
      <4>2. ~At(down, 1, "push", c) BY <3>2, <1>1 DEF NoneOf
      <4>3. ItemKept(c) \/ ItemShown(c, down[1].shown) BY <4>2 DEF HeadDone
      <4> QED BY <4>1, <4>3, <1>3 DEF ItemKept, ItemShown, ItemIsTrue
    <3> QED BY <3>1, <3>2, <2>4, <1>2
  <2> QED BY <2>3, <2>4
<1>5. PresenceTrue(c)'
  <2>1. SUFFICES ASSUME session.available, session.interested
        PROVE  /\ \A i \in DOMAIN down' : LastOf(down', i, "presence", c) => down'[i].shown = Seen(c)
               /\ NoneOf(down', "presence", c) /\ c \in DOMAIN client'.items =>
                     client'.items[c].shown = Seen(c)
               /\ Seen(c) => \A k \in 0 .. Len(down') :
                     (\A j \in k + 1 .. Len(down') : ~At(down', j, "presence", c)) => Has(c, k)'
    BY <1>3 DEF PresenceTrue
  <2>2. /\ \A i \in DOMAIN down : LastOf(down, i, "presence", c) => down[i].shown = Seen(c)
        /\ NoneOf(down, "presence", c) /\ c \in DOMAIN client.items =>
              client.items[c].shown = Seen(c)
        /\ Seen(c) => \A k \in 0 .. Len(down) :
              (\A j \in k + 1 .. Len(down) : ~At(down, j, "presence", c)) => Has(c, k)
    BY <2>1 DEF PresenceTrue
  <2>3. ASSUME NEW i \in DOMAIN down', LastOf(down', i, "presence", c)
        PROVE  down'[i].shown = Seen(c)
    <3>1. LastOf(down, i + 1, "presence", c) /\ i + 1 \in DOMAIN down /\ down'[i] = down[i + 1]
      BY <2>3, <1>2
    <3> QED BY <3>1, <2>2
  <2>4. ASSUME Seen(c), NEW k \in 0 .. Len(down'),
               \A j \in k + 1 .. Len(down') : ~At(down', j, "presence", c)
        PROVE  Has(c, k)'
    <3>1. k \in Nat /\ k + 1 \in 0 .. Len(down) /\ k + 1 <= Len(down) BY <1>1
    <3>2. ASSUME NEW j \in (k + 1) + 1 .. Len(down) PROVE ~At(down, j, "presence", c)
      <4>1. j - 1 \in k + 1 .. Len(down') /\ j - 1 \in DOMAIN down' /\ (j - 1) + 1 = j
        BY <1>1, <3>1
      <4> QED BY <4>1, <2>4, <1>2
    <3>3. Has(c, k + 1) BY <2>2, <2>4, <3>1, <3>2
    <3> QED BY <3>1, <3>3, HasTail
  <2>5. ASSUME NoneOf(down', "presence", c), c \in DOMAIN client'.items
        PROVE  client'.items[c].shown = Seen(c)
    <3>1. CASE LastOf(down, 1, "presence", c)
      <4>1. At(down, 1, "presence", c) /\ down[1].shown = Seen(c)
        BY <3>1, <1>1, <2>2 DEF LastOf
      <4>2. ItemShown(c, down[1].shown) BY <4>1 DEF HeadDone, At
      <4> QED BY <4>1, <4>2, <2>5 DEF ItemShown
    <3>2. CASE NoneOf(down, "presence", c)
      <4>1. ~At(down, 1, "presence", c) BY <3>2, <1>1 DEF NoneOf
      <4>2. CASE ItemKept(c) BY <4>2, <3>2, <2>2, <2>5 DEF ItemKept
      <4>3. CASE At(down, 1, "push", c) /\ ItemPushed(c, down[1].item)
        <5>1. client'.items[c].shown = Shown(c) BY <4>3, <2>5 DEF ItemPushed
        <5>2. Seen(c) => c \in DOMAIN client.items
          <6>1. 0 \in 0 .. Len(down) BY <1>1
          <6>2. \A j \in 0 + 1 .. Len(down) : ~At(down, j, "presence", c)
            BY <1>0, <3>2, LenProperties DEF NoneOf
          <6>3. Seen(c) => Has(c, 0) BY <6>1, <6>2, <2>2
          <6> QED BY <6>3 DEF Has
        <5>3. Seen(c) \in BOOLEAN BY <1>0 DEF Seen, Entries
        <5>4. c \in DOMAIN client.items => client.items[c].shown = Seen(c) BY <2>2, <3>2
        <5> QED BY <5>1, <5>2, <5>3, <5>4 DEF Shown
      <4> QED BY <4>1, <4>2, <4>3 DEF HeadDone
    <3> QED BY <3>1, <3>2, <2>5, <1>2
  <2> QED BY <2>3, <2>4, <2>5
<1>6. EditTrue(c)'
  <2>1. SUFFICES ASSUME history.edit[c] # NoName
        PROVE  /\ c \in DOMAIN client'.items /\ client'.items[c].name = history.edit[c]
               /\ client'.items[c].changed \/ account[c].name = history.edit[c]
               /\ \A i \in DOMAIN down' : At(down', i, "push", c) =>
                     /\ down'[i].item # <<>> /\ down'[i].item[1].name = history.edit[c]
                     /\ account[c].name = history.edit[c]
    BY <1>3 DEF EditTrue
  <2>2. /\ c \in DOMAIN client.items /\ client.items[c].name = history.edit[c]
        /\ client.items[c].changed \/ account[c].name = history.edit[c]
        /\ \A i \in DOMAIN down : At(down, i, "push", c) =>
              /\ down[i].item # <<>> /\ down[i].item[1].name = history.edit[c]
              /\ account[c].name = history.edit[c]
    BY <2>1 DEF EditTrue
  <2>3. \A i \in DOMAIN down' : At(down', i, "push", c) =>
              /\ down'[i].item # <<>> /\ down'[i].item[1].name = history.edit[c]
              /\ account[c].name = history.edit[c]
    <3> TAKE i \in DOMAIN down'
    <3>1. /\ i + 1 \in DOMAIN down /\ down'[i] = down[i + 1]
          /\ At(down', i, "push", c) <=> At(down, i + 1, "push", c)
      BY <1>2
    <3> QED BY <3>1, <2>2
  <2>4. CASE ItemKept(c) BY <2>2, <2>3, <2>4 DEF ItemKept
  <2>5. CASE ItemShown(c, down[1].shown) BY <2>2, <2>3, <2>5 DEF ItemShown
  <2>6. CASE At(down, 1, "push", c) /\ ItemPushed(c, down[1].item)
    BY <2>2, <2>3, <2>6, <1>1 DEF ItemPushed
  <2> QED BY <2>4, <2>5, <2>6 DEF HeadDone
<1> QED BY <1>4, <1>5, <1>6
-----------------------------------------------------------------------------
(***************************************************************************)
(* The entry of c changes, or not, and t is sent.                          *)
(***************************************************************************)
SameEntry(c) ==
    /\ account'[c].listed = account[c].listed /\ account'[c].name = account[c].name
    /\ account'[c].to = account[c].to /\ account'[c].from = account[c].from
    /\ account'[c].ask = account[c].ask
EditKept(c, t) ==
    history'.edit[c] # NoName =>
        /\ history'.edit[c] = history.edit[c]
        /\ \/ account'[c].name = history.edit[c]
           \/ NoneOf(t, "push", c) /\ account'[c].name = account[c].name
Brings(c, t) ==
    /\ \A i \in DOMAIN t : At(t, i, "push", c) => t[i].item = PushOf(c, account'[c]).item
    /\ session.interested /\ NoneOf(t, "push", c) => SameEntry(c)
    /\ \A i \in DOMAIN t : At(t, i, "presence", c) => t[i].shown = Seen(c)'
    /\ session'.available /\ session.interested /\ NoneOf(t, "presence", c) =>
          IF session.available THEN Seen(c)' = Seen(c) ELSE ~Seen(c)'
    /\ Seen(c)' => account[c].listed
    /\ EditKept(c, t)
Joins(t) ==
    /\ t \in Seq(News) /\ down' = down \o t
    /\ UNCHANGED client /\ session'.interested = session.interested
    /\ session.available => session'.available
    /\ session'.available => client.filled

\* What joins the end of the queue changes nothing for the places before it.
LEMMA HasBefore ==
    ASSUME RosterTypes, NEW t, Joins(t), NEW c, NEW k \in 0 .. Len(down), Has(c, k)
    PROVE  Has(c, k)'
<1>1. /\ Len(down) \in Nat /\ DOMAIN down = 1 .. Len(down)
      /\ \A i \in DOMAIN down : down'[i] = down[i]
  BY JoinIs DEF RosterTypes, Joins
<1>2. \A i \in 1 .. k : i \in DOMAIN down BY <1>1
<1>3. \A i \in 1 .. k : At(down', i, "push", c) <=> At(down, i, "push", c) BY <1>1, <1>2 DEF At
<1>4. client' = client BY DEF Joins
<1>5. \A i, j \in Nat : i \in 1 .. k /\ j \in i + 1 .. k => j \in 1 .. k BY <1>1
<1>6. CASE c \in DOMAIN client.items /\ \A j \in 1 .. k : ~At(down, j, "push", c)
  BY <1>6, <1>3, <1>4 DEF Has
<1>7. ASSUME NEW j \in 1 .. k, At(down, j, "push", c), down[j].item # <<>>,
             \A m \in j + 1 .. k : ~At(down, m, "push", c)
      PROVE  Has(c, k)'
  <2>1. \A m \in j + 1 .. k : m \in 1 .. k BY <1>1
  <2>2. \A m \in j + 1 .. k : ~At(down', m, "push", c) BY <2>1, <1>3, <1>7
  <2>3. At(down', j, "push", c) /\ down'[j].item # <<>> BY <1>7, <1>1, <1>2, <1>3
  <2> QED BY <2>2, <2>3 DEF Has
<1> QED BY <1>6, <1>7 DEF Has

\* Behind what was under way the client has an item that the server lists.
LEMMA HasBehind ==
    ASSUME RosterTypes, NEW t, Joins(t), NEW c, account[c].listed, account'[c].listed,
           PushesTrue(c), NoneOf(down, "push", c) => ItemIsTrue(c),
           \A i \in DOMAIN t : At(t, i, "push", c) => t[i].item = PushOf(c, account'[c]).item,
           NEW k \in Len(down) .. Len(down')
    PROVE  Has(c, k)'
<1>0. down \in Seq(News) /\ t \in Seq(News) /\ down' = down \o t /\ client' = client
  BY DEF RosterTypes, Joins
<1>1. /\ down' \in Seq(News) /\ Len(down) \in Nat /\ Len(t) \in Nat
      /\ Len(down') = Len(down) + Len(t)
      /\ DOMAIN down = 1 .. Len(down) /\ DOMAIN t = 1 .. Len(t)
      /\ \A i \in DOMAIN down : down'[i] = down[i]
      /\ \A i \in DOMAIN t : down'[Len(down) + i] = t[i]
  BY <1>0, JoinIs
<1>2. k \in Nat /\ k \in 0 .. Len(down') /\ Len(down) <= k BY <1>1
<1>3. \A i \in DOMAIN down : i \in 1 .. k /\ (At(down', i, "push", c) <=> At(down, i, "push", c))
  BY <1>1, <1>2 DEF At
<1>4. CASE \A i \in 1 .. k : ~At(down', i, "push", c)
  <2>1. NoneOf(down, "push", c) BY <1>3, <1>4 DEF NoneOf
  <2>2. c \in DOMAIN client'.items BY <2>1, <1>0 DEF ItemIsTrue
  <2> QED BY <1>4, <2>2 DEF Has
<1>5. ASSUME NEW i \in 1 .. k, At(down', i, "push", c),
             \A j \in i + 1 .. k : ~At(down', j, "push", c)
      PROVE  Has(c, k)'
  <2>1. down'[i].item # <<>>
    <3>1. CASE i \in DOMAIN down
      <4>1. At(down, i, "push", c) /\ down'[i] = down[i] BY <3>1, <1>1, <1>3, <1>5
      <4>2. ASSUME NEW j \in DOMAIN down, j > i PROVE ~At(down, j, "push", c)
        <5>1. j \in i + 1 .. k BY <4>2, <3>1, <1>1, <1>2
        <5> QED BY <5>1, <1>3, <1>5
      <4>3. LastOf(down, i, "push", c) BY <4>1, <4>2 DEF LastOf
      <4> QED BY <3>1, <4>1, <4>3, PushItem DEF PushesTrue
    <3>2. CASE i \notin DOMAIN down
      <4>1. i - Len(down) \in DOMAIN t /\ Len(down) + (i - Len(down)) = i
        BY <3>2, <1>1, <1>2
      <4>2. down'[i] = t[i - Len(down)] BY <4>1, <1>1
      <4>3. At(t, i - Len(down), "push", c) BY <4>2, <1>5 DEF At
      <4> QED BY <4>1, <4>2, <4>3, PushItem
    <3> QED BY <3>1, <3>2
  <2> QED BY <1>5, <2>1 DEF Has
<1> QED BY <1>0, <1>1, <1>2, <1>4, <1>5, LastUpTo

\* Stanzas that bring the contact what the server has now keep it true.
LEMMA JoinKeeps ==
    ASSUME RosterTypes, Filling, Unavailable, client.online, Entered', account' \in [Contacts -> Entries],
           NEW c \in Contacts, ContactTrue(c), PresenceTrue(c), EditTrue(c),
           NEW t, Joins(t), Brings(c, t)
    PROVE  ContactTrue(c)' /\ PresenceTrue(c)' /\ EditTrue(c)'
<1>0. /\ down \in Seq(News) /\ t \in Seq(News) /\ down' = down \o t /\ client' = client
      /\ account \in [Contacts -> Entries]
      /\ session'.interested = session.interested
  BY DEF RosterTypes, Joins
<1>1. /\ Len(down) \in Nat /\ Len(t) \in Nat /\ Len(down') = Len(down) + Len(t)
      /\ DOMAIN down = 1 .. Len(down) /\ DOMAIN t = 1 .. Len(t)
      /\ DOMAIN down' = 1 .. Len(down')
      /\ \A i \in DOMAIN down : down'[i] = down[i]
      /\ \A i \in DOMAIN t : down'[Len(down) + i] = t[i]
  BY <1>0, JoinIs
<1>2. ASSUME NEW kind
      PROVE  /\ NoneOf(down', kind, c) <=> NoneOf(down, kind, c) /\ NoneOf(t, kind, c)
             /\ \A i \in DOMAIN down : At(down', i, kind, c) <=> At(down, i, kind, c)
             /\ \A i \in DOMAIN t : At(down', Len(down) + i, kind, c) <=> At(t, i, kind, c)
             /\ \A i \in DOMAIN down' : LastOf(down', i, kind, c) =>
                  \/ /\ i \in DOMAIN down /\ down'[i] = down[i]
                     /\ LastOf(down, i, kind, c) /\ NoneOf(t, kind, c)
                  \/ \E j \in DOMAIN t : down'[i] = t[j] /\ At(t, j, kind, c)
  <2> DEFINE q == down \o t
  <2>1. /\ NoneOf(q, kind, c) <=> NoneOf(down, kind, c) /\ NoneOf(t, kind, c)
        /\ \A i \in DOMAIN down : At(q, i, kind, c) <=> At(down, i, kind, c)
        /\ \A i \in DOMAIN t : At(q, Len(down) + i, kind, c) <=> At(t, i, kind, c)
        /\ \A i \in DOMAIN q : LastOf(q, i, kind, c) =>
             \/ /\ i \in DOMAIN down /\ q[i] = down[i]
                /\ LastOf(down, i, kind, c) /\ NoneOf(t, kind, c)
             \/ \E j \in DOMAIN t : q[i] = t[j] /\ At(t, j, kind, c)
    BY ONLY <1>0, JoinKinds
  <2>2. q = down' BY <1>0
  <2> HIDE DEF q
  <2> QED BY ONLY <2>1, <2>2
<1>3. SameEntry(c) => PushOf(c, account'[c]) = PushOf(c, account[c])
  BY DEF SameEntry, PushOf
<1>4. ContactTrue(c)'
  <2>1. SUFFICES ASSUME session.interested
                 PROVE  /\ PushesTrue(c)'
                        /\ (NoneOf(down, "push", c) =>
                              IF client.filled THEN ItemIsTrue(c) ELSE AnswerTrue(c))'
    BY <1>0 DEF ContactTrue
  <2>2. PushesTrue(c) /\ (NoneOf(down, "push", c) =>
                              IF client.filled THEN ItemIsTrue(c) ELSE AnswerTrue(c))
    BY <2>1 DEF ContactTrue
  <2>3. PushesTrue(c)'
    <3>1. SUFFICES ASSUME NEW i \in DOMAIN down', LastOf(down', i, "push", c)
                   PROVE  down'[i].item = PushOf(c, account'[c]).item
      BY DEF PushesTrue
    <3>2. CASE /\ i \in DOMAIN down /\ down'[i] = down[i]
               /\ LastOf(down, i, "push", c) /\ NoneOf(t, "push", c)
      BY <3>2, <2>1, <2>2, <1>3 DEF PushesTrue, Brings
    <3>3. CASE \E j \in DOMAIN t : down'[i] = t[j] /\ At(t, j, "push", c)
      BY <3>3 DEF Brings
    <3> QED BY <3>1, <3>2, <3>3, <1>2
  <2>4. ASSUME NoneOf(down', "push", c)
        PROVE  IF client'.filled THEN ItemIsTrue(c)' ELSE AnswerTrue(c)'
    <3>1. NoneOf(down, "push", c) /\ NoneOf(t, "push", c) BY <2>4, <1>2
    <3>2. SameEntry(c) BY <2>1, <3>1 DEF Brings
    <3>3. CASE client.filled
      <4>1. ItemIsTrue(c) BY <3>1, <3>3, <2>2
      <4> QED BY <4>1, <3>2, <3>3, <1>0 DEF SameEntry, ItemIsTrue
    <3>4. CASE ~client.filled
      <4>1. AnswerTrue(c) BY <3>1, <3>4, <2>2
      <4>2. down # <<>> BY <2>1, <3>4 DEF Filling, Asking, Answered
      <4>3. down'[1] = down[1]
        <5>1. 1 \in DOMAIN down BY <4>2, <1>0, TailIs
        <5> QED BY <5>1, <1>1
      <4>4. ItemOf(c)' = ItemOf(c) BY <3>2 DEF SameEntry, ItemOf
      <4> QED BY <4>1, <4>3, <4>4, <3>2, <3>4, <1>0 DEF SameEntry, AnswerTrue
    <3> QED BY <3>3, <3>4, <1>0
  <2> QED BY <2>3, <2>4
<1>5. PresenceTrue(c)'
  <2>1. SUFFICES ASSUME session'.available, session.interested
        PROVE  /\ \A i \in DOMAIN down' : LastOf(down', i, "presence", c) => down'[i].shown = Seen(c)'
               /\ NoneOf(down', "presence", c) /\ c \in DOMAIN client.items =>
                     client.items[c].shown = Seen(c)'
               /\ Seen(c)' => \A k \in 0 .. Len(down') :
                     (\A j \in k + 1 .. Len(down') : ~At(down', j, "presence", c)) => Has(c, k)'
    BY <1>0 DEF PresenceTrue
  <2>2. session.available =>
          /\ \A i \in DOMAIN down : LastOf(down, i, "presence", c) => down[i].shown = Seen(c)
          /\ NoneOf(down, "presence", c) /\ c \in DOMAIN client.items =>
                client.items[c].shown = Seen(c)
          /\ Seen(c) => \A k \in 0 .. Len(down) :
                (\A j \in k + 1 .. Len(down) : ~At(down, j, "presence", c)) => Has(c, k)
    BY <2>1 DEF PresenceTrue
  <2>3. ~session.available =>
          /\ NoneOf(down, "presence", c)
          /\ c \in DOMAIN client.items => ~client.items[c].shown
    BY DEF Unavailable, NoneOf, At
  <2>4. NoneOf(t, "presence", c) =>
          IF session.available THEN Seen(c)' = Seen(c) ELSE ~Seen(c)'
    BY <2>1 DEF Brings
  <2>5. ASSUME NEW i \in DOMAIN down', LastOf(down', i, "presence", c)
        PROVE  down'[i].shown = Seen(c)'
    <3>1. CASE /\ i \in DOMAIN down /\ down'[i] = down[i]
               /\ LastOf(down, i, "presence", c) /\ NoneOf(t, "presence", c)
      <4>1. session.available BY <3>1, <2>3 DEF NoneOf, LastOf
      <4> QED BY <4>1, <3>1, <2>2, <2>4
    <3>2. CASE \E j \in DOMAIN t : down'[i] = t[j] /\ At(t, j, "presence", c)
      BY <3>2 DEF Brings
    <3> QED BY <3>1, <3>2, <2>5, <1>2
  <2>6. ASSUME NoneOf(down', "presence", c), c \in DOMAIN client.items
        PROVE  client.items[c].shown = Seen(c)'
    <3>1. NoneOf(down, "presence", c) /\ NoneOf(t, "presence", c) BY <2>6, <1>2
    <3>2. CASE session.available BY <3>1, <3>2, <2>2, <2>4, <2>6
    <3>3. CASE ~session.available
      <4>1. ~client.items[c].shown /\ ~Seen(c)' BY <3>1, <3>3, <2>3, <2>4, <2>6
      <4>2. Seen(c)' \in BOOLEAN BY DEF Seen, Entries
      <4>3. client.items[c].shown \in BOOLEAN BY <2>6 DEF RosterTypes, Tables, Items
      <4> QED BY <4>1, <4>2, <4>3
    <3> QED BY <3>2, <3>3
  <2>7. ASSUME Seen(c)', NEW k \in 0 .. Len(down'),
               \A j \in k + 1 .. Len(down') : ~At(down', j, "presence", c)
        PROVE  Has(c, k)'
    <3>1. account[c].listed /\ account'[c].listed
      BY <2>7 DEF Brings, Seen, Entered
    <3>2. client.filled BY <2>1 DEF Joins
    <3>3. CASE k \in Len(down) .. Len(down')
      <4>1. PushesTrue(c) /\ (NoneOf(down, "push", c) => ItemIsTrue(c))
        BY <2>1, <3>2 DEF ContactTrue
      <4> QED BY <3>1, <3>3, <4>1, HasBehind DEF Brings
    <3>4. CASE k \in 0 .. Len(down) /\ k # Len(down)
      <4>1. ASSUME NEW j \in k + 1 .. Len(down) PROVE ~At(down, j, "presence", c)
        <5>1. j \in DOMAIN down /\ j \in k + 1 .. Len(down') BY <3>4, <1>1
        <5> QED BY <5>1, <2>7, <1>2
      <4>2. ASSUME NEW j \in DOMAIN t PROVE ~At(t, j, "presence", c)
        <5> DEFINE n == Len(down)
        <5>0. /\ n \in Nat /\ Len(t) \in Nat /\ Len(down') = n + Len(t) /\ j \in 1 .. Len(t)
              /\ k \in 0 .. n /\ k # n
          BY <3>4, <1>1
        <5> HIDE DEF n
        <5>1. n + j \in k + 1 .. Len(down') BY ONLY <5>0
        <5> USE DEF n
        <5>2. ~At(down', Len(down) + j, "presence", c) BY <5>1, <2>7
        <5>3. At(down', Len(down) + j, "presence", c) <=> At(t, j, "presence", c) BY <1>2
        <5> QED BY <5>2, <5>3
      <4>3. session.available /\ Seen(c) BY <4>2, <2>4, <2>7 DEF NoneOf
      <4>4. Has(c, k) BY <4>1, <4>3, <3>4, <2>2
      <4>5. k \in 0 .. Len(down) BY <3>4
      <4> QED BY ONLY RosterTypes, Joins(t), <4>4, <4>5, HasBefore
    <3>5. k \in Len(down) .. Len(down') \/ (k \in 0 .. Len(down) /\ k # Len(down))
      <4> DEFINE n == Len(down)
                 m == Len(down')
      <4>1. n \in Nat /\ m \in Nat /\ n <= m /\ k \in 0 .. m BY <1>1
      <4> HIDE DEF n, m
      <4>2. k \in n .. m \/ (k \in 0 .. n /\ k # n) BY ONLY <4>1
      <4> QED BY <4>2 DEF n, m
    <3> QED BY <3>3, <3>4, <3>5
  <2> QED BY <2>5, <2>6, <2>7
<1>6. EditTrue(c)'
  <2>1. SUFFICES ASSUME history'.edit[c] # NoName
        PROVE  /\ c \in DOMAIN client.items /\ client.items[c].name = history'.edit[c]
               /\ client.items[c].changed \/ account'[c].name = history'.edit[c]
               /\ \A i \in DOMAIN down' : At(down', i, "push", c) =>
                     /\ down'[i].item # <<>> /\ down'[i].item[1].name = history'.edit[c]
                     /\ account'[c].name = history'.edit[c]
    BY <1>0 DEF EditTrue
  <2> DEFINE e == history'.edit[c]
  <2>2. /\ e = history.edit[c]
        /\ \/ account'[c].name = e
           \/ NoneOf(t, "push", c) /\ account'[c].name = account[c].name
    BY <2>1 DEF Brings, EditKept
  <2>3. /\ c \in DOMAIN client.items /\ client.items[c].name = e
        /\ client.items[c].changed \/ account[c].name = e
        /\ \A i \in DOMAIN down : At(down, i, "push", c) =>
              /\ down[i].item # <<>> /\ down[i].item[1].name = e
              /\ account[c].name = e
    BY <2>1, <2>2 DEF EditTrue
  <2>4. e # NoName BY <2>1
  <2> HIDE DEF e
  <2>5. ASSUME NEW i \in DOMAIN down', At(down', i, "push", c)
        PROVE  /\ down'[i].item # <<>> /\ down'[i].item[1].name = e
               /\ account'[c].name = e
    <3>1. CASE i \in DOMAIN down
      <4>1. At(down, i, "push", c) /\ down'[i] = down[i] BY <3>1, <2>5, <1>1, <1>2
      <4> QED BY <4>1, <3>1, <2>2, <2>3
    <3>2. CASE i \notin DOMAIN down
      <4>1. i - Len(down) \in DOMAIN t /\ Len(down) + (i - Len(down)) = i
        BY <3>2, <1>1
      <4>2. down'[i] = t[i - Len(down)] BY <4>1, <1>1
      <4>3. At(t, i - Len(down), "push", c) BY <4>2, <2>5 DEF At
      <4>4. down'[i].item = PushOf(c, account'[c]).item BY <4>1, <4>2, <4>3 DEF Brings
      <4>5. account'[c].name = e BY <4>1, <4>3, <2>2 DEF NoneOf
      <4>6. account'[c].listed BY <4>5, <2>4 DEF Entered
      <4> QED BY <4>4, <4>5, <4>6, PushItem
    <3> QED BY <3>1, <3>2
  <2> QED BY <2>2, <2>3, <2>5 DEF e
<1> QED BY <1>4, <1>5, <1>6
-----------------------------------------------------------------------------
(***************************************************************************)
(* The steps of the client's handlers have one form: a stanza is taken off,*)
(* the client and its items follow it, and s is sent.                      *)
(***************************************************************************)
Follows(s) ==
    /\ client.filled /\ down # <<>> /\ down' = Tail(down)
    /\ s \in Seq(Requests) /\ up' = up \o s /\ \A i \in DOMAIN s : s[i].kind # "get"
    /\ UNCHANGED <<account, session, history>>
    /\ client'.sync = client.sync /\ client'.online = client.online
    /\ client'.filled = client.filled
    /\ client'.self = IF At(down, 1, "presence", Own) THEN down[1].shown ELSE client.self
    /\ client.told = DOMAIN client.items => client'.told = DOMAIN client'.items
    /\ \A c \in Contacts : HeadDone(c)
    /\ client.sync /\ down[1].kind = "subscribe" =>
          \E i \in DOMAIN s : s[i].kind \in Answering /\ s[i].contact = down[1].contact

\* Every handler of the client takes a stanza and does what it says.
LEMMA HandlerKeeps ==
    ASSUME RosterTypes, RosterTypes', RosterInv, NEW s, Follows(s)
    PROVE  RosterInv'
<1>0. /\ down \in Seq(News) /\ up \in Seq(Requests) /\ s \in Seq(Requests) /\ down # <<>>
      /\ down' = Tail(down) /\ up' = up \o s
      /\ client.filled /\ client'.filled /\ UNCHANGED <<account, session, history>>
      /\ client'.online = client.online /\ client'.sync = client.sync
  BY DEF Follows, RosterTypes
<1>1. /\ Len(down) \in Nat \ {0} /\ 1 \in DOMAIN down
      /\ \A i : i \in DOMAIN down' <=> i \in Nat /\ 1 <= i /\ i + 1 <= Len(down)
      /\ \A i : i \in DOMAIN down <=> i \in Nat /\ 1 <= i /\ i <= Len(down)
      /\ \A i \in DOMAIN down' : down'[i] = down[i + 1]
  BY <1>0, TailIs
<1>2. \A i \in DOMAIN down' : i + 1 \in DOMAIN down /\ down'[i] = down[i + 1] BY <1>0, TailKinds
<1>3. \A i \in DOMAIN down : i # 1 => i - 1 \in DOMAIN down' /\ down'[i - 1] = down[i]
  <2> TAKE i \in DOMAIN down
  <2>1. i \in Nat /\ 1 <= i /\ i <= Len(down) BY <1>1
  <2>2. i # 1 => i - 1 \in Nat /\ 1 <= i - 1 /\ (i - 1) + 1 <= Len(down) /\ (i - 1) + 1 = i
    BY <2>1, <1>1
  <2> QED BY <2>2, <1>1
<1>4. /\ Len(up) \in Nat /\ Len(s) \in Nat
      /\ DOMAIN up = 1 .. Len(up) /\ DOMAIN s = 1 .. Len(s) /\ DOMAIN up' = 1 .. Len(up) + Len(s)
      /\ \A i \in DOMAIN up : up'[i] = up[i]
      /\ \A i \in DOMAIN s : up'[Len(up) + i] = s[i]
  BY <1>0, JoinIs
<1>5. \A i \in DOMAIN up : i \in DOMAIN up' BY <1>4
<1>6. \A i \in DOMAIN s : Len(up) + i \in DOMAIN up' BY <1>4
<1>7. \A i \in DOMAIN up' : i \in DOMAIN up \/ (i - Len(up) \in DOMAIN s /\ Len(up) + (i - Len(up)) = i)
  BY <1>4
<1>8. Entered' BY <1>0 DEF RosterInv, Entered
<1>9. Offline' /\ Filling' /\ client.online BY <1>0 DEF RosterInv, Phases, Filled, Offline, Filling
<1>10. Filled'
  <2>1. Filled BY DEF RosterInv, Phases
  <2>2. \A i \in DOMAIN up' : up'[i].kind # "get"
    <3> TAKE i \in DOMAIN up'
    <3>1. CASE i \in DOMAIN up BY <3>1, <2>1, <1>0, <1>4 DEF Filled
    <3>2. CASE i - Len(up) \in DOMAIN s /\ Len(up) + (i - Len(up)) = i
      <4>1. up'[i] = s[i - Len(up)] BY <3>2, <1>4
      <4> QED BY <3>2, <4>1 DEF Follows
    <3> QED BY <3>1, <3>2, <1>7
  <2>3. \A i \in DOMAIN down' : down'[i].kind # "roster" BY <2>1, <1>0, <1>2 DEF Filled
  <2>4. session'.available \/ \E i \in DOMAIN up' : up'[i].kind = "presence"
    BY <2>1, <1>0, <1>4, <1>5 DEF Filled
  <2>5. session'.interested => client'.told = DOMAIN client'.items
    BY <2>1, <1>0 DEF Filled, Follows
  <2> QED BY <2>1, <2>2, <2>3, <2>4, <2>5, <1>0 DEF Filled
<1>11. \A c \in Contacts : HeadDone(c) BY DEF Follows
<1>12. DOMAIN client.items \subseteq Contacts /\ DOMAIN client'.items \subseteq Contacts
  BY DEF RosterTypes, Tables
<1>13. Unavailable'
  <2>1. SUFFICES ASSUME ~session.available
        PROVE  /\ \A i \in DOMAIN down' : down'[i].kind # "presence"
               /\ \A c \in DOMAIN client'.items : ~client'.items[c].shown
               /\ ~history.stale => ~client'.self
    BY <1>0 DEF Unavailable
  <2>2. /\ \A i \in DOMAIN down : down[i].kind # "presence"
        /\ \A c \in DOMAIN client.items : ~client.items[c].shown
        /\ ~history.stale => ~client.self
    BY <2>1, <1>9 DEF RosterInv, Phases, Unavailable
  <2>3. down[1].kind # "presence" BY <2>2, <1>1
  <2>4. ASSUME NEW c \in DOMAIN client'.items PROVE ~client'.items[c].shown
    <3>1. HeadDone(c) BY <1>11, <1>12
    <3>2. CASE ItemKept(c) BY <2>2, <2>4, <3>2 DEF ItemKept
    <3>3. CASE At(down, 1, "push", c) /\ ItemPushed(c, down[1].item)
      BY <2>2, <2>4, <3>3 DEF ItemPushed, Shown
    <3> QED BY <3>1, <3>2, <3>3, <2>3 DEF HeadDone, At
  <2> QED BY <2>2, <2>3, <2>4, <1>2 DEF Follows, At
<1>14. Uninterested'
  <2>1. SUFFICES ASSUME ~session.interested
        PROVE  (\A i \in DOMAIN down' : down'[i].kind # "push") /\ DOMAIN client'.items = {}
    BY <1>0 DEF Uninterested
  <2>2. (\A i \in DOMAIN down : down[i].kind # "push") /\ DOMAIN client.items = {}
    BY <2>1, <1>9 DEF RosterInv, Phases, Uninterested
  <2>3. ASSUME NEW c \in DOMAIN client'.items PROVE FALSE
    <3>1. HeadDone(c) /\ ~At(down, 1, "push", c) BY <2>2, <1>1, <1>11, <1>12 DEF At
    <3> QED BY <3>1, <2>2 DEF HeadDone, ItemKept, ItemShown
  <2> QED BY <2>2, <2>3, <1>2
<1>15. OwnTrue'
  <2>1. SUFFICES ASSUME session.available, ~history.stale
        PROVE  /\ \A i \in DOMAIN down' : LastOf(down', i, "presence", Own) =>
                     down'[i].shown = session.other
               /\ NoneOf(down', "presence", Own) => client'.self = session.other
    BY <1>0 DEF OwnTrue
  <2>2. /\ \A i \in DOMAIN down : LastOf(down, i, "presence", Own) => down[i].shown = session.other
        /\ NoneOf(down, "presence", Own) => client.self = session.other
    BY <2>1 DEF RosterInv, OwnTrue
  <2>3. /\ NoneOf(down', "presence", Own) =>
              NoneOf(down, "presence", Own) \/ LastOf(down, 1, "presence", Own)
        /\ \A i \in DOMAIN down' :
             LastOf(down', i, "presence", Own) => LastOf(down, i + 1, "presence", Own)
    BY <1>0, TailKinds
  <2>4. client'.self = IF At(down, 1, "presence", Own) THEN down[1].shown ELSE client.self
    BY DEF Follows
  <2>5. NoneOf(down', "presence", Own) => client'.self = session.other
    <3>1. CASE NoneOf(down, "presence", Own) BY <3>1, <2>2, <2>4, <1>1 DEF NoneOf
    <3>2. CASE LastOf(down, 1, "presence", Own) BY <3>2, <2>2, <2>4, <1>1 DEF LastOf
    <3> QED BY <3>1, <3>2, <2>3
  <2> QED BY <2>2, <2>3, <2>5, <1>2
<1>16. ASSUME NEW c \in Contacts PROVE ContactInv(c)'
  <2>1. ContactInv(c) BY DEF RosterInv
  <2>2. ContactTrue(c)' /\ PresenceTrue(c)' /\ EditTrue(c)'
    BY <2>1, <1>0, <1>11, HeadKeeps DEF ContactInv
  <2>3. RequestKept(c)'
    <3>1. SUFFICES ASSUME session.available, client.sync, account[c].pending
          PROVE  \/ \E i \in DOMAIN down' : At(down', i, "subscribe", c)
                 \/ \E i \in DOMAIN up' : up'[i].kind \in Answering /\ up'[i].contact = c
      BY <1>0 DEF RequestKept
    <3>2. CASE \E i \in DOMAIN up : up[i].kind \in Answering /\ up[i].contact = c
      BY <3>2, <1>4, <1>5
    <3>3. ASSUME NEW i \in DOMAIN down, At(down, i, "subscribe", c)
          PROVE  \/ \E j \in DOMAIN down' : At(down', j, "subscribe", c)
                 \/ \E j \in DOMAIN up' : up'[j].kind \in Answering /\ up'[j].contact = c
      <4>1. CASE i # 1
        <5>1. i - 1 \in DOMAIN down' /\ At(down', i - 1, "subscribe", c)
          BY <3>3, <4>1, <1>3 DEF At
        <5> QED BY <5>1
      <4>2. CASE i = 1
        <5>1. PICK j \in DOMAIN s : s[j].kind \in Answering /\ s[j].contact = c
          BY <3>1, <3>3, <4>2 DEF At, Follows
        <5>2. Len(up) + j \in DOMAIN up' /\ up'[Len(up) + j] = s[j] BY <1>4, <1>6
        <5> QED BY <5>1, <5>2
      <4> QED BY <4>1, <4>2
    <3> QED BY <3>1, <3>2, <3>3, <2>1 DEF ContactInv, RequestKept
  <2> QED BY <2>2, <2>3 DEF ContactInv
<1> QED BY <1>8, <1>9, <1>10, <1>13, <1>14, <1>15, <1>16 DEF RosterInv, Phases
-----------------------------------------------------------------------------
(***************************************************************************)
(* The steps of the server, the contacts and the other clients have another*)
(* form: t is sent to the client, and a stanza of the client may be served.*)
(***************************************************************************)
OneServed ==
    /\ up # <<>> /\ client.filled /\ up' = Tail(up)
    /\ up[1].kind = "presence" => session'.available
OwnBrought(t) ==
    /\ \A i \in DOMAIN t : At(t, i, "presence", Own) => t[i].shown = session'.other
    /\ session'.available /\ NoneOf(t, "presence", Own) =>
          IF session.available THEN session'.other = session.other ELSE ~session'.other
RequestBrought(c, t) ==
    session'.available /\ account'[c].pending =>
        \/ \E i \in DOMAIN t : At(t, i, "subscribe", c)
        \/ /\ session.available /\ account[c].pending
           /\ up' # up => ~(up[1].kind \in Answering /\ up[1].contact = c)
Fits(t) ==
    /\ Joins(t)
    /\ \A i \in DOMAIN t : /\ t[i].kind # "roster"
                           /\ t[i].kind = "presence" => session'.available
                           /\ t[i].kind = "push" => session.interested
    /\ ~client.filled /\ ~session.interested => t = <<>>
    /\ history'.refused = history.refused /\ history'.stale = history.stale
    /\ up' = up \/ OneServed
    /\ OwnBrought(t)
    /\ \A c \in Contacts : Brings(c, t) /\ RequestBrought(c, t)

\* Every step of the server says what it changes.
LEMMA ServerKeeps ==
    ASSUME RosterTypes, RosterTypes', RosterInv, Entered', NEW t, Fits(t)
    PROVE  RosterInv'
<1>0. /\ down \in Seq(News) /\ t \in Seq(News) /\ down' = down \o t /\ up \in Seq(Requests)
      /\ client' = client /\ session'.interested = session.interested
      /\ session.available => session'.available
      /\ session'.available => client.filled
      /\ history'.refused = history.refused /\ history'.stale = history.stale
      /\ up' = up \/ OneServed
  BY DEF Fits, Joins, RosterTypes
<1>1. /\ Len(down) \in Nat /\ Len(t) \in Nat /\ Len(down') = Len(down) + Len(t)
      /\ DOMAIN down = 1 .. Len(down) /\ DOMAIN t = 1 .. Len(t)
      /\ DOMAIN down' = 1 .. Len(down) + Len(t)
      /\ \A i \in DOMAIN down : down'[i] = down[i]
      /\ \A i \in DOMAIN t : down'[Len(down) + i] = t[i]
  BY <1>0, JoinIs
<1>2. \A i \in DOMAIN down' :
        \/ i \in DOMAIN down /\ down'[i] = down[i]
        \/ i \notin DOMAIN down /\ \E j \in DOMAIN t : down'[i] = t[j]
  <2> TAKE i \in DOMAIN down'
  <2>1. CASE i \in DOMAIN down BY <2>1, <1>1
  <2>2. CASE i \notin DOMAIN down
    <3>1. i - Len(down) \in DOMAIN t /\ Len(down) + (i - Len(down)) = i BY <2>2, <1>1
    <3> QED BY <2>2, <3>1, <1>1
  <2> QED BY <2>1, <2>2
<1>3. \A i \in DOMAIN t : /\ t[i].kind # "roster"
                          /\ t[i].kind = "presence" => session'.available
                          /\ t[i].kind = "push" => session.interested
  BY DEF Fits
<1>4. OneServed =>
        /\ \A i \in DOMAIN up' : i + 1 \in DOMAIN up /\ up'[i] = up[i + 1]
        /\ \A i \in DOMAIN up : i # 1 => i - 1 \in DOMAIN up' /\ up'[i - 1] = up[i]
  <2>1. SUFFICES ASSUME OneServed
        PROVE  /\ \A i \in DOMAIN up' : i + 1 \in DOMAIN up /\ up'[i] = up[i + 1]
               /\ \A i \in DOMAIN up : i # 1 => i - 1 \in DOMAIN up' /\ up'[i - 1] = up[i]
    OBVIOUS
  <2>2. /\ Len(up) \in Nat \ {0}
        /\ \A i : i \in DOMAIN up' <=> i \in Nat /\ 1 <= i /\ i + 1 <= Len(up)
        /\ \A i : i \in DOMAIN up <=> i \in Nat /\ 1 <= i /\ i <= Len(up)
        /\ \A i \in DOMAIN up' : up'[i] = up[i + 1]
    BY <2>1, <1>0, TailIs DEF OneServed
  <2>3. \A i \in DOMAIN up' : i + 1 \in DOMAIN up /\ up'[i] = up[i + 1]
    <3> TAKE i \in DOMAIN up'
    <3>1. i \in Nat /\ 1 <= i /\ i + 1 <= Len(up) BY <2>2
    <3>2. i + 1 \in Nat /\ 1 <= i + 1 BY ONLY <3>1
    <3> QED BY <3>1, <3>2, <2>2
  <2>4. \A i \in DOMAIN up : i # 1 => i - 1 \in DOMAIN up' /\ up'[i - 1] = up[i]
    <3> TAKE i \in DOMAIN up
    <3>1. i \in Nat /\ 1 <= i /\ i <= Len(up) BY <2>2
    <3>2. i # 1 => i - 1 \in Nat /\ 1 <= i - 1 /\ (i - 1) + 1 <= Len(up) /\ (i - 1) + 1 = i
      BY ONLY <3>1, <2>2
    <3> QED BY <3>2, <2>2
  <2> QED BY <2>3, <2>4
<1>5. \A c \in Contacts : Brings(c, t) /\ RequestBrought(c, t) BY DEF Fits
<1>6. Phases BY DEF RosterInv
<1>7. t = <<>> => down' = down
  <2>1. down \o <<>> = down BY <1>0, ConcatEmptySeq
  <2> QED BY <2>1, <1>0
<1>8. Offline'
  <2>1. SUFFICES ASSUME ~client.online
        PROVE  /\ up' = <<>> /\ down' = <<>> /\ ~client.filled
               /\ ~session'.available /\ ~session'.interested
               /\ \A c \in Contacts : history'.edit[c] = NoName
    BY <1>0 DEF Offline
  <2>2. /\ up = <<>> /\ down = <<>> /\ ~client.filled
        /\ ~session.available /\ ~session.interested
        /\ \A c \in Contacts : history.edit[c] = NoName
    BY <2>1, <1>6 DEF Phases, Offline
  <2>3. t = <<>> BY <2>2 DEF Fits
  <2>4. \A c \in Contacts : history'.edit[c] = NoName BY <2>2, <1>5 DEF Brings, EditKept
  <2> QED BY <2>2, <2>3, <2>4, <1>0, <1>7 DEF OneServed
<1>9. Filling'
  <2>1. SUFFICES ASSUME client.online, ~client.filled
        PROVE  /\ ~session'.available /\ DOMAIN client.items = {}
               /\ Asking' \/ Answered'
    BY <1>0 DEF Filling
  <2>2. DOMAIN client.items = {} /\ (Asking \/ Answered) /\ up' = up
    BY <2>1, <1>0, <1>6 DEF Phases, Filling, OneServed
  <2>3. CASE Asking
    <3>1. t = <<>> BY <2>1, <2>3 DEF Fits, Asking
    <3> QED BY <2>1, <2>2, <2>3, <3>1, <1>0, <1>7 DEF Asking
  <2>4. CASE Answered
    <3>1. 1 \in DOMAIN down /\ 1 \in DOMAIN down' /\ down'[1] = down[1]
      <4>1. 1 \in DOMAIN down BY <2>4, <1>0, TailIs DEF Answered
      <4> QED BY <4>1, <1>1
    <3>2. down' # <<>> BY <3>1, NoStanza
    <3>3. \A i \in DOMAIN down' : i # 1 => down'[i].kind # "roster"
      <4> TAKE i \in DOMAIN down'
      <4>1. CASE i \in DOMAIN down /\ down'[i] = down[i] BY <2>4, <4>1 DEF Answered
      <4>2. CASE \E j \in DOMAIN t : down'[i] = t[j]
        <5>1. PICK j \in DOMAIN t : down'[i] = t[j] BY <4>2
        <5>2. down'[i].kind = t[j].kind BY <5>1
        <5> QED BY <5>1, <1>3, <5>2
      <4> QED BY <4>1, <4>2, <1>2
    <3> QED BY <2>1, <2>2, <2>4, <3>1, <3>2, <3>3, <1>0 DEF Answered
  <2> QED BY <2>1, <2>2, <2>3, <2>4, <1>0
<1>10. Filled'
  <2>1. SUFFICES ASSUME client.filled
        PROVE  /\ client.online
               /\ session.interested <=> ~history.refused
               /\ \A i \in DOMAIN up' : up'[i].kind # "get"
               /\ \A i \in DOMAIN down' : down'[i].kind # "roster"
               /\ session'.available \/ \E i \in DOMAIN up' : up'[i].kind = "presence"
               /\ session.interested => client.told = DOMAIN client.items
    BY <1>0 DEF Filled
  <2>2. Filled BY <1>6 DEF Phases
  <2>3. \A i \in DOMAIN up' : up'[i].kind # "get" BY <2>1, <2>2, <1>0, <1>4 DEF Filled
  <2>4. \A i \in DOMAIN down' : down'[i].kind # "roster"
    <3> TAKE i \in DOMAIN down'
    <3>1. CASE i \in DOMAIN down /\ down'[i] = down[i] BY <2>1, <2>2, <3>1 DEF Filled
    <3>2. CASE \E j \in DOMAIN t : down'[i] = t[j]
      <4>1. PICK j \in DOMAIN t : down'[i] = t[j] BY <3>2
      <4>2. down'[i].kind = t[j].kind BY <4>1
      <4> QED BY <4>1, <1>3, <4>2
    <3> QED BY <3>1, <3>2, <1>2
  <2>5. session'.available \/ \E i \in DOMAIN up' : up'[i].kind = "presence"
    <3>1. CASE session.available BY <3>1, <1>0
    <3>2. ASSUME NEW i \in DOMAIN up, up[i].kind = "presence"
          PROVE  session'.available \/ \E j \in DOMAIN up' : up'[j].kind = "presence"
      <4>1. CASE up' = up BY <3>2, <4>1
      <4>2. CASE OneServed /\ i = 1 BY <3>2, <4>2 DEF OneServed
      <4>3. CASE OneServed /\ i # 1
        <5>1. i - 1 \in DOMAIN up' /\ up'[i - 1] = up[i] BY <3>2, <4>3, <1>4
        <5> QED BY <3>2, <5>1
      <4> QED BY <4>1, <4>2, <4>3, <1>0
    <3> QED BY <3>1, <3>2, <2>1, <2>2 DEF Filled
  <2> QED BY <2>1, <2>2, <2>3, <2>4, <2>5 DEF Filled
<1>11. Unavailable'
  <2>1. SUFFICES ASSUME client.online, ~session'.available
        PROVE  /\ \A i \in DOMAIN down' : down'[i].kind # "presence"
               /\ \A c \in DOMAIN client.items : ~client.items[c].shown
               /\ ~history.stale => ~client.self
    BY <1>0 DEF Unavailable
  <2>2. ~session.available BY <2>1, <1>0
  <2>3. /\ \A i \in DOMAIN down : down[i].kind # "presence"
        /\ \A c \in DOMAIN client.items : ~client.items[c].shown
        /\ ~history.stale => ~client.self
    BY <2>1, <2>2, <1>6 DEF Phases, Unavailable
  <2>4. \A i \in DOMAIN down' : down'[i].kind # "presence"
    <3> TAKE i \in DOMAIN down'
    <3>1. CASE i \in DOMAIN down /\ down'[i] = down[i] BY <2>3, <3>1
    <3>2. CASE \E j \in DOMAIN t : down'[i] = t[j]
      <4>1. PICK j \in DOMAIN t : down'[i] = t[j] BY <3>2
      <4>2. down'[i].kind = t[j].kind BY <4>1
      <4> QED BY <4>1, <2>1, <1>3, <4>2
    <3> QED BY <3>1, <3>2, <1>2
  <2> QED BY <2>3, <2>4
<1>12. Uninterested'
  <2>1. SUFFICES ASSUME client.online, ~session.interested
        PROVE  (\A i \in DOMAIN down' : down'[i].kind # "push") /\ DOMAIN client.items = {}
    BY <1>0 DEF Uninterested
  <2>2. (\A i \in DOMAIN down : down[i].kind # "push") /\ DOMAIN client.items = {}
    BY <2>1, <1>6 DEF Phases, Uninterested
  <2>3. \A i \in DOMAIN down' : down'[i].kind # "push"
    <3> TAKE i \in DOMAIN down'
    <3>1. CASE i \in DOMAIN down /\ down'[i] = down[i] BY <2>2, <3>1
    <3>2. CASE \E j \in DOMAIN t : down'[i] = t[j]
      <4>1. PICK j \in DOMAIN t : down'[i] = t[j] BY <3>2
      <4>2. down'[i].kind = t[j].kind BY <4>1
      <4> QED BY  <2>1, <1>3, <4>2
    <3> QED BY <3>1, <3>2, <1>2
  <2> QED BY <2>2, <2>3
<1>13. OwnTrue'
  <2>1. SUFFICES ASSUME session'.available, ~history.stale
        PROVE  /\ \A i \in DOMAIN down' : LastOf(down', i, "presence", Own) =>
                     down'[i].shown = session'.other
               /\ NoneOf(down', "presence", Own) => client.self = session'.other
    BY <1>0 DEF OwnTrue
  <2>2. session.available =>
          /\ \A i \in DOMAIN down : LastOf(down, i, "presence", Own) =>
                down[i].shown = session.other
          /\ NoneOf(down, "presence", Own) => client.self = session.other
    BY <2>1 DEF RosterInv, OwnTrue
  <2>3. ~session.available =>
          (\A i \in DOMAIN down : down[i].kind # "presence") /\ ~client.self
    <3>1. client.online BY <2>1, <1>0, <1>6 DEF Phases, Filled
    <3> QED BY <3>1, <2>1, <1>6 DEF Phases, Unavailable
  <2> DEFINE q == down \o t
  <2>4. /\ NoneOf(q, "presence", Own) <=>
              NoneOf(down, "presence", Own) /\ NoneOf(t, "presence", Own)
        /\ \A i \in DOMAIN q : LastOf(q, i, "presence", Own) =>
              \/ /\ i \in DOMAIN down /\ q[i] = down[i]
                 /\ LastOf(down, i, "presence", Own) /\ NoneOf(t, "presence", Own)
              \/ \E j \in DOMAIN t : q[i] = t[j] /\ At(t, j, "presence", Own)
    BY ONLY <1>0, JoinKinds
  <2>5. q = down' BY <1>0
  <2> HIDE DEF q
  <2>6. OwnBrought(t) BY DEF Fits
  <2>7. ASSUME NEW i \in DOMAIN down', LastOf(down', i, "presence", Own)
        PROVE  down'[i].shown = session'.other
    <3>1. CASE /\ i \in DOMAIN down /\ down'[i] = down[i]
               /\ LastOf(down, i, "presence", Own) /\ NoneOf(t, "presence", Own)
      <4>1. session.available BY <3>1, <2>3 DEF LastOf, At
      <4> QED BY <3>1, <4>1, <2>1, <2>2, <2>6 DEF OwnBrought
    <3>2. CASE \E j \in DOMAIN t : down'[i] = t[j] /\ At(t, j, "presence", Own)
      BY <3>2, <2>6 DEF OwnBrought
    <3> QED BY <3>1, <3>2, <2>4, <2>5, <2>7
  <2>8. ASSUME NoneOf(down', "presence", Own) PROVE client.self = session'.other
    <3>1. NoneOf(down, "presence", Own) /\ NoneOf(t, "presence", Own) BY <2>4, <2>5, <2>8
    <3>2. client.self \in BOOLEAN /\ session'.other \in BOOLEAN BY DEF RosterTypes
    <3> QED BY <3>1, <3>2, <2>1, <2>2, <2>3, <2>6 DEF OwnBrought
  <2> QED BY <2>7, <2>8
<1>14. ASSUME NEW c \in Contacts PROVE ContactInv(c)'
  <2>1. ContactInv(c) BY DEF RosterInv
  <2>2. CASE ~client.online
    <3>1. ~session'.available /\ ~session'.interested /\ history'.edit[c] = NoName
      BY <2>2, <1>0, <1>8 DEF Offline
    <3> QED BY <3>1 DEF ContactInv, ContactTrue, PresenceTrue, RequestKept, EditTrue
  <2>3. CASE client.online
    <3>1. ContactTrue(c)' /\ PresenceTrue(c)' /\ EditTrue(c)'
      <4>1. account' \in [Contacts -> Entries] BY DEF RosterTypes
      <4>2. Joins(t) /\ Brings(c, t) BY <1>5 DEF Fits
      <4>3. ContactTrue(c) /\ PresenceTrue(c) /\ EditTrue(c) BY <2>1 DEF ContactInv
      <4>4. Filling /\ Unavailable BY <1>6 DEF Phases
      <4> QED BY ONLY RosterTypes, Entered', c \in Contacts, <2>3, <4>1, <4>2, <4>3, <4>4, JoinKeeps
    <3>2. RequestKept(c)'
      <4>1. SUFFICES ASSUME session'.available, client.sync, account'[c].pending
            PROVE  \/ \E i \in DOMAIN down' : At(down', i, "subscribe", c)
                   \/ \E i \in DOMAIN up' : up'[i].kind \in Answering /\ up'[i].contact = c
        BY <1>0 DEF RequestKept
      <4>2. CASE \E i \in DOMAIN t : At(t, i, "subscribe", c)
        <5>1. PICK i \in DOMAIN t : At(t, i, "subscribe", c) BY <4>2
        <5>2. Len(down) + i \in DOMAIN down' /\ At(down', Len(down) + i, "subscribe", c)
          BY <5>1, <1>1 DEF At
        <5> QED BY <5>2
      <4>3. CASE /\ session.available /\ account[c].pending
                 /\ up' # up => ~(up[1].kind \in Answering /\ up[1].contact = c)
        <5>1. CASE \E i \in DOMAIN down : At(down, i, "subscribe", c)
          <6>1. PICK i \in DOMAIN down : At(down, i, "subscribe", c) BY <5>1
          <6>2. i \in DOMAIN down' /\ At(down', i, "subscribe", c) BY <6>1, <1>1 DEF At
          <6> QED BY <6>2
        <5>2. ASSUME NEW i \in DOMAIN up, up[i].kind \in Answering, up[i].contact = c
              PROVE  \E j \in DOMAIN up' : up'[j].kind \in Answering /\ up'[j].contact = c
          <6>1. CASE up' = up BY <5>2, <6>1
          <6>2. CASE OneServed /\ up' # up
            <7>1. i # 1 BY <4>3, <5>2, <6>2
            <7>2. i - 1 \in DOMAIN up' /\ up'[i - 1] = up[i] BY <5>2, <6>2, <7>1, <1>4
            <7> QED BY <5>2, <7>2
          <6> QED BY <6>1, <6>2, <1>0
        <5> QED BY <4>1, <4>3, <5>1, <5>2, <2>1 DEF ContactInv, RequestKept
      <4> QED BY <4>1, <4>2, <4>3, <1>5 DEF RequestBrought
    <3> QED BY <3>1, <3>2 DEF ContactInv
  <2> QED BY <2>2, <2>3
<1> QED BY <1>8, <1>9, <1>10, <1>11, <1>12, <1>13, <1>14 DEF RosterInv, Phases
-----------------------------------------------------------------------------
(***************************************************************************)
(* The entry of one contact becomes a.                                     *)
(***************************************************************************)
Histories == [stimuli : Nat, refused : BOOLEAN, stale : BOOLEAN, edit : [Contacts -> AllNames]]

\* What is said by two sequences.
LEMMA JoinSaid ==
    ASSUME NEW s \in Seq(News), NEW t \in Seq(News)
    PROVE  s \o t \in Seq(News) /\ ToSet(s \o t) = ToSet(s) \cup ToSet(t)
<1> DEFINE q == s \o t
           n == Len(s)
           m == Len(t)
<1>1. /\ q \in Seq(News) /\ n \in Nat /\ m \in Nat /\ DOMAIN s = 1 .. n /\ DOMAIN t = 1 .. m
      /\ DOMAIN q = 1 .. n + m
      /\ \A i \in DOMAIN s : q[i] = s[i]
      /\ \A i \in DOMAIN t : q[n + i] = t[i]
  BY JoinIs
<1> HIDE DEF q, n, m
<1>2. \A i \in DOMAIN s : i \in DOMAIN q /\ q[i] = s[i] BY <1>1
<1>3. \A i \in DOMAIN t : n + i \in DOMAIN q /\ q[n + i] = t[i] BY <1>1
<1>4. \A i \in DOMAIN q : i \in DOMAIN s \/ (i - n \in DOMAIN t /\ n + (i - n) = i) BY <1>1
<1>5. ToSet(q) \subseteq ToSet(s) \cup ToSet(t)
  <2>1. ASSUME NEW i \in DOMAIN q PROVE q[i] \in ToSet(s) \cup ToSet(t)
    <3>1. CASE i \in DOMAIN s BY <3>1, <1>2 DEF ToSet
    <3>2. CASE i - n \in DOMAIN t /\ n + (i - n) = i
      <4>1. q[i] = t[i - n] BY <3>2, <1>3
      <4> QED BY <3>2, <4>1 DEF ToSet
    <3> QED BY <3>1, <3>2, <1>4
  <2> QED BY <2>1 DEF ToSet
<1>6. ToSet(s) \subseteq ToSet(q) BY <1>2 DEF ToSet
<1>7. ToSet(t) \subseteq ToSet(q)
  <2>1. ASSUME NEW i \in DOMAIN t PROVE t[i] \in ToSet(q)
    <3>1. n + i \in DOMAIN q /\ q[n + i] = t[i] BY <1>3
    <3> QED BY <3>1 DEF ToSet
  <2> QED BY <2>1 DEF ToSet
<1> QED BY <1>1, <1>5, <1>6, <1>7 DEF q

\* What is said by one stanza.
LEMMA OneSaid ==
    ASSUME NEW x \in News
    PROVE  <<x>> \in Seq(News) /\ ToSet(<<x>>) = {x} /\ <<x>> # <<>>
<1>1. /\ <<x>> \in Seq(News) /\ Len(<<x>>) = 1 /\ DOMAIN <<x>> = {1} /\ <<x>>[1] = x
      /\ <<x>> # <<>>
  BY OneStanza
<1> QED BY <1>1 DEF ToSet

\* Nothing is said by none.
LEMMA NoneSaid == <<>> \in Seq(News) /\ ToSet(<<>>) = {}
<1>1. <<>> \in Seq(News) /\ DOMAIN <<>> = {} BY NoStanza
<1> QED BY <1>1 DEF ToSet

\* From what a sequence says to where it says it.
LEMMA SaidIs ==
    ASSUME NEW t \in Seq(News)
    PROVE  /\ \A i \in DOMAIN t : t[i] \in ToSet(t)
           /\ \A kind, x : NoneOf(t, kind, x) <=>
                 \A m \in ToSet(t) : ~(m.kind = kind /\ m.contact = x)
           /\ \A kind, x : \A m \in ToSet(t) : m.kind = kind /\ m.contact = x =>
                 \E i \in DOMAIN t : At(t, i, kind, x)
           /\ ToSet(t) \subseteq News
<1>1. \A i \in DOMAIN t : t[i] \in ToSet(t) BY DEF ToSet
<1>2. \A m \in ToSet(t) : \E i \in DOMAIN t : m = t[i] BY DEF ToSet
<1>3. \A i \in DOMAIN t : t[i] \in News BY LenProperties, ElementOfSeq
<1>4. ASSUME NEW kind, NEW x
      PROVE  NoneOf(t, kind, x) <=> \A m \in ToSet(t) : ~(m.kind = kind /\ m.contact = x)
  BY <1>1, <1>2 DEF NoneOf, At
<1>5. ASSUME NEW kind, NEW x, NEW m \in ToSet(t), m.kind = kind, m.contact = x
      PROVE  \E i \in DOMAIN t : At(t, i, kind, x)
  BY <1>2, <1>5 DEF At
<1> QED BY <1>1, <1>2, <1>3, <1>4, <1>5

\* An edit under way ends with a push of another name, and nobody else's does.
LEMMA EditEndsIs ==
    ASSUME RosterTypes, NEW c \in Contacts, NEW a, NEW pushes
    PROVE  /\ EditEnds(c, a, pushes) \in [Contacts -> AllNames]
           /\ \A d \in Contacts : d # c => EditEnds(c, a, pushes)[d] = history.edit[d]
           /\ EditEnds(c, a, pushes)[c] # NoName =>
                 /\ EditEnds(c, a, pushes)[c] = history.edit[c]
                 /\ pushes = <<>> \/ a.name = history.edit[c]
<1>1. history.edit \in [Contacts -> AllNames] /\ NoName \in AllNames
  BY DEF RosterTypes, AllNames
<1> QED BY <1>1 DEF EditEnds

\* The stanzas the server makes are stanzas.
LEMMA StanzasAre ==
    ASSUME NEW c \in Contacts, NEW a \in Entries
    PROVE  /\ PushOf(c, a) \in News
           /\ \A x \in Contacts \cup {Own}, shown \in BOOLEAN :
                 /\ PresenceOf(x, shown) \in News
                 /\ PresenceOf(x, shown).kind = "presence" /\ PresenceOf(x, shown).contact = x
                 /\ PresenceOf(x, shown).shown = shown
           /\ \A kind \in Kinds \cup {"result"} :
                 /\ Stanza(kind, c) \in News
                 /\ Stanza(kind, c).kind = kind /\ Stanza(kind, c).contact = c
<1>1. PushOf(c, a) \in News
  <2> DEFINE x == [name |-> a.name, to |-> a.to, from |-> a.from, ask |-> a.ask]
  <2>1. x \in Data BY DEF Data, Entries
  <2>2. PushOf(c, a) = [kind |-> "push", contact |-> c, item |-> IF a.listed THEN <<x>> ELSE <<>>]
    BY DEF PushOf
  <2> HIDE DEF x
  <2>3. (IF a.listed THEN <<x>> ELSE <<>>) \in {<<>>} \cup {<<d>> : d \in Data} BY <2>1
  <2> DEFINE y == IF a.listed THEN <<x>> ELSE <<>>
  <2> HIDE DEF y
  <2>4. y \in {<<>>} \cup {<<d>> : d \in Data} /\ PushOf(c, a) = [kind |-> "push", contact |-> c, item |-> y]
    BY <2>2, <2>3 DEF y
  <2> QED BY <2>4 DEF News
<1>2. ASSUME NEW x \in Contacts \cup {Own}, NEW shown \in BOOLEAN
      PROVE  /\ PresenceOf(x, shown) \in News
             /\ PresenceOf(x, shown).kind = "presence" /\ PresenceOf(x, shown).contact = x
             /\ PresenceOf(x, shown).shown = shown
  BY DEF PresenceOf, News
<1>3. ASSUME NEW kind \in Kinds \cup {"result"}
      PROVE  /\ Stanza(kind, c) \in News
             /\ Stanza(kind, c).kind = kind /\ Stanza(kind, c).contact = c
  BY DEF Stanza, News
<1> QED BY <1>1, <1>2, <1>3

\* What the server says when an entry becomes another.
LEMMA BecomesIs ==
    ASSUME RosterTypes, NEW c \in Contacts, NEW a \in Entries
    PROVE  /\ Becomes(c, a) \in Seq(News) /\ Pushes(c, a) \in Seq(News)
           /\ \/ Pushes(c, a) = <<>>
              \/ Pushes(c, a) = <<PushOf(c, a)>> /\ session.interested
           /\ session.interested /\ Pushes(c, a) = <<>> =>
                 /\ a.listed = account[c].listed /\ a.name = account[c].name
                 /\ a.to = account[c].to /\ a.from = account[c].from /\ a.ask = account[c].ask
           /\ ToSet(Becomes(c, a)) = ToSet(Pushes(c, a)) \cup
                 (IF session.available /\ account[c].online /\ a.to # account[c].to
                  THEN {PresenceOf(c, a.to)} ELSE {})
           /\ ~session.interested /\ ~session.available => Becomes(c, a) = <<>>
<1>1. a.to \in BOOLEAN /\ account[c] \in Entries BY DEF RosterTypes, Entries
<1>2. PushOf(c, a) \in News /\ PresenceOf(c, a.to) \in News BY <1>1, StanzasAre
<1>3. /\ Pushes(c, a) \in Seq(News)
      /\ \/ Pushes(c, a) = <<>>
         \/ Pushes(c, a) = <<PushOf(c, a)>> /\ session.interested
  <2>1. Pushes(c, a) = <<>> \/ (Pushes(c, a) = <<PushOf(c, a)>> /\ session.interested)
    BY DEF Pushes
  <2> QED BY <2>1, <1>2, OneSaid, NoneSaid
<1>4. ASSUME session.interested, Pushes(c, a) = <<>>
      PROVE  /\ a.listed = account[c].listed /\ a.name = account[c].name
             /\ a.to = account[c].to /\ a.from = account[c].from /\ a.ask = account[c].ask
  <2>1. <<PushOf(c, a)>> # <<>> BY <1>2, OneSaid
  <2>2. Entry(a) = Entry(account[c]) BY <1>4, <2>1 DEF Pushes
  <2> QED BY <2>2, <1>1 DEF Entry, Entries
<1> DEFINE r == IF session.available /\ account[c].online /\ a.to # account[c].to
                THEN <<PresenceOf(c, a.to)>> ELSE <<>>
<1>5. /\ r \in Seq(News)
      /\ ToSet(r) = IF session.available /\ account[c].online /\ a.to # account[c].to
                    THEN {PresenceOf(c, a.to)} ELSE {}
  BY <1>2, OneSaid, NoneSaid
<1>6. Becomes(c, a) = Pushes(c, a) \o r BY DEF Becomes
<1>7. ~session.available => r = <<>> OBVIOUS
<1> HIDE DEF r
<1>8. Becomes(c, a) \in Seq(News) /\ ToSet(Becomes(c, a)) = ToSet(Pushes(c, a)) \cup ToSet(r)
  BY <1>3, <1>5, <1>6, JoinSaid
<1>9. ASSUME ~session.interested, ~session.available PROVE Becomes(c, a) = <<>>
  <2>1. Pushes(c, a) = <<>> /\ r = <<>> BY <1>3, <1>7, <1>9
  <2> QED BY <2>1, <1>6, NoneSaid, ConcatEmptySeq
<1> QED BY <1>3, <1>4, <1>5, <1>8, <1>9

\* A step of the server that changes one entry and says so.
LEMMA EntryKeeps ==
    ASSUME RosterTypes, RosterInv, NEW c \in Contacts, NEW a \in Entries, NEW again,
           again = <<>> \/ (again = <<PushOf(c, a)>> /\ session.interested),
           NEW more \in Seq(News),
           account' = [account EXCEPT ![c] = a],
           down' = down \o Becomes(c, a) \o again \o more,
           UNCHANGED <<client, session>>,
           up' = up \/ (OneServed /\ up[1].contact = c),
           history' \in Histories,
           history'.refused = history.refused, history'.stale = history.stale,
           history'.edit = EditEnds(c, a, Pushes(c, a) \o again),
           a.to => account[c].listed,
           a.name # NoName \/ a.to \/ a.from \/ a.ask => a.listed,
           a.to # account[c].to => a.online = account[c].online,
           more # <<>> => session.available \/ OneServed,
           \A m \in ToSet(more) :
              \/ m.kind \in Kinds \cup {"result"}
              \/ session.available /\ m = PresenceOf(c, a.to /\ a.online),
           session.available /\ a.to /\ a.online # account[c].online =>
              PresenceOf(c, a.online) \in ToSet(more),
           a.pending =>
              \/ session.available => Stanza("subscribe", c) \in ToSet(more)
              \/ account[c].pending /\ (up' = up \/ up[1].kind \notin Answering)
    PROVE  RosterTypes' /\ RosterInv'
<1>0. /\ account \in [Contacts -> Entries] /\ account[c] \in Entries
      /\ down \in Seq(News) /\ up \in Seq(Requests)
      /\ account'[c] = a /\ \A d \in Contacts : d # c => account'[d] = account[d]
  BY DEF RosterTypes
<1> DEFINE pushes == Pushes(c, a) \o again
           t == (Becomes(c, a) \o again) \o more
<1>1. /\ Becomes(c, a) \in Seq(News) /\ Pushes(c, a) \in Seq(News)
      /\ \/ Pushes(c, a) = <<>>
         \/ Pushes(c, a) = <<PushOf(c, a)>> /\ session.interested
      /\ session.interested /\ Pushes(c, a) = <<>> =>
            /\ a.listed = account[c].listed /\ a.name = account[c].name
            /\ a.to = account[c].to /\ a.from = account[c].from /\ a.ask = account[c].ask
      /\ ToSet(Becomes(c, a)) = ToSet(Pushes(c, a)) \cup
            (IF session.available /\ account[c].online /\ a.to # account[c].to
             THEN {PresenceOf(c, a.to)} ELSE {})
      /\ ~session.interested /\ ~session.available => Becomes(c, a) = <<>>
  BY BecomesIs
<1>2. /\ PushOf(c, a) \in News /\ <<PushOf(c, a)>> # <<>> /\ ToSet(<<PushOf(c, a)>>) = {PushOf(c, a)}
      /\ <<PushOf(c, a)>> \in Seq(News)
  BY StanzasAre, OneSaid
<1>3. again \in Seq(News) /\ ToSet(<<>>) = {} /\ <<>> \in Seq(News) BY <1>2, NoneSaid
<1>4. pushes \in Seq(News) /\ ToSet(pushes) = ToSet(Pushes(c, a)) \cup ToSet(again)
  BY <1>1, <1>3, JoinSaid
<1>5. /\ t \in Seq(News) /\ down \o t \in Seq(News)
      /\ ToSet(t) = (ToSet(Becomes(c, a)) \cup ToSet(again)) \cup ToSet(more)
      /\ down' = down \o t
  <2> DEFINE b == Becomes(c, a)
  <2>1. b \in Seq(News) /\ again \in Seq(News) /\ more \in Seq(News) /\ down \in Seq(News)
    BY <1>0, <1>1, <1>3
  <2>2. down' = ((down \o b) \o again) \o more /\ t = (b \o again) \o more OBVIOUS
  <2> HIDE DEF b, t
  <2>3. b \o again \in Seq(News) /\ ToSet(b \o again) = ToSet(b) \cup ToSet(again)
    BY ONLY <2>1, JoinSaid
  <2> DEFINE d == b \o again
  <2>4. d \in Seq(News) /\ t = d \o more BY <2>2, <2>3
  <2> HIDE DEF d
  <2>5. t \in Seq(News) /\ ToSet(t) = ToSet(d) \cup ToSet(more) BY ONLY <2>1, <2>4, JoinSaid
  <2>6. down \o t \in Seq(News) BY ONLY <2>1, <2>5, JoinSaid
  <2>7. (down \o b) \o again = down \o d BY ONLY <2>1, ConcatAssociative DEF d
  <2>8. (down \o d) \o more = down \o t BY ONLY <2>1, <2>4, ConcatAssociative, SMTT(30)
  <2> QED BY <2>2, <2>3, <2>5, <2>6, <2>7, <2>8 DEF b, d
<1>6. down' = down \o t BY <1>5
<1>7. \/ pushes = <<>> /\ Pushes(c, a) = <<>> /\ ToSet(pushes) = {}
      \/ pushes # <<>> /\ session.interested /\ ToSet(pushes) = {PushOf(c, a)}
  <2>1. pushes = <<>> => ToSet(pushes) = {} BY <1>3
  <2>2. ToSet(pushes) = {} => Pushes(c, a) = <<>> BY <1>1, <1>2, <1>4
  <2>3. ToSet(pushes) # {} => session.interested /\ ToSet(pushes) = {PushOf(c, a)}
    BY <1>1, <1>2, <1>3, <1>4
  <2>4. ToSet(pushes) = {} => pushes = <<>>
    <3>1. ASSUME ToSet(pushes) = {} PROVE pushes = <<>>
      <4>1. Pushes(c, a) = <<>> /\ again = <<>> BY <3>1, <1>1, <1>2, <1>4
      <4> QED BY <4>1, <1>3, ConcatEmptySeq
    <3> QED BY <3>1
  <2> QED BY <2>1, <2>2, <2>3, <2>4
<1>8. ~session.interested /\ ~session.available /\ more = <<>> => t = <<>>
  <2>1. SUFFICES ASSUME ~session.interested, ~session.available, more = <<>> PROVE t = <<>>
    OBVIOUS
  <2>2. Becomes(c, a) = <<>> /\ again = <<>> BY <2>1, <1>1
  <2> QED BY <2>1, <2>2, <1>3, ConcatEmptySeq
<1>9. \A m \in ToSet(t) :
        \/ m = PushOf(c, a) /\ pushes # <<>> /\ session.interested
        \/ /\ m = PresenceOf(c, a.to) /\ session.available
           /\ account[c].online /\ a.to # account[c].to
        \/ m.kind \in Kinds \cup {"result"}
        \/ m = PresenceOf(c, a.to /\ a.online) /\ session.available
  BY <1>1, <1>4, <1>5, <1>7
<1>10. /\ pushes # <<>> => PushOf(c, a) \in ToSet(t)
       /\ session.available /\ account[c].online /\ a.to # account[c].to =>
             PresenceOf(c, a.to) \in ToSet(t)
       /\ \A m \in ToSet(more) : m \in ToSet(t)
  BY <1>1, <1>4, <1>5, <1>7
<1> HIDE DEF pushes, t
<1>11. RosterTypes'
  <2>1. account' \in [Contacts -> Entries] BY <1>0
  <2>2. down' \in Seq(News) BY <1>5, <1>6
  <2>3. up # <<>> => Tail(up) \in Seq(Requests) BY ONLY <1>0, TailIs
  <2>4. up' \in Seq(Requests) BY <1>0, <2>3 DEF OneServed
  <2> QED BY <2>1, <2>2, <2>4 DEF RosterTypes, Histories
<1>12. Entered' BY <1>0 DEF RosterInv, Entered
<1>13. /\ PushOf(c, a).kind = "push" /\ PushOf(c, a).contact = c
       /\ \A shown \in BOOLEAN : /\ PresenceOf(c, shown).kind = "presence"
                                 /\ PresenceOf(c, shown).contact = c
                                 /\ PresenceOf(c, shown).shown = shown
       /\ Stanza("subscribe", c).kind = "subscribe" /\ Stanza("subscribe", c).contact = c
  BY PushItem, StanzasAre DEF Kinds
<1>14. /\ a.to \in BOOLEAN /\ a.online \in BOOLEAN /\ (a.to /\ a.online) \in BOOLEAN
       /\ account[c].to \in BOOLEAN /\ account[c].online \in BOOLEAN
  BY <1>0 DEF Entries
<1>15. /\ \A i \in DOMAIN t : t[i] \in ToSet(t)
       /\ \A kind, x : NoneOf(t, kind, x) <=>
             \A m \in ToSet(t) : ~(m.kind = kind /\ m.contact = x)
       /\ \A kind, x : \A m \in ToSet(t) : m.kind = kind /\ m.contact = x =>
             \E i \in DOMAIN t : At(t, i, kind, x)
  BY <1>5, SaidIs
<1>16. \A kind \in Kinds \cup {"result"} :
          kind # "push" /\ kind # "presence" /\ kind # "roster"
  BY DEF Kinds
<1>17. \A m \in ToSet(t) :
          /\ m.kind # "roster"
          /\ m.kind = "presence" => /\ session.available /\ m.contact = c
                                    /\ m.shown = (a.to /\ a.online)
          /\ m.kind = "push" => /\ session.interested /\ m.contact = c /\ pushes # <<>>
                                /\ m = PushOf(c, a)
  <2> TAKE m \in ToSet(t)
  <2>1. CASE m = PushOf(c, a) /\ pushes # <<>> /\ session.interested BY <2>1, <1>13
  <2>2. CASE /\ m = PresenceOf(c, a.to) /\ session.available
             /\ account[c].online /\ a.to # account[c].to
    <3>1. a.online = account[c].online BY <2>2
    <3>2. a.to = (a.to /\ a.online) BY <2>2, <3>1, <1>14
    <3>3. /\ m.kind = "presence" /\ m.contact = c /\ m.shown = a.to BY <2>2, <1>13, <1>14
    <3> QED BY <2>2, <3>2, <3>3
  <2>3. CASE m.kind \in Kinds \cup {"result"} BY <2>3, <1>16
  <2>4. CASE m = PresenceOf(c, a.to /\ a.online) /\ session.available
    <3>1. /\ m.kind = "presence" /\ m.contact = c /\ m.shown = (a.to /\ a.online)
      BY <2>4, <1>13, <1>14
    <3> QED BY <2>4, <3>1
  <2> QED BY <2>1, <2>2, <2>3, <2>4, <1>9
<1>18. /\ session.available => client.filled
       /\ ~client.filled /\ ~session.interested => t = <<>>
  <2>1. Offline /\ Filling BY DEF RosterInv, Phases
  <2>2. session.available => client.filled BY <2>1 DEF Offline, Filling
  <2>3. ~client.filled => more = <<>> BY <2>2 DEF OneServed
  <2> QED BY <2>2, <2>3, <1>8
<1>19. Joins(t) BY <1>5, <1>6, <1>18 DEF Joins
<1>20. Seen(c)' = (a.to /\ a.online) /\ Seen(c) = (account[c].to /\ account[c].online)
  BY <1>0 DEF Seen
<1>21. ASSUME NEW d \in Contacts, d # c PROVE Brings(d, t) /\ RequestBrought(d, t)
  <2>1. UNCHANGED account[d] /\ Seen(d)' = Seen(d) BY <1>0, <1>21 DEF Seen
  <2>2. NoneOf(t, "push", d) /\ NoneOf(t, "presence", d) BY <1>15, <1>17, <1>21
  <2>3. history'.edit[d] = history.edit[d] BY <1>21, EditEndsIs
  <2>4. Seen(d)' => account[d].listed BY <2>1 DEF RosterInv, Entered, Seen
  <2>5. Brings(d, t)
    BY <2>1, <2>2, <2>3, <2>4 DEF Brings, NoneOf, SameEntry, EditKept
  <2>6. RequestBrought(d, t)
    BY <2>1, <1>21 DEF RequestBrought
  <2> QED BY <2>5, <2>6
<1>22. Brings(c, t)
  <2>1. \A i \in DOMAIN t : At(t, i, "push", c) => t[i].item = PushOf(c, account'[c]).item
    BY <1>0, <1>15, <1>17 DEF At
  <2>2. NoneOf(t, "push", c) => pushes = <<>> /\ Pushes(c, a) = <<>>
    <3>1. PushOf(c, a) \in ToSet(t) => ~NoneOf(t, "push", c) BY <1>13, <1>15
    <3> QED BY <3>1, <1>7, <1>10
  <2>3. session.interested /\ NoneOf(t, "push", c) => SameEntry(c)
    BY <2>2, <1>0, <1>1 DEF SameEntry
  <2>4. \A i \in DOMAIN t : At(t, i, "presence", c) => t[i].shown = Seen(c)'
    BY <1>15, <1>17, <1>20 DEF At
  <2>5. ASSUME session.available, NoneOf(t, "presence", c) PROVE Seen(c)' = Seen(c)
    <3>1. \A shown \in BOOLEAN : PresenceOf(c, shown) \notin ToSet(t) BY <2>5, <1>13, <1>15
    <3>2. ~(account[c].online /\ a.to # account[c].to) BY <2>5, <3>1, <1>10, <1>14
    <3>3. ~(a.to /\ a.online # account[c].online) BY <2>5, <3>1, <1>10, <1>14
    <3> QED BY <3>2, <3>3, <1>14, <1>20
  <2>6. Seen(c)' => account[c].listed BY <1>20
  <2>7. EditKept(c, t)
    <3>1. SUFFICES ASSUME history'.edit[c] # NoName
          PROVE  /\ history'.edit[c] = history.edit[c]
                 /\ \/ account'[c].name = history.edit[c]
                    \/ NoneOf(t, "push", c) /\ account'[c].name = account[c].name
      BY DEF EditKept
    <3>2. /\ history'.edit[c] = history.edit[c]
          /\ pushes = <<>> \/ a.name = history.edit[c]
      <4>1. history'.edit = EditEnds(c, a, pushes) BY DEF pushes
      <4>2. c \in Contacts OBVIOUS
      <4> QED BY ONLY RosterTypes, <3>1, <4>1, <4>2, EditEndsIs
    <3>3. session.interested
      <4>1. EditTrue(c) /\ Offline /\ Uninterested BY DEF RosterInv, ContactInv, Phases
      <4>2. c \in DOMAIN client.items /\ client.online
        BY <3>1, <3>2, <4>1 DEF EditTrue, Offline
      <4> QED BY <4>1, <4>2 DEF Uninterested
    <3>4. CASE pushes = <<>>
      <4>1. Pushes(c, a) = <<>> BY <3>4, <1>7
      <4>2. account'[c].name = account[c].name BY <3>3, <4>1, <1>0, <1>1
      <4>3. NoneOf(t, "push", c) BY <3>4, <1>15, <1>17
      <4> QED BY <3>2, <4>2, <4>3
    <3>5. CASE a.name = history.edit[c] BY <3>2, <3>5, <1>0
    <3> QED BY <3>2, <3>4, <3>5
  <2> QED BY <2>1, <2>3, <2>4, <2>5, <2>6, <2>7 DEF Brings
<1>23. RequestBrought(c, t)
  <2>1. SUFFICES ASSUME session.available, a.pending
        PROVE  \/ \E i \in DOMAIN t : At(t, i, "subscribe", c)
               \/ /\ account[c].pending
                  /\ up' # up => ~(up[1].kind \in Answering /\ up[1].contact = c)
    BY <1>0 DEF RequestBrought
  <2>2. CASE Stanza("subscribe", c) \in ToSet(more)
    <3>1. Stanza("subscribe", c) \in ToSet(t) BY <2>2, <1>10
    <3> QED BY <3>1, <1>13, <1>15
  <2>3. CASE account[c].pending /\ (up' = up \/ up[1].kind \notin Answering) BY <2>3
  <2> QED BY <2>1, <2>2, <2>3
<1>24. OwnBrought(t)
  <2>1. c # Own BY RosterAssumption
  <2>2. NoneOf(t, "presence", Own) BY <2>1, <1>15, <1>17
  <2> QED BY <2>2 DEF OwnBrought, NoneOf
<1>25. Fits(t)
  <2>1. \A i \in DOMAIN t : /\ t[i].kind # "roster"
                            /\ t[i].kind = "presence" => session'.available
                            /\ t[i].kind = "push" => session.interested
    BY <1>15, <1>17
  <2>2. \A d \in Contacts : Brings(d, t) /\ RequestBrought(d, t) BY <1>21, <1>22, <1>23
  <2>3. up' = up \/ OneServed OBVIOUS
  <2> QED BY <2>1, <2>2, <2>3, <1>18, <1>19, <1>24 DEF Fits
<1> QED BY <1>11, <1>12, <1>25, ServerKeeps

\* What the server makes of an entry.
LEMMA ServedIs ==
    ASSUME RosterTypes, Entered, NEW st, st.contact \in Contacts,
           st.kind \in Kinds \cup {"set", "remove"}, st.kind = "set" => st.name \in AllNames
    PROVE  /\ Served(st) \in Entries
           /\ Served(st).to => account[st.contact].listed
           /\ Served(st).name # NoName \/ Served(st).to \/ Served(st).from \/ Served(st).ask =>
                 Served(st).listed
           /\ Served(st).online = account[st.contact].online
           /\ Served(st).pending =>
                 account[st.contact].pending /\ st.kind \notin Answering
<1> DEFINE e == account[st.contact]
<1>1. /\ e \in Entries /\ (e.to => e.listed)
      /\ e.name # NoName \/ e.to \/ e.from \/ e.ask => e.listed
  BY DEF RosterTypes, Entered
<1>2. NoName \in AllNames BY DEF AllNames
<1>3. Served(st) =
        CASE st.kind = "set" -> [e EXCEPT !.listed = TRUE, !.name = st.name]
          [] st.kind = "remove" ->
               [e EXCEPT !.listed = FALSE, !.name = NoName, !.to = FALSE, !.from = FALSE,
                         !.ask = FALSE, !.pending = FALSE]
          [] st.kind = "subscribe" ->
               IF e.to THEN e ELSE [e EXCEPT !.listed = TRUE, !.ask = TRUE]
          [] st.kind = "unsubscribe" -> [e EXCEPT !.to = FALSE, !.ask = FALSE]
          [] st.kind = "subscribed" ->
               IF e.pending THEN [e EXCEPT !.listed = TRUE, !.from = TRUE, !.pending = FALSE]
               ELSE e
          [] st.kind = "unsubscribed" -> [e EXCEPT !.from = FALSE, !.pending = FALSE]
  BY DEF Served
<1> HIDE DEF e
<1> DEFINE Fine(a) ==
        /\ a \in Entries /\ (a.to => e.listed)
        /\ a.name # NoName \/ a.to \/ a.from \/ a.ask => a.listed
        /\ a.online = e.online
        /\ a.pending => e.pending /\ st.kind \notin Answering
<1>4. CASE st.kind = "set"
  <2>1. Served(st) = [e EXCEPT !.listed = TRUE, !.name = st.name] BY <1>3, <1>4
  <2>2. st.kind \notin Answering BY <1>4 DEF Answering
  <2> QED BY <2>1, <2>2, <1>1, <1>4 DEF Entries, e
<1>5. CASE st.kind = "remove"
  <2>1. Served(st) = [e EXCEPT !.listed = FALSE, !.name = NoName, !.to = FALSE, !.from = FALSE,
                               !.ask = FALSE, !.pending = FALSE]
    BY <1>3, <1>5
  <2> QED BY <2>1, <1>1, <1>2 DEF Entries, e
<1>6. CASE st.kind = "subscribe"
  <2>1. Served(st) = IF e.to THEN e ELSE [e EXCEPT !.listed = TRUE, !.ask = TRUE]
    BY <1>3, <1>6
  <2>2. st.kind \notin Answering BY <1>6 DEF Answering
  <2> QED BY <2>1, <2>2, <1>1 DEF Entries, e
<1>7. CASE st.kind = "unsubscribe"
  <2>1. Served(st) = [e EXCEPT !.to = FALSE, !.ask = FALSE] BY <1>3, <1>7
  <2>2. st.kind \notin Answering BY <1>7 DEF Answering
  <2> QED BY <2>1, <2>2, <1>1 DEF Entries, e
<1>8. CASE st.kind = "subscribed"
  <2>1. Served(st) = IF e.pending THEN [e EXCEPT !.listed = TRUE, !.from = TRUE, !.pending = FALSE]
                     ELSE e
    BY <1>3, <1>8
  <2> QED BY <2>1, <1>1 DEF Entries, e
<1>9. CASE st.kind = "unsubscribed"
  <2>1. Served(st) = [e EXCEPT !.from = FALSE, !.pending = FALSE] BY <1>3, <1>9
  <2> QED BY <2>1, <1>1 DEF Entries, e
<1> QED BY <1>4, <1>5, <1>6, <1>7, <1>8, <1>9 DEF Kinds

\* The request at the head of the queue.
LEMMA RequestIs ==
    ASSUME RosterTypes, RosterInv, up # <<>>
    PROVE  /\ Tail(up) \in Seq(Requests) /\ up[1] \in Requests
           /\ client.filled \/ (up[1].kind = "get" /\ up[1].contact = Own)
           /\ up[1].contact \in Contacts =>
                 /\ client.filled /\ up[1].kind \in Kinds \cup {"set", "remove"}
                 /\ up[1].kind = "set" => up[1].name \in AllNames
           /\ up[1].kind \in Kinds \cup {"set", "remove"} => up[1].contact \in Contacts
<1>1. Tail(up) \in Seq(Requests) /\ up[1] \in Requests BY TailIs DEF RosterTypes
<1>2. Offline /\ Filling BY DEF RosterInv, Phases
<1>3. [kind |-> "get", contact |-> Own] \in Requests BY DEF Requests
<1>4. client.filled \/ (up[1].kind = "get" /\ up[1].contact = Own)
  BY <1>2, <1>3, OneStanza DEF Offline, Filling, Asking, Answered
<1>5. /\ up[1].contact \in Contacts =>
            /\ up[1].kind \in Kinds \cup {"set", "remove"}
            /\ up[1].kind = "set" => up[1].name \in AllNames
      /\ up[1].kind \in Kinds \cup {"set", "remove"} => up[1].contact \in Contacts
  BY <1>1, RosterAssumption DEF Requests, Kinds
<1> QED BY <1>1, <1>4, <1>5, RosterAssumption

\* The server serves an item that is set or removed, or a subscription.
LEMMA ServeKeeps ==
    ASSUME RosterTypes, RosterInv, Serve
    PROVE  RosterTypes' /\ RosterInv'
<1> DEFINE st == up[1]
           c == st.contact
           a == Served(st)
           again == IF session.interested /\ st.kind = "set" /\ a = account[c]
                    THEN <<PushOf(c, a)>> ELSE <<>>
           more == ResultOf(st)
<1>1. /\ up # <<>> /\ c \in Contacts /\ up' = Tail(up)
      /\ account' = [account EXCEPT ![c] = a]
      /\ down' = down \o Becomes(c, a) \o again \o more
      /\ history' = [history EXCEPT !.edit = EditEnds(c, a, Pushes(c, a) \o again)]
      /\ UNCHANGED <<client, session>>
  BY DEF Serve
<1>2. /\ client.filled /\ st.kind \in Kinds \cup {"set", "remove"}
      /\ st.kind = "set" => st.name \in AllNames
  BY <1>1, RequestIs
<1>3. again = <<>> \/ (again = <<PushOf(c, a)>> /\ session.interested) OBVIOUS
<1>4. /\ a \in Entries
      /\ a.to => account[c].listed
      /\ a.name # NoName \/ a.to \/ a.from \/ a.ask => a.listed
      /\ a.online = account[c].online
      /\ a.pending => account[c].pending /\ st.kind \notin Answering
  BY <1>1, <1>2, ServedIs DEF RosterInv
<1>5. OneServed BY <1>1, <1>2 DEF OneServed, Kinds
<1>6. more \in Seq(News) /\ \A m \in ToSet(more) : m.kind \in Kinds \cup {"result"}
  <2>1. Stanza("result", c) \in News /\ Stanza("result", c).kind = "result" BY <1>1, <1>4, StanzasAre
  <2>2. more = <<Stanza("result", c)>> \/ more = <<>> BY DEF ResultOf, Stanza
  <2> QED BY <2>1, <2>2, OneSaid, NoneSaid
<1>7. /\ history' \in Histories
      /\ history'.refused = history.refused /\ history'.stale = history.stale
      /\ history'.edit = EditEnds(c, a, Pushes(c, a) \o again)
  <2> DEFINE e == EditEnds(c, a, Pushes(c, a) \o again)
  <2>1. e \in [Contacts -> AllNames] BY <1>1, EditEndsIs
  <2>2. history' = [history EXCEPT !.edit = e] /\ history \in Histories
    BY <1>1 DEF RosterTypes, Histories
  <2> HIDE DEF e
  <2>3. /\ history' \in Histories
        /\ history'.refused = history.refused /\ history'.stale = history.stale
        /\ history'.edit = e
    BY <2>1, <2>2 DEF Histories
  <2> QED BY <2>3 DEF e
<1> HIDE DEF again, more, a, c, st
<1>8. a.online = account[c].online => ~(session.available /\ a.to /\ a.online # account[c].online)
  OBVIOUS
<1>9. up[1].contact = c /\ up[1] = st BY DEF c, st
<1>10. a.pending => account[c].pending /\ (up' = up \/ up[1].kind \notin Answering)
  BY <1>4, <1>9
<1> QED BY <1>1, <1>3, <1>4, <1>5, <1>6, <1>7, <1>8, <1>9, <1>10, EntryKeeps

\* A finite set put in some order.
LEMMA InSomeOrder ==
    ASSUME NEW S, IsFiniteSet(S)
    PROVE  /\ Cardinality(S) \in Nat /\ SetToSeq(S) \in [1 .. Cardinality(S) -> S]
           /\ IsInjective(SetToSeq(S))
<1> DEFINE n == Cardinality(S)
<1>1. n \in Nat /\ ExistsBijection(1 .. n, S) BY FS_CardinalityType
<1>2. \E g \in [1 .. n -> S] : IsInjective(g)
  BY <1>1 DEF ExistsBijection, Bijection, Injection
<1> QED BY <1>1, <1>2 DEF SetToSeq

\* A set put in some order says what is in it.
LEMMA SetIsSaid ==
    ASSUME NEW S \in SUBSET News, IsFiniteSet(S)
    PROVE  SetToSeq(S) \in Seq(News) /\ ToSet(SetToSeq(S)) = S
<1> DEFINE n == Cardinality(S)
           f == SetToSeq(S)
<1>1. n \in Nat BY FS_CardinalityType
<1>3. f \in [1 .. n -> S] /\ IsInjective(f) BY InSomeOrder
<1> HIDE DEF f
<1>4. f \in Seq(News)
  <2>1. f \in [1 .. n -> News] BY <1>3
  <2> QED BY <1>1, <2>1, SeqDef
<1>5. f \in Surjection(1 .. n, S)
  <2>1. f \in Injection(1 .. n, S) BY <1>3 DEF Injection
  <2>2. IsFiniteSet(1 .. n) /\ Cardinality(1 .. n) = n BY <1>1, FS_Interval
  <2> QED BY <2>1, <2>2, FS_Injection
<1>6. ToSet(f) = S BY <1>3, <1>5 DEF ToSet, Surjection
<1> QED BY <1>4, <1>6 DEF f

\* A stanza for each of some contacts is a finite set: there are finitely many.
LEMMA SaidOfEach ==
    ASSUME NEW C \in SUBSET Contacts
    PROVE  /\ IsFiniteSet({PresenceOf(c, TRUE) : c \in C})
           /\ IsFiniteSet({Stanza("subscribe", c) : c \in C})
<1>1. IsFiniteSet(C) BY RosterAssumption, FS_Subset
<1>2. IsFiniteSet({PresenceOf(c, TRUE) : c \in C})
  <2> DEFINE T == {PresenceOf(c, TRUE) : c \in C}
             f == [c \in C |-> PresenceOf(c, TRUE)]
  <2>1. f \in Surjection(C, T) BY DEF Surjection
  <2> HIDE DEF f, T
  <2>2. IsFiniteSet(T) BY <1>1, <2>1, FS_Surjection
  <2> QED BY <2>2 DEF T
<1>3. IsFiniteSet({Stanza("subscribe", c) : c \in C})
  <2> DEFINE T == {Stanza("subscribe", c) : c \in C}
             f == [c \in C |-> Stanza("subscribe", c)]
  <2>1. f \in Surjection(C, T) BY DEF Surjection
  <2> HIDE DEF f, T
  <2>2. IsFiniteSet(T) BY <1>1, <2>1, FS_Surjection
  <2> QED BY <2>2 DEF T
<1> QED BY <1>2, <1>3

\* The server refuses the roster.
LEMMA RefuseKeeps ==
    ASSUME RosterTypes, RosterInv, Refuse
    PROVE  RosterTypes' /\ RosterInv'
<1> DEFINE st == up[1]
           c == st.contact
           a == account[c]
           more == ResultOf(st)
           again == <<>>
<1>1. /\ up # <<>> /\ st.kind \in {"set", "remove"} /\ up' = Tail(up) /\ down' = down \o more
      /\ UNCHANGED <<client, account, session, history>>
  BY DEF Refuse
<1>2. client.filled /\ c \in Contacts BY <1>1, RequestIs
<1>3. /\ a \in Entries /\ account \in [Contacts -> Entries]
      /\ a.to => a.listed
      /\ a.name # NoName \/ a.to \/ a.from \/ a.ask => a.listed
  BY <1>2 DEF RosterTypes, RosterInv, Entered
<1>4. OneServed BY <1>1, <1>2 DEF OneServed
<1>5. more \in Seq(News) /\ \A m \in ToSet(more) : m.kind \in Kinds \cup {"result"}
  <2>1. Stanza("result", c) \in News /\ Stanza("result", c).kind = "result" BY <1>2, <1>3, StanzasAre
  <2>2. more = <<Stanza("result", c)>> \/ more = <<>> BY DEF ResultOf, Stanza
  <2> QED BY <2>1, <2>2, OneSaid, NoneSaid
<1>6. Pushes(c, a) = <<>> /\ Becomes(c, a) = <<>>
  <2>1. Pushes(c, a) = <<>> BY DEF Pushes
  <2>2. Becomes(c, a) = Pushes(c, a) \o <<>> BY DEF Becomes
  <2> QED BY <2>1, <2>2, NoneSaid, ConcatEmptySeq
<1>7. down' = down \o Becomes(c, a) \o again \o more
  BY <1>1, <1>6, ConcatEmptySeq DEF RosterTypes
<1>8. history'.edit = EditEnds(c, a, Pushes(c, a) \o again)
  <2>1. Pushes(c, a) \o <<>> = <<>> BY <1>6, NoneSaid, ConcatEmptySeq
  <2>2. history.edit = [history.edit EXCEPT ![c] = @] BY DEF RosterTypes
  <2> QED BY <2>1, <2>2, <1>1 DEF EditEnds
<1>9. history' \in Histories BY <1>1 DEF RosterTypes, Histories
<1>10. account' = [account EXCEPT ![c] = a] BY <1>1, <1>3
<1>11. up[1].kind \notin Answering BY <1>1 DEF Answering
<1>15. again = <<>> \/ (again = <<PushOf(c, a)>> /\ session.interested) OBVIOUS
<1> HIDE DEF more, a, c, st, again
<1>12. up[1].contact = c /\ a = account[c] BY DEF c, st, a
<1>13. /\ history'.refused = history.refused /\ history'.stale = history.stale
       /\ UNCHANGED <<client, session>>
       /\ up' = up \/ (OneServed /\ up[1].contact = c)
  BY <1>1, <1>4, <1>12
<1>14. /\ \A m \in ToSet(more) :
             \/ m.kind \in Kinds \cup {"result"}
             \/ session.available /\ m = PresenceOf(c, a.to /\ a.online)
       /\ a.to => account[c].listed
       /\ a.to # account[c].to => a.online = account[c].online
       /\ session.available /\ a.to /\ a.online # account[c].online =>
             PresenceOf(c, a.online) \in ToSet(more)
       /\ more # <<>> => session.available \/ OneServed
       /\ a.pending =>
             \/ session.available => Stanza("subscribe", c) \in ToSet(more)
             \/ account[c].pending /\ (up' = up \/ up[1].kind \notin Answering)
  BY <1>3, <1>4, <1>5, <1>11, <1>12
<1> QED
  BY <1>2, <1>3, <1>5, <1>7, <1>8, <1>9, <1>10, <1>13, <1>14, <1>15, EntryKeeps

\* The client becomes available: who is there, and who asked, is said to it.
LEMMA ServePresenceKeeps ==
    ASSUME RosterTypes, RosterInv, ServePresence
    PROVE  RosterTypes' /\ RosterInv'
<1> DEFINE P == {PresenceOf(c, TRUE) : c \in {c \in Contacts : account[c].to /\ account[c].online}}
           R == {Stanza("subscribe", c) : c \in {c \in Contacts : account[c].pending}}
           own == IF session.other THEN <<PresenceOf(Own, TRUE)>> ELSE <<>>
           p == SetToSeq(P)
           r == SetToSeq(R)
           t == (own \o p) \o r
<1>1. /\ up # <<>> /\ up[1].kind = "presence" /\ up' = Tail(up)
      /\ down' = ((down \o own) \o p) \o r
      /\ session' = [session EXCEPT !.available = TRUE]
      /\ UNCHANGED <<client, account, history>>
  BY DEF ServePresence
<1>2. client.filled /\ Tail(up) \in Seq(Requests) BY <1>1, RequestIs
<1>3. /\ account \in [Contacts -> Entries] /\ down \in Seq(News)
      /\ session \in [available : BOOLEAN, interested : BOOLEAN, other : BOOLEAN]
  BY DEF RosterTypes
<1>4. /\ session' \in [available : BOOLEAN, interested : BOOLEAN, other : BOOLEAN]
      /\ session'.available = TRUE /\ session'.interested = session.interested
      /\ session'.other = session.other
  BY <1>1, <1>3
<1>5. Own \notin Contacts BY RosterAssumption
<1>6. ASSUME NEW x \in Contacts \cup {Own}
      PROVE  /\ PresenceOf(x, TRUE) \in News /\ PresenceOf(x, TRUE).kind = "presence"
             /\ PresenceOf(x, TRUE).contact = x /\ PresenceOf(x, TRUE).shown = TRUE
  BY DEF PresenceOf, News
<1>7. ASSUME NEW c \in Contacts
      PROVE  /\ Stanza("subscribe", c) \in News /\ Stanza("subscribe", c).kind = "subscribe"
             /\ Stanza("subscribe", c).contact = c
  BY DEF Stanza, News, Kinds
<1>8. own \in Seq(News) /\ ToSet(own) = IF session.other THEN {PresenceOf(Own, TRUE)} ELSE {}
  BY <1>6, OneSaid, NoneSaid
<1>9. p \in Seq(News) /\ ToSet(p) = P
  <2>1. IsFiniteSet(P) /\ P \subseteq News BY <1>6, SaidOfEach
  <2> HIDE DEF P
  <2> QED BY <2>1, SetIsSaid
<1>10. r \in Seq(News) /\ ToSet(r) = R
  <2>1. IsFiniteSet(R) /\ R \subseteq News BY <1>7, SaidOfEach
  <2> HIDE DEF R
  <2> QED BY <2>1, SetIsSaid
<1> HIDE DEF own, p, r, P, R
<1>11. own \o p \in Seq(News) /\ ToSet(own \o p) = ToSet(own) \cup ToSet(p)
  BY <1>8, <1>9, JoinSaid
<1>12. t \in Seq(News) /\ ToSet(t) = (ToSet(own) \cup P) \cup R
  BY <1>9, <1>10, <1>11, JoinSaid
<1>13. down' = down \o t /\ down' \in Seq(News)
  <2>1. (down \o own) \o p = down \o (own \o p) BY <1>3, <1>8, <1>9, ConcatAssociative, SMTT(30)
  <2>2. (down \o (own \o p)) \o r = down \o t BY <1>3, <1>10, <1>11, ConcatAssociative, SMTT(30)
  <2>3. down \o t \in Seq(News) BY <1>3, <1>12, JoinSaid
  <2> QED BY <1>1, <2>1, <2>2, <2>3
<1> HIDE DEF t
<1>14. RosterTypes' /\ Entered'
  <2>1. RosterTypes' BY <1>1, <1>2, <1>4, <1>13 DEF RosterTypes
  <2> QED BY <2>1, <1>1 DEF RosterInv, Entered
<1>15. \A m \in ToSet(t) :
         \/ m = PresenceOf(Own, TRUE) /\ session.other
         \/ \E c \in Contacts : Seen(c) /\ m = PresenceOf(c, TRUE)
         \/ \E c \in Contacts : m = Stanza("subscribe", c)
  BY <1>8, <1>12 DEF P, R, Seen
<1>16. /\ session.other => PresenceOf(Own, TRUE) \in ToSet(t)
       /\ \A c \in Contacts : Seen(c) => PresenceOf(c, TRUE) \in ToSet(t)
       /\ \A c \in Contacts : account[c].pending => Stanza("subscribe", c) \in ToSet(t)
  BY <1>8, <1>12 DEF P, R, Seen
<1>17. \A m \in ToSet(t) :
         /\ m.kind \in {"presence", "subscribe"}
         /\ m.kind = "presence" =>
               /\ m.shown = TRUE
               /\ m.contact = Own => session.other
               /\ \A c \in Contacts : m.contact = c => Seen(c)
  <2> TAKE m \in ToSet(t)
  <2>1. CASE m = PresenceOf(Own, TRUE) /\ session.other BY <2>1, <1>5, <1>6
  <2>2. CASE \E c \in Contacts : Seen(c) /\ m = PresenceOf(c, TRUE) BY <2>2, <1>5, <1>6
  <2>3. CASE \E c \in Contacts : m = Stanza("subscribe", c) BY <2>3, <1>7
  <2> QED BY <2>1, <2>2, <2>3, <1>15
<1>18. /\ \A i \in DOMAIN t : t[i] \in ToSet(t)
       /\ \A kind, x : NoneOf(t, kind, x) <=>
             \A m \in ToSet(t) : ~(m.kind = kind /\ m.contact = x)
       /\ \A kind, x : \A m \in ToSet(t) : m.kind = kind /\ m.contact = x =>
             \E i \in DOMAIN t : At(t, i, kind, x)
  BY <1>12, SaidIs
<1>19. Joins(t) BY <1>1, <1>2, <1>4, <1>12, <1>13 DEF Joins
<1>20. ASSUME NEW c \in Contacts PROVE Brings(c, t) /\ RequestBrought(c, t)
  <2>1. Seen(c)' = Seen(c) /\ Seen(c) \in BOOLEAN BY <1>1, <1>3 DEF Seen, Entries
  <2>2. NoneOf(t, "push", c) BY <1>17, <1>18
  <2>3. NoneOf(t, "presence", c) => ~Seen(c)
    <3>1. PresenceOf(c, TRUE) \in ToSet(t) => ~NoneOf(t, "presence", c)
      <4>1. PresenceOf(c, TRUE).kind = "presence" /\ PresenceOf(c, TRUE).contact = c BY <1>6
      <4> QED BY <4>1, <1>18
    <3> QED BY <3>1, <1>16
  <2>4. \A i \in DOMAIN t : At(t, i, "presence", c) => t[i].shown = Seen(c)
    <3> TAKE i \in DOMAIN t
    <3>1. At(t, i, "presence", c) => t[i].shown = TRUE /\ Seen(c)
      BY <1>17, <1>18 DEF At
    <3> QED BY <3>1, <2>1
  <2>5. Seen(c) => account[c].listed BY DEF RosterInv, Entered, Seen
  <2>6. Brings(c, t)
    BY <2>1, <2>2, <2>3, <2>4, <2>5, <1>1 DEF Brings, NoneOf, SameEntry, EditKept
  <2>7. RequestBrought(c, t)
    <3>1. account[c].pending => \E i \in DOMAIN t : At(t, i, "subscribe", c)
      BY <1>7, <1>16, <1>18
    <3> QED BY <3>1, <1>1 DEF RequestBrought
  <2> QED BY <2>6, <2>7
<1>21. OwnBrought(t)
  <2>1. NoneOf(t, "presence", Own) => ~session.other
    <3>1. PresenceOf(Own, TRUE) \in ToSet(t) => ~NoneOf(t, "presence", Own)
      <4>1. PresenceOf(Own, TRUE).kind = "presence" /\ PresenceOf(Own, TRUE).contact = Own BY <1>6
      <4> QED BY <4>1, <1>18
    <3> QED BY <3>1, <1>16
  <2>2. \A i \in DOMAIN t : At(t, i, "presence", Own) => t[i].shown = session.other
    <3> TAKE i \in DOMAIN t
    <3>1. At(t, i, "presence", Own) => t[i].shown = TRUE /\ session.other
      BY <1>17, <1>18 DEF At
    <3> QED BY <3>1, <1>3
  <2> QED BY <2>1, <2>2, <1>4 DEF OwnBrought
<1>22. Fits(t)
  <2>1. \A i \in DOMAIN t : /\ t[i].kind # "roster"
                            /\ t[i].kind = "presence" => session'.available
                            /\ t[i].kind = "push" => session.interested
    BY <1>4, <1>17, <1>18
  <2>2. OneServed BY <1>1, <1>2, <1>4 DEF OneServed
  <2> QED BY <2>1, <2>2, <1>1, <1>2, <1>19, <1>20, <1>21 DEF Fits
<1> QED BY <1>14, <1>22, ServerKeeps

\* A stimulus counted changes nothing else of the history.
LEMMA CountedIs ==
    ASSUME RosterTypes
    PROVE  /\ Counted \in Histories /\ Counted.edit = history.edit
           /\ Counted.refused = history.refused /\ Counted.stale = history.stale
<1>1. history \in Histories BY DEF RosterTypes, Histories
<1>2. history.stimuli + 1 \in Nat BY <1>1 DEF Histories
<1>3. Counted = [history EXCEPT !.stimuli = history.stimuli + 1] BY DEF Counted
<1> QED BY <1>1, <1>2, <1>3 DEF Histories

\* The account's other client comes or goes.
LEMMA OtherClientKeeps ==
    ASSUME RosterTypes, RosterInv, OtherClientComesOrGoes
    PROVE  RosterTypes' /\ RosterInv'
<1> DEFINE t == IF session.available THEN <<PresenceOf(Own, session'.other)>> ELSE <<>>
<1>1. /\ history' = Counted /\ session' = [session EXCEPT !.other = ~@]
      /\ down' = IF session.available THEN Append(down, PresenceOf(Own, session'.other)) ELSE down
      /\ UNCHANGED <<client, account, up>>
  BY DEF OtherClientComesOrGoes
<1>2. /\ down \in Seq(News) /\ Own \notin Contacts
      /\ session \in [available : BOOLEAN, interested : BOOLEAN, other : BOOLEAN]
  BY RosterAssumption DEF RosterTypes
<1>3. /\ session' \in [available : BOOLEAN, interested : BOOLEAN, other : BOOLEAN]
      /\ session'.available = session.available /\ session'.interested = session.interested
      /\ session'.other \in BOOLEAN
  BY <1>1, <1>2
<1> DEFINE x == PresenceOf(Own, session'.other)
<1>4. x \in News /\ x.kind = "presence" /\ x.contact = Own /\ x.shown = session'.other
  BY <1>3 DEF PresenceOf, News
<1>5. down' = down \o t /\ t \in Seq(News)
  <2>1. down \o <<>> = down BY <1>2, ConcatEmptySeq
  <2>2. Append(down, x) = down \o <<x>> BY <1>2, <1>4, AppendIsConcat
  <2>3. <<x>> \in Seq(News) /\ <<>> \in Seq(News) BY <1>4, OneSaid, NoneSaid
  <2>4. x = PresenceOf(Own, session'.other) OBVIOUS
  <2> HIDE DEF x
  <2>5. t = IF session.available THEN <<x>> ELSE <<>> BY <2>4
  <2>6. down' = IF session.available THEN Append(down, x) ELSE down BY <1>1, <2>4
  <2> HIDE DEF t
  <2> QED BY <2>1, <2>2, <2>3, <2>5, <2>6
<1>6. down' \in Seq(News) BY <1>2, <1>5, JoinSaid
<1>7. /\ session.available => DOMAIN t = {1} /\ t[1] = x
      /\ ~session.available => t = <<>> /\ DOMAIN t = {}
  BY <1>4, OneStanza, NoStanza
<1> HIDE DEF t, x
<1>8. /\ Counted \in Histories /\ Counted.edit = history.edit
      /\ Counted.refused = history.refused /\ Counted.stale = history.stale
  BY CountedIs
<1>9. RosterTypes' /\ Entered'
  <2>1. RosterTypes' BY <1>1, <1>3, <1>6, <1>8 DEF RosterTypes, Histories
  <2> QED BY <2>1, <1>1 DEF RosterInv, Entered
<1>10. session.available => client.filled
  BY DEF RosterInv, Phases, Offline, Filling
<1>11. Joins(t) BY <1>1, <1>3, <1>5, <1>10 DEF Joins
<1>12. ASSUME NEW c \in Contacts PROVE Brings(c, t) /\ RequestBrought(c, t)
  <2>1. Seen(c)' = Seen(c) BY <1>1 DEF Seen
  <2>2. NoneOf(t, "push", c) /\ NoneOf(t, "presence", c) BY <1>2, <1>4, <1>7 DEF NoneOf, At
  <2>3. Seen(c) => account[c].listed BY DEF RosterInv, Entered, Seen
  <2>4. Brings(c, t)
    BY <2>1, <2>2, <2>3, <1>1, <1>3, <1>8 DEF Brings, NoneOf, SameEntry, EditKept
  <2>5. RequestBrought(c, t) BY <1>1, <1>3 DEF RequestBrought
  <2> QED BY <2>4, <2>5
<1>13. OwnBrought(t)
  <2>1. NoneOf(t, "presence", Own) => ~session.available BY <1>4, <1>7 DEF NoneOf, At
  <2>2. \A i \in DOMAIN t : At(t, i, "presence", Own) => t[i].shown = session'.other
    BY <1>4, <1>7
  <2> QED BY <2>1, <2>2, <1>3 DEF OwnBrought
<1>14. Fits(t)
  <2>1. \A i \in DOMAIN t : /\ t[i].kind # "roster"
                            /\ t[i].kind = "presence" => session'.available
                            /\ t[i].kind = "push" => session.interested
    BY <1>3, <1>4, <1>7
  <2> QED BY <2>1, <1>1, <1>7, <1>8, <1>10, <1>11, <1>12, <1>13 DEF Fits
<1> QED BY <1>9, <1>14, ServerKeeps

\* A change of one contact that nobody here asked for.
LEMMA WorldKeeps ==
    ASSUME RosterTypes, RosterInv, NEW c \in Contacts, NEW a \in Entries,
           NEW stanzas \in Seq(News), WorldChanges(c, a, stanzas),
           a.to => account[c].listed,
           a.name # NoName \/ a.to \/ a.from \/ a.ask => a.listed,
           a.to # account[c].to => a.online = account[c].online,
           \A m \in ToSet(stanzas) :
              m.kind \in Kinds \cup {"result"} \/ m = PresenceOf(c, a.to /\ a.online),
           a.to /\ a.online # account[c].online => PresenceOf(c, a.online) \in ToSet(stanzas),
           a.pending => Stanza("subscribe", c) \in ToSet(stanzas) \/ account[c].pending
    PROVE  RosterTypes' /\ RosterInv'
<1> DEFINE again == <<>>
           more == IF session.available THEN stanzas ELSE <<>>
           e == EditEnds(c, a, Pushes(c, a) \o again)
<1>1. /\ account' = [account EXCEPT ![c] = a]
      /\ down' = (down \o Becomes(c, a)) \o more
      /\ history' = [Counted EXCEPT !.edit = EditEnds(c, a, Pushes(c, a))]
      /\ UNCHANGED <<client, session, up>>
  BY DEF WorldChanges
<1>2. Pushes(c, a) \in Seq(News) /\ Becomes(c, a) \in Seq(News) /\ down \in Seq(News)
  BY BecomesIs DEF RosterTypes
<1>3. Pushes(c, a) \o again = Pushes(c, a) BY <1>2, ConcatEmptySeq
<1>4. (down \o Becomes(c, a)) \o again = down \o Becomes(c, a)
  <2>1. down \o Becomes(c, a) \in Seq(News) BY <1>2, JoinSaid
  <2> QED BY <2>1, ConcatEmptySeq
<1>5. down' = ((down \o Becomes(c, a)) \o again) \o more BY <1>1, <1>4
<1>6. more \in Seq(News) BY NoneSaid
<1>7. session.available => more = stanzas OBVIOUS
<1>8. ~session.available => more = <<>> /\ ToSet(more) = {} BY NoneSaid
<1>9. again = <<>> \/ (again = <<PushOf(c, a)>> /\ session.interested) OBVIOUS
<1>10. /\ history' \in Histories
       /\ history'.refused = history.refused /\ history'.stale = history.stale
       /\ history'.edit = EditEnds(c, a, Pushes(c, a) \o again)
  <2>1. e \in [Contacts -> AllNames] BY EditEndsIs
  <2>2. history' = [Counted EXCEPT !.edit = e] BY <1>1, <1>3
  <2> HIDE DEF e
  <2>3. /\ Counted \in Histories
        /\ Counted.refused = history.refused /\ Counted.stale = history.stale
    BY CountedIs
  <2>4. /\ history' \in Histories
        /\ history'.refused = history.refused /\ history'.stale = history.stale
        /\ history'.edit = e
    BY <2>1, <2>2, <2>3 DEF Histories
  <2> QED BY <2>4 DEF e
<1> HIDE DEF again, more
<1>11. /\ UNCHANGED <<client, session>>
       /\ up' = up \/ (OneServed /\ up[1].contact = c)
  BY <1>1
<1>12. /\ more # <<>> => session.available \/ OneServed
       /\ \A m \in ToSet(more) :
             \/ m.kind \in Kinds \cup {"result"}
             \/ session.available /\ m = PresenceOf(c, a.to /\ a.online)
       /\ session.available /\ a.to /\ a.online # account[c].online =>
             PresenceOf(c, a.online) \in ToSet(more)
  BY <1>7, <1>8
<1>13. a.pending =>
         \/ session.available => Stanza("subscribe", c) \in ToSet(more)
         \/ account[c].pending /\ (up' = up \/ up[1].kind \notin Answering)
  BY <1>1, <1>7
<1> QED BY <1>1, <1>5, <1>6, <1>9, <1>10, <1>11, <1>12, <1>13, EntryKeeps

\* The five such changes.
LEMMA WorldsKeep ==
    ASSUME RosterTypes, RosterInv,
           \/ OtherClientChanges \/ ContactComesOrGoes \/ ContactAsks \/ ContactWithdraws
           \/ ContactAnswers
    PROVE  RosterTypes' /\ RosterInv'
<1>1. ASSUME NEW c \in Contacts
      PROVE  /\ account[c] \in Entries
             /\ account[c].to => account[c].listed
             /\ account[c].name # NoName \/ account[c].to \/ account[c].from \/ account[c].ask =>
                   account[c].listed
  BY DEF RosterTypes, RosterInv, Entered
<1>2. <<>> \in Seq(News) /\ ToSet(<<>>) = {} BY NoneSaid
<1>3. CASE OtherClientChanges
  <2>1. PICK c \in Contacts, kind \in {"set", "remove"}, name \in Names :
           WorldChanges(c, Served([kind |-> kind, contact |-> c, name |-> name]), <<>>)
    BY <1>3 DEF OtherClientChanges
  <2> DEFINE st == [kind |-> kind, contact |-> c, name |-> name]
             a == Served(st)
  <2>2. /\ st.contact = c /\ st.kind \in Kinds \cup {"set", "remove"} /\ st.name \in AllNames
        /\ st.contact \in Contacts
    BY <2>1 DEF AllNames
  <2> HIDE DEF st
  <2>3. /\ a \in Entries
        /\ a.to => account[c].listed
        /\ a.name # NoName \/ a.to \/ a.from \/ a.ask => a.listed
        /\ a.online = account[c].online
        /\ a.pending => account[c].pending
    BY <2>2, ServedIs DEF RosterInv
  <2>4. WorldChanges(c, a, <<>>) BY <2>1 DEF st
  <2> HIDE DEF a
  <2> QED BY <2>1, <2>3, <2>4, <1>2, WorldKeeps
<1>4. CASE ContactComesOrGoes
  <2>1. PICK c \in Contacts :
          WorldChanges(c, [account[c] EXCEPT !.online = ~@],
                       IF account[c].to THEN <<PresenceOf(c, ~account[c].online)>> ELSE <<>>)
    BY <1>4 DEF ContactComesOrGoes
  <2> DEFINE a == [account[c] EXCEPT !.online = ~@]
             s == IF account[c].to THEN <<PresenceOf(c, ~account[c].online)>> ELSE <<>>
  <2>2. /\ a \in Entries /\ a.online = ~account[c].online /\ a.to = account[c].to
        /\ a.name = account[c].name /\ a.listed = account[c].listed /\ a.from = account[c].from
        /\ a.ask = account[c].ask /\ a.pending = account[c].pending
        /\ a.to \in BOOLEAN /\ a.online \in BOOLEAN /\ account[c].online \in BOOLEAN
    BY <1>1 DEF Entries
  <2> HIDE DEF a
  <2>3. s = IF a.to THEN <<PresenceOf(c, a.online)>> ELSE <<>> BY <2>2
  <2> HIDE DEF s
  <2>4. PresenceOf(c, a.online) \in News BY <2>2, StanzasAre
  <2>5. s \in Seq(News) /\ ToSet(s) = IF a.to THEN {PresenceOf(c, a.online)} ELSE {}
    BY <2>3, <2>4, <1>2, OneSaid
  <2>6. \A m \in ToSet(s) : m = PresenceOf(c, a.to /\ a.online)
    <3>1. a.to => a.online = (a.to /\ a.online) BY <2>2
    <3> QED BY <3>1, <2>5
  <2>7. WorldChanges(c, a, s) BY <2>1 DEF a, s
  <2>8. c \in Contacts OBVIOUS
  <2> QED BY <1>1, <2>2, <2>5, <2>6, <2>7, <2>8, WorldKeeps
<1>5. CASE ContactAsks
  <2>1. PICK c \in Contacts :
          WorldChanges(c, [account[c] EXCEPT !.pending = TRUE], <<Stanza("subscribe", c)>>)
    BY <1>5 DEF ContactAsks
  <2> DEFINE a == [account[c] EXCEPT !.pending = TRUE]
             s == <<Stanza("subscribe", c)>>
  <2>2. /\ a \in Entries /\ a.online = account[c].online /\ a.to = account[c].to
        /\ a.name = account[c].name /\ a.listed = account[c].listed /\ a.from = account[c].from
        /\ a.ask = account[c].ask
    BY <1>1 DEF Entries
  <2>3. Stanza("subscribe", c) \in News /\ Stanza("subscribe", c).kind \in Kinds \cup {"result"}
    BY <2>2, StanzasAre DEF Kinds
  <2>4. s \in Seq(News) /\ ToSet(s) = {Stanza("subscribe", c)} BY <2>3, OneSaid
  <2> HIDE DEF a, s
  <2>5. WorldChanges(c, a, s) BY <2>1 DEF a, s
  <2> QED BY <1>1, <2>2, <2>3, <2>4, <2>5, WorldKeeps
<1>6. CASE ContactWithdraws
  <2>1. PICK c \in Contacts :
          WorldChanges(c, [account[c] EXCEPT !.from = FALSE], <<Stanza("unsubscribe", c)>>)
    BY <1>6 DEF ContactWithdraws
  <2> DEFINE a == [account[c] EXCEPT !.from = FALSE]
             s == <<Stanza("unsubscribe", c)>>
  <2>2. /\ a \in Entries /\ a.online = account[c].online /\ a.to = account[c].to
        /\ a.name = account[c].name /\ a.listed = account[c].listed /\ a.from = FALSE
        /\ a.ask = account[c].ask /\ a.pending = account[c].pending
    BY <1>1 DEF Entries
  <2>3. Stanza("unsubscribe", c) \in News /\ Stanza("unsubscribe", c).kind \in Kinds \cup {"result"}
    BY <2>2, StanzasAre DEF Kinds
  <2>4. s \in Seq(News) /\ ToSet(s) = {Stanza("unsubscribe", c)} BY <2>3, OneSaid
  <2> HIDE DEF a, s
  <2>5. WorldChanges(c, a, s) BY <2>1 DEF a, s
  <2> QED BY <1>1, <2>2, <2>3, <2>4, <2>5, WorldKeeps
<1>7. CASE ContactAnswers
  <2>1. PICK c \in Contacts, yes \in BOOLEAN :
          /\ account[c].ask
          /\ WorldChanges(c, [account[c] EXCEPT !.ask = FALSE, !.to = yes],
                          <<Stanza(IF yes THEN "subscribed" ELSE "unsubscribed", c)>>)
    BY <1>7 DEF ContactAnswers
  <2> DEFINE a == [account[c] EXCEPT !.ask = FALSE, !.to = yes]
             x == Stanza(IF yes THEN "subscribed" ELSE "unsubscribed", c)
             s == <<x>>
  <2>2. /\ a \in Entries /\ a.online = account[c].online /\ a.ask = FALSE
        /\ a.name = account[c].name /\ a.listed = account[c].listed /\ a.from = account[c].from
        /\ a.pending = account[c].pending /\ account[c].listed
    BY <2>1, <1>1 DEF Entries
  <2>3. x \in News /\ x.kind \in Kinds \cup {"result"}
    <3>1. (IF yes THEN "subscribed" ELSE "unsubscribed") \in Kinds \cup {"result"} BY DEF Kinds
    <3> QED BY <3>1, <2>2, StanzasAre
  <2> HIDE DEF x
  <2>4. s \in Seq(News) /\ ToSet(s) = {x} BY <2>3, OneSaid
  <2> HIDE DEF a, s
  <2>5. WorldChanges(c, a, s) BY <2>1 DEF a, s, x
  <2> QED BY <2>1, <1>1, <2>2, <2>3, <2>4, <2>5, WorldKeeps
<1> QED BY <1>3, <1>4, <1>5, <1>6, <1>7
-----------------------------------------------------------------------------
(***************************************************************************)
(* The handlers of the client.                                             *)
(***************************************************************************)
Clients == [sync : BOOLEAN, online : BOOLEAN, filled : BOOLEAN, items : Tables(Items),
            self : BOOLEAN, told : SUBSET Contacts]

\* A table over some of the contacts.
LEMMA TableIs ==
    ASSUME NEW S, NEW f \in Tables(S)
    PROVE  DOMAIN f \in SUBSET Contacts /\ f \in [DOMAIN f -> S]
BY DEF Tables

\* The item made of what a push says (RosterItem).
LEMMA ItemFromIs ==
    ASSUME NEW d \in Data, NEW shown \in BOOLEAN
    PROVE  /\ ItemFrom(d, shown) \in Items
           /\ ItemFrom(d, shown).name = d.name /\ ItemFrom(d, shown).to = d.to
           /\ ItemFrom(d, shown).from = d.from /\ ItemFrom(d, shown).ask = d.ask
           /\ ItemFrom(d, shown).shown = shown
BY DEF ItemFrom, Items, Data

\* The stanza at the head of the queue.
LEMMA HeadIs ==
    ASSUME RosterTypes, RosterInv, down # <<>>, down[1].kind # "roster"
    PROVE  /\ client.filled /\ down[1] \in News /\ Tail(down) \in Seq(News)
           /\ down[1].kind = "push" => /\ down[1].contact \in Contacts
                                       /\ down[1].item \in {<<>>} \cup {<<d>> : d \in Data}
           /\ down[1].kind = "presence" => /\ down[1].contact \in Contacts \cup {Own}
                                           /\ down[1].shown \in BOOLEAN
           /\ down[1].kind \in Kinds \cup {"result"} => down[1].contact \in Contacts
<1>1. down[1] \in News /\ Tail(down) \in Seq(News) BY TailIs DEF RosterTypes
<1>2. client.filled
  BY DEF RosterInv, Phases, Offline, Filling, Asking, Answered
<1>3. down[1].kind = "push" => /\ down[1].contact \in Contacts
                               /\ down[1].item \in {<<>>} \cup {<<d>> : d \in Data}
  BY <1>1 DEF News, Kinds
<1>4. down[1].kind = "presence" => /\ down[1].contact \in Contacts \cup {Own}
                                   /\ down[1].shown \in BOOLEAN
  BY <1>1 DEF News, Kinds
<1>5. down[1].kind \in Kinds \cup {"result"} => down[1].contact \in Contacts
  BY <1>1 DEF News, Kinds
<1> QED BY <1>1, <1>2, <1>3, <1>4, <1>5

\* mergePush changes the item of its contact as the push says, and no other.
LEMMA PushMerged ==
    ASSUME RosterTypes, NEW c \in Contacts, NEW item \in {<<>>} \cup {<<d>> : d \in Data},
           client' = mergePush(c, item)
    PROVE  /\ client' \in Clients
           /\ client'.sync = client.sync /\ client'.online = client.online
           /\ client'.filled = client.filled /\ client'.self = client.self
           /\ client.told = DOMAIN client.items => client'.told = DOMAIN client'.items
           /\ \A d \in Contacts : d # c => ItemKept(d)
           /\ ItemPushed(c, item)
<1>1. /\ client \in Clients
      /\ DOMAIN client.items \in SUBSET Contacts
      /\ client.items \in [DOMAIN client.items -> Items]
      /\ client.told \in SUBSET Contacts
  BY TableIs DEF RosterTypes, Clients
<1>2. CASE item = <<>> /\ c \notin DOMAIN client.items
  <2>1. client' = client BY <1>2 DEF mergePush
  <2> QED BY <2>1, <1>1, <1>2 DEF ItemKept, ItemPushed
<1>3. CASE item = <<>> /\ c \in DOMAIN client.items
  <2> DEFINE f == [x \in DOMAIN client.items \ {c} |-> client.items[x]]
             told == client.told \ {c}
  <2>1. client' = [client EXCEPT !.items = f, !.told = told]
    BY <1>3 DEF mergePush, Without
  <2>2. /\ DOMAIN f = DOMAIN client.items \ {c}
        /\ \A x \in DOMAIN f : f[x] = client.items[x]
        /\ f \in Tables(Items) /\ told \in SUBSET Contacts
    <3>1. f \in [DOMAIN client.items \ {c} -> Items] BY <1>1
    <3>2. DOMAIN client.items \ {c} \in SUBSET Contacts BY <1>1
    <3> QED BY <1>1, <3>1, <3>2 DEF Tables
  <2>3. client.told = DOMAIN client.items => told = DOMAIN f BY <2>2
  <2> HIDE DEF f, told
  <2>4. /\ client'.items = f /\ client'.told = told /\ client' \in Clients
        /\ client'.sync = client.sync /\ client'.online = client.online
        /\ client'.filled = client.filled /\ client'.self = client.self
    BY <2>1, <2>2, <1>1 DEF Clients
  <2>5. \A d \in Contacts : d # c => ItemKept(d) BY <2>2, <2>4 DEF ItemKept
  <2>6. ItemPushed(c, item) BY <1>3, <2>2, <2>4 DEF ItemPushed
  <2> QED BY <2>3, <2>4, <2>5, <2>6
<1>4. CASE item # <<>>
  <2> DEFINE i == IF c \in DOMAIN client.items THEN ItemUpdated(c, item[1])
                  ELSE ItemFrom(item[1], FALSE)
             f == [x \in DOMAIN client.items \cup {c} |-> IF x = c THEN i ELSE client.items[x]]
             told == client.told \cup {c}
  <2>1. client' = [client EXCEPT !.told = told, !.items = f]
    BY <1>4 DEF mergePush, With
  <2>2. item[1] \in Data
    <3>1. PICK d \in Data : item = <<d>> BY <1>4
    <3>2. item[1] = d BY <3>1
    <3> QED BY <3>1, <3>2
  <2>3. Shown(c) \in BOOLEAN BY <1>1 DEF Shown, Items
  <2>4. /\ i \in Items
        /\ i.name = item[1].name /\ i.to = item[1].to
        /\ i.from = item[1].from /\ i.ask = item[1].ask
        /\ i.shown = Shown(c)
    <3>1. i = ItemFrom(item[1], Shown(c))
      <4>1. c \notin DOMAIN client.items => Shown(c) = FALSE BY DEF Shown
      <4> QED BY <4>1 DEF ItemUpdated
    <3> HIDE DEF i
    <3> QED BY <3>1, <2>2, <2>3, ItemFromIs
  <2> HIDE DEF i
  <2>5. /\ DOMAIN f = DOMAIN client.items \cup {c} /\ f[c] = i
        /\ \A x \in DOMAIN client.items : x # c => f[x] = client.items[x]
        /\ f \in Tables(Items) /\ told \in SUBSET Contacts
    <3>1. f \in [DOMAIN client.items \cup {c} -> Items] BY <1>1, <2>4
    <3>2. DOMAIN client.items \cup {c} \in SUBSET Contacts BY <1>1
    <3> QED BY <1>1, <3>1, <3>2 DEF Tables
  <2>6. client.told = DOMAIN client.items => told = DOMAIN f BY <2>5
  <2> HIDE DEF f, told
  <2>7. /\ client'.items = f /\ client'.told = told /\ client' \in Clients
        /\ client'.sync = client.sync /\ client'.online = client.online
        /\ client'.filled = client.filled /\ client'.self = client.self
    BY <2>1, <2>5, <1>1 DEF Clients
  <2>8. \A d \in Contacts : d # c => ItemKept(d) BY <2>5, <2>7 DEF ItemKept
  <2>9. ItemPushed(c, item) BY <1>4, <2>4, <2>5, <2>7 DEF ItemPushed
  <2> QED BY <2>6, <2>7, <2>8, <2>9
<1> QED BY <1>2, <1>3, <1>4

\* handleIq.
LEMMA HandleIqKeeps ==
    ASSUME RosterTypes, RosterInv, handleIq
    PROVE  RosterTypes' /\ RosterInv'
<1> DEFINE c == down[1].contact
<1>1. /\ down # <<>> /\ down[1].kind = "push" /\ down' = Tail(down)
      /\ client' = mergePush(c, down[1].item) /\ UNCHANGED <<account, session, up, history>>
  BY DEF handleIq, Handles, Handled
<1>2. /\ client.filled /\ Tail(down) \in Seq(News) /\ c \in Contacts
      /\ down[1].item \in {<<>>} \cup {<<d>> : d \in Data}
  BY <1>1, HeadIs
<1>3. /\ client' \in Clients
      /\ client'.sync = client.sync /\ client'.online = client.online
      /\ client'.filled = client.filled /\ client'.self = client.self
      /\ client.told = DOMAIN client.items => client'.told = DOMAIN client'.items
      /\ \A d \in Contacts : d # c => ItemKept(d)
      /\ ItemPushed(c, down[1].item)
  BY <1>1, <1>2, PushMerged
<1>4. RosterTypes' BY <1>1, <1>2, <1>3 DEF RosterTypes, Clients
<1>5. ASSUME NEW d \in Contacts PROVE HeadDone(d)
  <2>1. ~At(down, 1, "presence", d) /\ (At(down, 1, "push", d) <=> d = c) BY <1>1 DEF At
  <2> QED BY <2>1, <1>3 DEF HeadDone
<1>6. up \o <<>> = up /\ <<>> \in Seq(Requests) /\ DOMAIN <<>> = {}
  BY ConcatEmptySeq, NoStanza DEF RosterTypes
<1>7. Follows(<<>>)
  <2>1. ~At(down, 1, "presence", Own) BY <1>1 DEF At
  <2> QED BY <2>1, <1>1, <1>2, <1>3, <1>5, <1>6 DEF Follows
<1> QED BY <1>4, <1>7, HandlerKeeps

\* handlePresence.
LEMMA HandlePresenceKeeps ==
    ASSUME RosterTypes, RosterInv, handlePresence
    PROVE  RosterTypes' /\ RosterInv'
<1> DEFINE c == down[1].contact
           shown == down[1].shown
<1>1. /\ down # <<>> /\ down[1].kind = "presence" /\ down' = Tail(down)
      /\ client' = IF c = Own THEN [client EXCEPT !.self = shown]
                   ELSE IF c \in DOMAIN client.items
                        THEN [client EXCEPT !.items[c].shown = shown]
                        ELSE client
      /\ UNCHANGED <<account, session, up, history>>
  BY DEF handlePresence, Handles, Handled
<1>2. /\ client.filled /\ Tail(down) \in Seq(News) /\ c \in Contacts \cup {Own}
      /\ shown \in BOOLEAN /\ Own \notin Contacts
  BY <1>1, HeadIs, RosterAssumption
<1>3. /\ client \in Clients
      /\ DOMAIN client.items \in SUBSET Contacts
      /\ client.items \in [DOMAIN client.items -> Items]
  BY TableIs DEF RosterTypes, Clients
<1>4. up \o <<>> = up /\ <<>> \in Seq(Requests) /\ DOMAIN <<>> = {}
  BY ConcatEmptySeq, NoStanza DEF RosterTypes
<1>5. At(down, 1, "presence", c) /\ \A x : ~At(down, 1, "push", x) /\
      (x # c => ~At(down, 1, "presence", x))
  BY <1>1 DEF At
<1> HIDE DEF c, shown
<1>6. /\ client' \in Clients
      /\ client'.sync = client.sync /\ client'.online = client.online
      /\ client'.filled = client.filled
      /\ client'.self = IF c = Own THEN shown ELSE client.self
      /\ client.told = DOMAIN client.items => client'.told = DOMAIN client'.items
      /\ \A d \in Contacts : d # c => ItemKept(d)
      /\ c # Own => ItemShown(c, shown)
  <2>1. CASE c = Own
    <3>1. client' = [client EXCEPT !.self = shown] BY <1>1, <2>1
    <3> QED BY <3>1, <2>1, <1>2, <1>3 DEF Clients, ItemKept
  <2>2. CASE c # Own /\ c \in DOMAIN client.items
    <3> DEFINE i == [client.items[c] EXCEPT !.shown = shown]
               f == [client.items EXCEPT ![c] = i]
    <3>1. client' = [client EXCEPT !.items = f] BY <1>1, <2>2
    <3>2. /\ i \in Items /\ i.shown = shown /\ i.name = client.items[c].name
          /\ i.to = client.items[c].to /\ i.from = client.items[c].from
          /\ i.ask = client.items[c].ask /\ i.changed = client.items[c].changed
      <4>1. client.items[c] \in Items BY <2>2, <1>3
      <4> QED BY <4>1, <1>2 DEF Items
    <3> HIDE DEF i
    <3>3. /\ DOMAIN f = DOMAIN client.items /\ f[c] = i
          /\ \A d \in DOMAIN client.items : d # c => f[d] = client.items[d]
          /\ f \in Tables(Items)
      <4>1. f \in [DOMAIN client.items -> Items] BY <1>3, <3>2
      <4> QED BY <4>1, <1>3, <2>2 DEF Tables
    <3> HIDE DEF f
    <3>4. /\ client' \in Clients /\ client'.items = f /\ client'.told = client.told
          /\ client'.sync = client.sync /\ client'.online = client.online
          /\ client'.filled = client.filled /\ client'.self = client.self
      BY <3>1, <3>3, <1>3 DEF Clients
    <3>5. \A d \in Contacts : d # c => ItemKept(d) BY <3>3, <3>4 DEF ItemKept
    <3>6. ItemShown(c, shown) BY <3>2, <3>3, <3>4 DEF ItemShown
    <3> QED BY <2>2, <3>3, <3>4, <3>5, <3>6
  <2>3. CASE c # Own /\ c \notin DOMAIN client.items
    <3>1. client' = client BY <1>1, <2>3
    <3> QED BY <3>1, <2>3, <1>3 DEF ItemKept, ItemShown
  <2> QED BY <2>1, <2>2, <2>3
<1>7. RosterTypes' BY <1>1, <1>2, <1>6 DEF RosterTypes, Clients
<1>8. ASSUME NEW d \in Contacts PROVE HeadDone(d)
  BY <1>2, <1>5, <1>6 DEF HeadDone, shown
<1>9. Follows(<<>>)
  <2>1. client'.self = IF At(down, 1, "presence", Own) THEN down[1].shown ELSE client.self
    BY <1>5, <1>6 DEF shown
  <2>2. down[1].kind # "subscribe" BY <1>1
  <2> QED BY <2>1, <2>2, <1>1, <1>2, <1>4, <1>6, <1>8 DEF Follows
<1> QED BY <1>7, <1>9, HandlerKeeps

\* A handler that leaves the client as it is.
LEMMA ReplyKeeps ==
    ASSUME RosterTypes, RosterInv, down # <<>>, down[1].kind \in Kinds \cup {"result"},
           down' = Tail(down), UNCHANGED <<client, account, session, history>>,
           NEW s \in Seq(Requests), up' = up \o s,
           \A i \in DOMAIN s : s[i].kind # "get",
           client.sync /\ down[1].kind = "subscribe" =>
              \E i \in DOMAIN s : s[i].kind \in Answering /\ s[i].contact = down[1].contact
    PROVE  RosterTypes' /\ RosterInv'
<1>1. down[1].kind \notin {"roster", "push", "presence"} BY DEF Kinds
<1>2. client.filled /\ Tail(down) \in Seq(News) BY <1>1, HeadIs
<1>3. up \o s \in Seq(Requests) BY ConcatProperties DEF RosterTypes
<1>4. RosterTypes' BY <1>2, <1>3 DEF RosterTypes
<1>5. \A x : ~At(down, 1, "push", x) /\ ~At(down, 1, "presence", x) BY <1>1 DEF At
<1>6. \A d \in Contacts : HeadDone(d) BY <1>5 DEF HeadDone, ItemKept
<1>7. Follows(s) BY <1>2, <1>5, <1>6 DEF Follows
<1> QED BY <1>4, <1>7, HandlerKeeps

\* The handlers that tell the application and answer.
LEMMA RepliesKeep ==
    ASSUME RosterTypes, RosterInv, handleSubscription \/ handleResult
    PROVE  RosterTypes' /\ RosterInv'
<1>1. <<>> \in Seq(Requests) /\ DOMAIN <<>> = {} /\ up \o <<>> = up
  BY ConcatEmptySeq, NoStanza DEF RosterTypes
<1>2. ASSUME NEW c \in Contacts, NEW kind \in Kinds \cup {"remove"}
      PROVE  /\ <<Stanza(kind, c)>> \in Seq(Requests)
             /\ DOMAIN <<Stanza(kind, c)>> = {1}
             /\ <<Stanza(kind, c)>>[1].kind = kind /\ <<Stanza(kind, c)>>[1].contact = c
             /\ kind # "get"
  <2>1. Stanza(kind, c) \in Requests /\ Stanza(kind, c).kind = kind /\ Stanza(kind, c).contact = c
    BY DEF Stanza, Requests
  <2>2. kind # "get" BY DEF Kinds
  <2> DEFINE x == Stanza(kind, c)
  <2>3. x \in Requests /\ x.kind = kind /\ x.contact = c BY <2>1
  <2> HIDE DEF x
  <2>4. <<x>> \in Seq(Requests) /\ DOMAIN <<x>> = {1} /\ <<x>>[1] = x BY <2>3, OneStanza
  <2> QED BY <2>2, <2>3, <2>4 DEF x
<1>3. CASE handleResult
  <2>1. /\ down # <<>> /\ down[1].kind = "result" /\ down' = Tail(down)
        /\ UNCHANGED <<client, account, session, up, history>>
    BY <1>3 DEF handleResult, Handles, Handled
  <2> QED BY <2>1, <1>1, ReplyKeeps
<1>4. CASE handleSubscription
  <2> DEFINE c == down[1].contact
  <2>1. down # <<>> /\ down' = Tail(down) /\ UNCHANGED <<client, account, session, history>>
    BY <1>4 DEF handleSubscription, Handled
  <2>2. down[1].kind \in Kinds => c \in Contacts
    <3>1. down[1].kind \in Kinds => down[1].kind # "roster" BY DEF Kinds
    <3> QED BY <2>1, <3>1, HeadIs
  <2>3. CASE /\ Handles("subscribe")
             /\ \E answer \in {"subscribed", "unsubscribed"} :
                  up' = IF client.sync THEN Append(up, Stanza(answer, down[1].contact)) ELSE up
    <3>1. PICK answer \in {"subscribed", "unsubscribed"} :
             up' = IF client.sync THEN Append(up, Stanza(answer, c)) ELSE up
      BY <2>3
    <3>2. down[1].kind = "subscribe" /\ c \in Contacts BY <2>2, <2>3 DEF Handles, Kinds
    <3> DEFINE x == Stanza(answer, c)
    <3>3. /\ x \in Requests /\ x.kind = answer /\ x.contact = c /\ answer \in Answering
          /\ x.kind # "get"
      BY <3>1, <3>2 DEF Stanza, Requests, Kinds, Answering
    <3>4. up' = IF client.sync THEN Append(up, x) ELSE up BY <3>1
    <3> HIDE DEF x
    <3>5. CASE client.sync
      <4>1. <<x>> \in Seq(Requests) /\ DOMAIN <<x>> = {1} /\ <<x>>[1] = x BY <3>3, OneStanza
      <4>2. up' = up \o <<x>> BY <3>3, <3>4, <3>5, AppendIsConcat DEF RosterTypes
      <4>3. \E i \in DOMAIN <<x>> : <<x>>[i].kind \in Answering /\ <<x>>[i].contact = down[1].contact
        BY <4>1, <3>3
      <4>4. \A i \in DOMAIN <<x>> : <<x>>[i].kind # "get" BY <4>1, <3>3
      <4>5. down[1].kind \in Kinds \cup {"result"} BY <3>2 DEF Kinds
      <4> QED BY ONLY RosterTypes, RosterInv, <2>1, <4>1, <4>2, <4>3, <4>4, <4>5, ReplyKeeps
    <3>6. CASE ~client.sync
      <4>1. up' = up \o <<>> BY <3>4, <3>6, <1>1
      <4>2. \A i \in DOMAIN <<>> : <<>>[i].kind # "get" BY <1>1
      <4>3. down[1].kind \in Kinds \cup {"result"} BY <3>2 DEF Kinds
      <4> QED BY ONLY RosterTypes, RosterInv, <2>1, <1>1, <3>6, <4>1, <4>2, <4>3, ReplyKeeps
    <3> QED BY <3>5, <3>6
  <2>4. CASE /\ Handles("unsubscribe")
             /\ \E removes \in BOOLEAN :
                  up' = up \o <<Stanza("unsubscribed", down[1].contact)>> \o
                          (IF client.sync /\ removes THEN <<Stanza("remove", down[1].contact)>>
                           ELSE <<>>)
    <3>1. PICK removes \in BOOLEAN :
             up' = (up \o <<Stanza("unsubscribed", c)>>) \o
                     (IF client.sync /\ removes THEN <<Stanza("remove", c)>> ELSE <<>>)
      BY <2>4
    <3>2. down[1].kind = "unsubscribe" /\ c \in Contacts BY <2>2, <2>4 DEF Handles, Kinds
    <3> DEFINE x == <<Stanza("unsubscribed", c)>>
               y == IF client.sync /\ removes THEN <<Stanza("remove", c)>> ELSE <<>>
    <3>3. /\ x \in Seq(Requests) /\ \A i \in DOMAIN x : x[i].kind # "get"
          /\ y \in Seq(Requests) /\ \A i \in DOMAIN y : y[i].kind # "get"
      <4>1. x \in Seq(Requests) /\ DOMAIN x = {1} /\ x[1].kind = "unsubscribed"
        BY <3>2, <1>2 DEF Kinds
      <4>2. <<Stanza("remove", c)>> \in Seq(Requests) /\ DOMAIN <<Stanza("remove", c)>> = {1}
            /\ <<Stanza("remove", c)>>[1].kind = "remove"
        BY <3>2, <1>2
      <4> QED BY <4>1, <4>2, <1>1
    <3>4. up' = (up \o x) \o y BY <3>1
    <3> HIDE DEF x, y
    <3>5. up' = up \o (x \o y) BY <3>3, <3>4, ConcatAssociative, SMTT(30) DEF RosterTypes
    <3>6. /\ x \o y \in Seq(Requests)
          /\ \A i \in DOMAIN (x \o y) : (x \o y)[i].kind # "get"
      <4>1. /\ x \o y \in Seq(Requests) /\ Len(x) \in Nat /\ Len(y) \in Nat
            /\ DOMAIN x = 1 .. Len(x) /\ DOMAIN y = 1 .. Len(y)
            /\ DOMAIN (x \o y) = 1 .. Len(x) + Len(y)
            /\ \A i \in DOMAIN x : (x \o y)[i] = x[i]
            /\ \A i \in DOMAIN y : (x \o y)[Len(x) + i] = y[i]
        BY <3>3, JoinIs
      <4>2. \A i \in DOMAIN (x \o y) :
               i \in DOMAIN x \/ (i - Len(x) \in DOMAIN y /\ Len(x) + (i - Len(x)) = i)
        BY <4>1
      <4>3. ASSUME NEW i \in DOMAIN (x \o y) PROVE (x \o y)[i].kind # "get"
        <5>1. CASE i \in DOMAIN x BY <5>1, <4>1, <3>3
        <5>2. CASE i - Len(x) \in DOMAIN y /\ Len(x) + (i - Len(x)) = i
          <6>1. (x \o y)[i] = y[i - Len(x)] BY <5>2, <4>1
          <6> QED BY <5>2, <6>1, <3>3
        <5> QED BY <5>1, <5>2, <4>2
      <4> QED BY <4>1, <4>3
    <3> DEFINE s == x \o y
    <3>7. s \in Seq(Requests) /\ (\A i \in DOMAIN s : s[i].kind # "get") /\ up' = up \o s
      BY <3>5, <3>6
    <3> HIDE DEF s
    <3>8. down[1].kind \in Kinds \cup {"result"} /\ down[1].kind # "subscribe" BY <3>2 DEF Kinds
    <3> QED BY ONLY RosterTypes, RosterInv, <2>1, <3>7, <3>8, ReplyKeeps
  <2>5. CASE (Handles("subscribed") \/ Handles("unsubscribed")) /\ UNCHANGED up
    <3>1. up' = up \o <<>> BY <2>5, <1>1
    <3>2. down[1].kind \in Kinds \cup {"result"} /\ down[1].kind # "subscribe"
      BY <2>5 DEF Handles, Kinds
    <3>3. \A i \in DOMAIN <<>> : <<>>[i].kind # "get" BY <1>1
    <3> QED BY ONLY RosterTypes, RosterInv, <2>1, <1>1, <3>1, <3>2, <3>3, ReplyKeeps
  <2> QED BY <1>4, <2>3, <2>4, <2>5 DEF handleSubscription
<1> QED BY <1>3, <1>4
-----------------------------------------------------------------------------
(***************************************************************************)
(* A connection is lost, and the next one fills the list.                  *)
(***************************************************************************)
LEMMA NoTable ==
    ASSUME NEW S
    PROVE  <<>> \in Tables(S) /\ DOMAIN <<>> = {}
<1>1. DOMAIN <<>> = {} BY NoStanza
<1>2. <<>> \in [{} -> S] BY <1>1
<1> QED BY <1>1, <1>2 DEF Tables

\* The connection is lost.
LEMMA LoseKeeps ==
    ASSUME RosterTypes, RosterInv, LoseRosterConnection
    PROVE  RosterTypes' /\ RosterInv'
<1>1. /\ client \in Clients /\ history \in Histories
      /\ session \in [available : BOOLEAN, interested : BOOLEAN, other : BOOLEAN]
  BY DEF RosterTypes, Clients, Histories
<1> DEFINE e == [c \in Contacts |-> NoName]
<1>2. /\ client' = [client EXCEPT !.online = FALSE, !.filled = FALSE]
      /\ session' = [session EXCEPT !.available = FALSE, !.interested = FALSE]
      /\ up' = <<>> /\ down' = <<>> /\ history' = [history EXCEPT !.edit = e]
      /\ UNCHANGED account
  BY DEF LoseRosterConnection
<1>3. e \in [Contacts -> AllNames] /\ \A c \in Contacts : e[c] = NoName BY DEF AllNames
<1> HIDE DEF e
<1>4. client' \in Clients /\ ~client'.online /\ ~client'.filled BY <1>1, <1>2 DEF Clients
<1>5. /\ session' \in [available : BOOLEAN, interested : BOOLEAN, other : BOOLEAN]
      /\ ~session'.available /\ ~session'.interested
  BY <1>1, <1>2
<1>6. history' \in Histories /\ history'.edit = e BY <1>1, <1>2, <1>3 DEF Histories
<1>7. up' \in Seq(Requests) /\ down' \in Seq(News) BY <1>2, NoStanza
<1>8. RosterTypes' BY <1>2, <1>4, <1>5, <1>6, <1>7 DEF RosterTypes, Clients, Histories
<1>9. Entered' BY <1>2 DEF RosterInv, Entered
<1>10. Phases'
  BY <1>2, <1>3, <1>4, <1>5, <1>6 DEF Phases, Offline, Filling, Filled, Unavailable, Uninterested
<1>11. OwnTrue' BY <1>5 DEF OwnTrue
<1>12. \A c \in Contacts : ContactInv(c)'
  BY <1>3, <1>5, <1>6 DEF ContactInv, ContactTrue, PresenceTrue, RequestKept, EditTrue
<1> QED BY <1>8, <1>9, <1>10, <1>11, <1>12 DEF RosterInv

\* fill() asks for the roster.
LEMMA FillKeeps ==
    ASSUME RosterTypes, RosterInv, fill
    PROVE  RosterTypes' /\ RosterInv'
<1>1. client \in Clients /\ Offline /\ down \in Seq(News)
  BY DEF RosterTypes, Clients, RosterInv, Phases
<1> DEFINE get == [kind |-> "get", contact |-> Own]
<1>2. /\ ~client.online /\ client' = [client EXCEPT !.online = TRUE, !.items = <<>>]
      /\ up' = <<get>> /\ UNCHANGED <<account, session, down>>
      /\ history' = [Counted EXCEPT !.stale = client.self, !.refused = FALSE]
  BY DEF fill
<1>3. /\ down = <<>> /\ ~client.filled /\ ~session.available /\ ~session.interested
      /\ \A c \in Contacts : history.edit[c] = NoName
  BY <1>1, <1>2 DEF Offline
<1>4. <<>> \in Tables(Items) /\ DOMAIN <<>> = {} BY NoTable
<1>5. /\ client' \in Clients /\ client'.online /\ client'.filled = client.filled
      /\ client'.items = <<>> /\ client'.self = client.self
  BY <1>1, <1>2, <1>4 DEF Clients
<1>6. /\ history' \in Histories /\ history'.edit = history.edit
      /\ history'.stale = client.self /\ history'.refused = FALSE
  <2>1. Counted \in Histories /\ Counted.edit = history.edit BY CountedIs
  <2>2. client.self \in BOOLEAN BY <1>1 DEF Clients
  <2> QED BY <2>1, <2>2, <1>2 DEF Histories
<1>7. up' \in Seq(Requests)
  <2>1. get \in Requests BY DEF Requests
  <2> HIDE DEF get
  <2> QED BY <2>1, <1>2, OneStanza
<1>8. RosterTypes' BY <1>2, <1>5, <1>6, <1>7 DEF RosterTypes, Clients, Histories
<1>9. Entered' BY <1>2 DEF RosterInv, Entered
<1>10. Asking' BY <1>2, <1>3, <1>6 DEF Asking
<1>11. Phases'
  BY <1>2, <1>3, <1>4, <1>5, <1>6, <1>10
  DEF Phases, Offline, Filling, Filled, Unavailable, Uninterested
<1>12. OwnTrue' BY <1>2, <1>3 DEF OwnTrue
<1>13. \A c \in Contacts : ContactInv(c)'
  BY <1>2, <1>3, <1>6 DEF ContactInv, ContactTrue, PresenceTrue, RequestKept, EditTrue
<1> QED BY <1>8, <1>9, <1>11, <1>12, <1>13 DEF RosterInv

\* The server answers with the roster.
LEMMA ServeRosterKeeps ==
    ASSUME RosterTypes, RosterInv, ServeRoster
    PROVE  RosterTypes' /\ RosterInv'
<1>1. PICK error \in BOOLEAN :
        /\ up # <<>> /\ up[1].kind = "get" /\ up' = Tail(up)
        /\ down' = Append(down, [kind |-> "roster", error |-> error,
                                 items |-> IF error THEN <<>> ELSE [c \in Listed |-> ItemOf(c)]])
        /\ session' = [session EXCEPT !.interested = ~error]
        /\ history' = [history EXCEPT !.refused = error]
        /\ UNCHANGED <<client, account>>
  BY DEF ServeRoster
<1> DEFINE items == IF error THEN <<>> ELSE [c \in Listed |-> ItemOf(c)]
           x == [kind |-> "roster", error |-> error, items |-> items]
<1>2. Phases /\ Entered BY DEF RosterInv
<1>3. client.online /\ ~client.filled
  <2>1. 1 \in DOMAIN up BY <1>1, TailIs DEF RosterTypes
  <2> QED BY <2>1, <1>1, <1>2 DEF Phases, Offline, Filled
<1>4. /\ ~session.available /\ DOMAIN client.items = {} /\ Asking
  BY <1>1, <1>2, <1>3 DEF Phases, Filling, Answered
<1>5. /\ items \in Tables(Data)
      /\ \A c \in Contacts : ~error =>
           (c \in DOMAIN items <=> account[c].listed) /\
           (c \in DOMAIN items => items[c] = ItemOf(c))
  <2>1. CASE error BY <2>1, NoTable
  <2>2. CASE ~error
    <3>1. \A c \in Listed : ItemOf(c) \in Data
      BY DEF RosterTypes, Listed, ItemOf, Data, Entries
    <3>2. items = [c \in Listed |-> ItemOf(c)] BY <2>2
    <3>3. items \in [Listed -> Data] /\ DOMAIN items = Listed BY <3>1, <3>2
    <3>4. Listed \in SUBSET Contacts BY DEF Listed
    <3>5. items \in Tables(Data) BY <3>3, <3>4 DEF Tables
    <3> QED BY <3>2, <3>3, <3>5 DEF Listed
  <2> QED BY <2>1, <2>2, <1>1
<1> HIDE DEF items
<1>6. x \in News /\ x.kind = "roster" /\ x.error = error /\ x.items = items
  BY <1>1, <1>5 DEF News
<1>7. down' = Append(down, x) BY <1>1 DEF items
<1> HIDE DEF x
<1>8. down' = <<x>> /\ up' = <<>>
  <2>1. down = <<>> /\ up = <<[kind |-> "get", contact |-> Own]>> BY <1>4 DEF Asking
  <2> QED BY <2>1, <1>1, <1>7
<1>9. <<x>> \in Seq(News) /\ DOMAIN <<x>> = {1} /\ <<x>>[1] = x /\ <<x>> # <<>>
  BY <1>6, OneStanza
<1>10. /\ session' \in [available : BOOLEAN, interested : BOOLEAN, other : BOOLEAN]
       /\ ~session'.available /\ session'.interested = ~error
  BY <1>1, <1>4 DEF RosterTypes
<1>11. /\ history' \in Histories /\ history'.refused = error
       /\ history'.edit = history.edit /\ history'.stale = history.stale
  BY <1>1 DEF RosterTypes, Histories
<1>12. RosterTypes'
  BY <1>1, <1>8, <1>9, <1>10, <1>11, NoStanza, SMTT(30)
  DEF RosterTypes, Histories
<1>13. Entered' BY <1>1, <1>2 DEF Entered
<1>14. Answered' BY <1>6, <1>8, <1>9, <1>10, <1>11 DEF Answered
<1>15. Phases'
  <2>1. \A i \in DOMAIN down' : down'[i].kind = "roster" BY <1>6, <1>8, <1>9
  <2>2. Unavailable' BY <2>1, <1>1, <1>2, <1>3, <1>4, <1>11 DEF Phases, Unavailable
  <2>3. Uninterested' BY <2>1, <1>1, <1>4 DEF Uninterested
  <2> QED BY <2>2, <2>3, <1>1, <1>3, <1>4, <1>10, <1>14 DEF Phases, Offline, Filling, Filled
<1>16. OwnTrue' BY <1>10 DEF OwnTrue
<1>17. ASSUME NEW c \in Contacts PROVE ContactInv(c)'
  <2>1. NoneOf(down', "push", c) BY <1>6, <1>8, <1>9 DEF NoneOf, At
  <2>2. PushesTrue(c)' BY <2>1 DEF PushesTrue, LastOf, NoneOf
  <2>3. session'.interested => AnswerTrue(c)'
    <3>1. ItemOf(c)' = ItemOf(c) BY <1>1 DEF ItemOf
    <3> QED BY <3>1, <1>1, <1>5, <1>6, <1>8, <1>9, <1>10 DEF AnswerTrue
  <2>4. ContactTrue(c)' BY <2>2, <2>3, <1>1, <1>3 DEF ContactTrue
  <2>5. EditTrue(c)'
    <3>1. EditTrue(c) BY DEF RosterInv, ContactInv
    <3> QED BY <3>1, <1>4, <1>11 DEF EditTrue
  <2> QED BY <2>4, <2>5, <1>10 DEF ContactInv, PresenceTrue, RequestKept
<1> QED BY <1>12, <1>13, <1>15, <1>16, <1>17 DEF RosterInv

\* The answer to the request of the connection.
LEMMA HandleIqIDKeeps ==
    ASSUME RosterTypes, RosterInv, handleIqID
    PROVE  RosterTypes' /\ RosterInv'
<1> DEFINE error == down[1].error
           items == IF error THEN <<>> ELSE down[1].items
           f == mergeRoster(items)
           told == IF error THEN client.told ELSE DOMAIN f
           x == [kind |-> "presence", contact |-> Own]
<1>1. /\ down # <<>> /\ down[1].kind = "roster" /\ down' = Tail(down)
      /\ client' = [client EXCEPT !.filled = TRUE, !.items = f, !.told = told]
      /\ up' = Append(up, x) /\ UNCHANGED <<account, session, history>>
  BY DEF handleIqID, Handles, Handled
<1>2. /\ Phases /\ Entered /\ client \in Clients /\ down \in Seq(News)
      /\ account \in [Contacts -> Entries] /\ history \in Histories
      /\ session \in [available : BOOLEAN, interested : BOOLEAN, other : BOOLEAN]
  BY DEF RosterInv, RosterTypes, Clients, Histories
<1>3. 1 \in DOMAIN down /\ down[1] \in News /\ Tail(down) \in Seq(News) BY <1>1, <1>2, TailIs
<1>4. client.online /\ ~client.filled BY <1>1, <1>2, <1>3 DEF Phases, Offline, Filled
<1>5. /\ ~session.available /\ DOMAIN client.items = {} /\ Answered
  BY <1>1, <1>2, <1>4 DEF Phases, Filling, Asking
<1>6. down[1].error \in BOOLEAN /\ down[1].items \in Tables(Data)
  BY <1>1, <1>3 DEF News, Kinds
<1>7. /\ items \in Tables(Data) /\ DOMAIN items \in SUBSET Contacts
      /\ \A c \in DOMAIN items : items[c] \in Data
      /\ error => DOMAIN items = {}
      /\ ~error => items = down[1].items
  <2>1. items \in Tables(Data) /\ (error => DOMAIN items = {}) BY <1>6, NoTable
  <2> HIDE DEF items
  <2>2. DOMAIN items \in SUBSET Contacts /\ items \in [DOMAIN items -> Data] BY <2>1, TableIs
  <2>3. ~error => items = down[1].items BY DEF items
  <2> QED BY <2>1, <2>2, <2>3
<1> HIDE DEF items
<1>8. f = [c \in DOMAIN items |-> ItemFrom(items[c], FALSE)]
  <2>1. f = [c \in DOMAIN client.items \cup DOMAIN items |->
                IF c \in DOMAIN client.items THEN client.items[c] ELSE ItemFrom(items[c], FALSE)]
    BY DEF mergeRoster
  <2> QED BY <2>1, <1>5
<1> HIDE DEF f
<1>9. /\ DOMAIN f = DOMAIN items /\ f \in Tables(Items)
      /\ \A c \in DOMAIN items :
            /\ f[c].name = items[c].name /\ f[c].to = items[c].to /\ f[c].from = items[c].from
            /\ f[c].ask = items[c].ask /\ f[c].shown = FALSE
  <2>1. \A c \in DOMAIN items : f[c] \in Items BY <1>7, <1>8, ItemFromIs
  <2>2. f \in [DOMAIN items -> Items] BY <1>8, <2>1
  <2> QED BY <2>2, <1>7, <1>8, ItemFromIs DEF Tables
<1>10. told \in SUBSET Contacts BY <1>2, <1>7, <1>9 DEF Clients
<1>11. /\ client' \in Clients /\ client'.filled = TRUE /\ client'.items = f
       /\ client'.told = told /\ client'.online = client.online /\ client'.self = client.self
       /\ client'.sync = client.sync
  BY <1>1, <1>2, <1>9, <1>10 DEF Clients
<1>12. /\ up' = <<x>> /\ x \in Requests /\ x.kind = "presence"
       /\ <<x>> \in Seq(Requests) /\ DOMAIN <<x>> = {1} /\ <<x>>[1] = x
  <2>1. up = <<>> BY <1>5 DEF Answered
  <2>2. x \in Requests /\ x.kind = "presence" BY DEF Requests
  <2>3. up' = Append(<<>>, x) BY <1>1, <2>1
  <2> HIDE DEF x
  <2> QED BY <2>2, <2>3, OneStanza
<1> HIDE DEF x
<1>13. RosterTypes' BY <1>1, <1>2, <1>3, <1>11, <1>12 DEF RosterTypes, Clients, Histories
<1>14. Entered' BY <1>1, <1>2 DEF Entered
<1>15. ASSUME NEW kind, NEW c
       PROVE  /\ NoneOf(down', kind, c) => NoneOf(down, kind, c) \/ LastOf(down, 1, kind, c)
              /\ \A i \in DOMAIN down' :
                   /\ i + 1 \in DOMAIN down /\ down'[i] = down[i + 1]
                   /\ LastOf(down', i, kind, c) => LastOf(down, i + 1, kind, c)
  BY <1>1, <1>2, TailKinds
<1>16. \A i \in DOMAIN down' : i + 1 \in DOMAIN down /\ i + 1 # 1 /\ down'[i] = down[i + 1]
  <2>1. \A i \in DOMAIN down' : i \in Nat /\ 1 <= i BY <1>1, <1>2, TailIs
  <2> QED BY <2>1, <1>15
<1>17. Phases'
  <2>1. \A i \in DOMAIN down' : down'[i].kind # "roster" BY <1>5, <1>16 DEF Answered
  <2>2. session.interested => client'.told = DOMAIN client'.items
    BY <1>5, <1>11 DEF Answered
  <2>3. Filled'
    BY <1>1, <1>4, <1>5, <1>11, <1>12, <2>1, <2>2 DEF Filled, Answered
  <2>4. \A c \in DOMAIN client'.items : ~client'.items[c].shown BY <1>9, <1>11
  <2>5. /\ \A i \in DOMAIN down : down[i].kind # "presence"
        /\ ~history.stale => ~client.self
    BY <1>2, <1>4, <1>5 DEF Phases, Unavailable
  <2>6. \A i \in DOMAIN down' : down'[i].kind # "presence" BY <1>16, <2>5
  <2>7. Unavailable' BY <1>1, <1>11, <2>4, <2>5, <2>6 DEF Unavailable
  <2>8. ~session.interested => (\A i \in DOMAIN down' : down'[i].kind # "push") /\ DOMAIN f = {}
    <3>1. ~session.interested => \A i \in DOMAIN down : down[i].kind # "push"
      BY <1>2, <1>4 DEF Phases, Uninterested
    <3>2. ~session.interested => error BY <1>5 DEF Answered
    <3> QED BY <3>1, <3>2, <1>7, <1>9, <1>16
  <2>9. Uninterested' BY <1>1, <1>11, <2>8 DEF Uninterested
  <2>10. Offline' /\ Filling' BY <1>4, <1>11 DEF Offline, Filling
  <2> QED BY <2>3, <2>7, <2>9, <2>10 DEF Phases
<1>18. OwnTrue' BY <1>1, <1>5 DEF OwnTrue
<1>19. ASSUME NEW c \in Contacts PROVE ContactInv(c)'
  <2>1. ContactInv(c) BY DEF RosterInv
  <2>2. ContactTrue(c)'
    <3>1. SUFFICES ASSUME session.interested
                   PROVE  PushesTrue(c)' /\ (NoneOf(down, "push", c)' => ItemIsTrue(c)')
      BY <1>1, <1>11 DEF ContactTrue
    <3>2. PushesTrue(c) /\ (NoneOf(down, "push", c) => AnswerTrue(c))
      BY <2>1, <3>1, <1>4 DEF ContactInv, ContactTrue
    <3>3. PushesTrue(c)'
      <4>1. SUFFICES ASSUME NEW i \in DOMAIN down', LastOf(down', i, "push", c)
                     PROVE  down'[i].item = PushOf(c, account[c]).item
        BY <1>1 DEF PushesTrue
      <4>2. LastOf(down, i + 1, "push", c) /\ i + 1 \in DOMAIN down /\ down'[i] = down[i + 1]
        BY <4>1, <1>15
      <4> QED BY <4>2, <3>2 DEF PushesTrue
    <3>4. ASSUME NoneOf(down', "push", c) PROVE ItemIsTrue(c)'
      <4>1. ~LastOf(down, 1, "push", c) BY <1>1 DEF LastOf, At
      <4>2. AnswerTrue(c) BY <3>2, <3>4, <4>1, <1>15
      <4>3. items = down[1].items BY <3>1, <1>5, <1>7 DEF Answered
      <4>4. /\ c \in DOMAIN items <=> account[c].listed
            /\ c \in DOMAIN items => items[c] = ItemOf(c)
        BY <4>2, <4>3 DEF AnswerTrue
      <4>5. /\ ItemOf(c).name = account[c].name /\ ItemOf(c).to = account[c].to
            /\ ItemOf(c).from = account[c].from /\ ItemOf(c).ask = account[c].ask
        BY DEF ItemOf
      <4> QED BY <4>4, <4>5, <1>1, <1>9, <1>11 DEF ItemIsTrue
    <3> QED BY <3>3, <3>4
  <2>3. EditTrue(c)' BY <2>1, <1>1, <1>5 DEF ContactInv, EditTrue
  <2> QED BY <2>2, <2>3, <1>1, <1>5 DEF ContactInv, PresenceTrue, RequestKept
<1> QED BY <1>13, <1>14, <1>17, <1>18, <1>19 DEF RosterInv
-----------------------------------------------------------------------------
(***************************************************************************)
(* The operations of the application.                                      *)
(***************************************************************************)
LEMMA GrowsKeeps ==
    ASSUME RosterTypes, RosterInv, client.online, client.filled,
           NEW s \in Seq(Requests), up' = up \o s, \A i \in DOMAIN s : s[i].kind # "get",
           history' = Counted, UNCHANGED <<client, account, session, down>>
    PROVE  RosterTypes' /\ RosterInv'
<1>1. /\ up' \in Seq(Requests) /\ Len(up) \in Nat /\ Len(s) \in Nat
      /\ DOMAIN up = 1 .. Len(up) /\ DOMAIN s = 1 .. Len(s) /\ DOMAIN up' = 1 .. Len(up) + Len(s)
      /\ \A i \in DOMAIN up : up'[i] = up[i]
      /\ \A i \in DOMAIN s : up'[Len(up) + i] = s[i]
  BY JoinIs DEF RosterTypes
<1>2. \A i \in DOMAIN up : i \in DOMAIN up' BY <1>1
<1>3. \A i \in DOMAIN up' : i \in DOMAIN up \/ (i - Len(up) \in DOMAIN s /\ Len(up) + (i - Len(up)) = i)
  BY <1>1
<1>4. /\ history' \in Histories /\ history'.edit = history.edit
      /\ history'.refused = history.refused /\ history'.stale = history.stale
  BY CountedIs
<1>5. RosterTypes' BY <1>1, <1>4 DEF RosterTypes, Histories
<1>6. Phases /\ Entered /\ OwnTrue BY DEF RosterInv
<1>7. Entered' /\ OwnTrue' BY <1>4, <1>6 DEF Entered, OwnTrue
<1>8. Phases'
  <2>1. \A i \in DOMAIN up' : up'[i].kind # "get"
    <3> TAKE i \in DOMAIN up'
    <3>1. CASE i \in DOMAIN up BY <3>1, <1>1, <1>6 DEF Phases, Filled
    <3>2. CASE i - Len(up) \in DOMAIN s /\ Len(up) + (i - Len(up)) = i
      <4>1. up'[i] = s[i - Len(up)] BY <3>2, <1>1
      <4> QED BY <3>2, <4>1
    <3> QED BY <3>1, <3>2, <1>3
  <2>2. session.available \/ \E i \in DOMAIN up' : up'[i].kind = "presence"
    BY <1>1, <1>2, <1>6 DEF Phases, Filled
  <2>3. Filled' BY <2>1, <2>2, <1>4, <1>6 DEF Phases, Filled
  <2>4. Offline' /\ Filling' BY DEF Offline, Filling
  <2>5. Unavailable' /\ Uninterested' BY <1>4, <1>6 DEF Phases, Unavailable, Uninterested
  <2> QED BY <2>3, <2>4, <2>5 DEF Phases
<1>9. ASSUME NEW c \in Contacts PROVE ContactInv(c)'
  <2>1. ContactInv(c) BY DEF RosterInv
  <2>2. ContactTrue(c)'
    BY <2>1 DEF ContactInv, ContactTrue, PushesTrue, ItemIsTrue, LastOf, NoneOf, At
  <2>3. PresenceTrue(c)'
    <3>1. UNCHANGED <<account, session, down, client>> /\ PresenceTrue(c) BY <2>1 DEF ContactInv
    <3> QED BY <3>1 DEF PresenceTrue, Has, Seen, LastOf, NoneOf, At
  <2>4. EditTrue(c)' BY <2>1, <1>4 DEF ContactInv, EditTrue, At
  <2>5. RequestKept(c)'
    <3>1. (\E i \in DOMAIN up : up[i].kind \in Answering /\ up[i].contact = c) =>
             \E i \in DOMAIN up' : up'[i].kind \in Answering /\ up'[i].contact = c
      BY <1>1, <1>2
    <3> QED BY <2>1, <3>1 DEF ContactInv, RequestKept, At
  <2> QED BY <2>2, <2>3, <2>4, <2>5 DEF ContactInv
<1> QED BY <1>5, <1>7, <1>8, <1>9 DEF RosterInv

\* What add() sends.
LEMMA AddedIs ==
    ASSUME NEW c \in Contacts, NEW name \in AllNames
    PROVE  AddStanza(c, name) \in Requests /\ AddStanza(c, name).kind # "get"
BY DEF AddStanza, Requests

\* synchronize().
LEMMA SynchronizeKeeps ==
    ASSUME RosterTypes, RosterInv, synchronize
    PROVE  RosterTypes' /\ RosterInv'
<1> DEFINE changed == {c \in DOMAIN client.items : client.items[c].changed}
           n == Cardinality(changed)
           f == SetToSeq(changed)
           s == [i \in 1 .. n |-> LET c == f[i] IN AddStanza(c, client.items[c].name)]
<1>1. /\ client.online /\ client.filled /\ up' = up \o s
      /\ client' = [client EXCEPT !.items = client.items] /\ history' = Counted
      /\ UNCHANGED <<account, session, down>>
  BY DEF synchronize, Synced
<1>2. /\ DOMAIN client.items \in SUBSET Contacts
      /\ client.items \in [DOMAIN client.items -> Items] /\ client \in Clients
  BY TableIs DEF RosterTypes, Clients
<1>3. client' = client BY <1>1, <1>2 DEF Clients
<1>4. n \in Nat /\ f \in [1 .. n -> changed]
  <2>1. changed \in SUBSET Contacts BY <1>2
  <2>2. IsFiniteSet(changed) BY <2>1, RosterAssumption, FS_Subset
  <2> HIDE DEF changed
  <2> QED BY <2>2, InSomeOrder
<1>5. changed \subseteq DOMAIN client.items OBVIOUS
<1>6. \A i \in 1 .. n : s[i] = AddStanza(f[i], client.items[f[i]].name) OBVIOUS
<1>7. DOMAIN s = 1 .. n /\ s = [i \in 1 .. n |-> s[i]] OBVIOUS
<1> HIDE DEF s, f, n, changed
<1>8. \A i \in 1 .. n : s[i] \in Requests /\ s[i].kind # "get"
  <2> TAKE i \in 1 .. n
  <2>1. f[i] \in Contacts /\ client.items[f[i]].name \in AllNames BY <1>2, <1>4, <1>5 DEF Items
  <2> QED BY <2>1, <1>6, AddedIs
<1>9. s \in Seq(Requests)
  <2>1. s \in [1 .. n -> Requests] BY <1>7, <1>8
  <2> QED BY <2>1, <1>4, SeqDef
<1>10. \A i \in DOMAIN s : s[i].kind # "get" BY <1>7, <1>8
<1> QED BY <1>1, <1>3, <1>9, <1>10, GrowsKeeps

\* The operations that only send.
LEMMA OperationsKeep ==
    ASSUME RosterTypes, RosterInv,
           add \/ subscribe \/ unsubscribe \/ cancel \/ remove \/ ackSubscriptionRequest
    PROVE  RosterTypes' /\ RosterInv'
<1>1. ASSUME NEW c \in Contacts, NEW name \in Names
      PROVE  AddStanza(c, name) \in Requests /\ AddStanza(c, name).kind # "get"
  BY AddedIs DEF AllNames
<1>2. ASSUME NEW c \in Contacts, NEW kind \in Kinds \cup {"remove"}
      PROVE  Stanza(kind, c) \in Requests /\ Stanza(kind, c).kind # "get"
  BY DEF Stanza, Requests, Kinds
<1>3. ASSUME NEW x \in Requests, x.kind # "get", Operates(<<x>>)
      PROVE  RosterTypes' /\ RosterInv'
  <2>1. <<x>> \in Seq(Requests) /\ DOMAIN <<x>> = {1} /\ <<x>>[1] = x BY OneStanza
  <2>2. \A i \in DOMAIN <<x>> : <<x>>[i].kind # "get" BY <2>1, <1>3
  <2>3. /\ client.online /\ client.filled /\ up' = up \o <<x>> /\ history' = Counted
        /\ UNCHANGED <<client, account, session, down>>
    BY <1>3 DEF Operates
  <2> QED BY ONLY RosterTypes, RosterInv, <2>1, <2>2, <2>3, GrowsKeeps
<1>4. CASE add
  <2>1. PICK c \in Contacts, name \in Names : Operates(<<AddStanza(c, name)>>) BY <1>4 DEF add
  <2> QED BY <2>1, <1>1, <1>3
<1>5. CASE subscribe
  <2>1. PICK c \in Contacts, name \in Names :
          Operates(<<AddStanza(c, name), Stanza("subscribe", c)>>)
    BY <1>5 DEF subscribe
  <2> DEFINE x == AddStanza(c, name)
             y == Stanza("subscribe", c)
  <2>2. x \in Requests /\ x.kind # "get" /\ y \in Requests /\ y.kind # "get"
    BY <2>1, <1>1, <1>2 DEF Kinds
  <2>3. Operates(<<x, y>>) BY <2>1
  <2> HIDE DEF x, y
  <2>4. <<x, y>> \in Seq(Requests) /\ Len(<<x, y>>) = 2 /\ <<x, y>>[1] = x /\ <<x, y>>[2] = y
    BY <2>2
  <2>5. DOMAIN <<x, y>> = 1 .. 2 BY <2>4, LenProperties
  <2>6. \A i \in DOMAIN <<x, y>> : <<x, y>>[i].kind # "get" BY <2>2, <2>4, <2>5
  <2> DEFINE s == <<x, y>>
  <2>7. /\ s \in Seq(Requests) /\ (\A i \in DOMAIN s : s[i].kind # "get")
        /\ client.online /\ client.filled /\ up' = up \o s /\ history' = Counted
        /\ UNCHANGED <<client, account, session, down>>
    BY <2>3, <2>4, <2>6 DEF Operates
  <2> HIDE DEF s
  <2> QED BY ONLY RosterTypes, RosterInv, <2>7, GrowsKeeps
<1>6. CASE unsubscribe
  <2>1. PICK c \in Contacts : Operates(<<Stanza("unsubscribe", c)>>) BY <1>6 DEF unsubscribe
  <2> QED BY <2>1, <1>2, <1>3 DEF Kinds
<1>7. CASE cancel
  <2>1. PICK c \in Contacts : Operates(<<Stanza("unsubscribed", c)>>) BY <1>7 DEF cancel
  <2> QED BY <2>1, <1>2, <1>3 DEF Kinds
<1>8. CASE remove
  <2>1. PICK c \in Contacts : Operates(<<Stanza("remove", c)>>) BY <1>8 DEF remove
  <2> QED BY <2>1, <1>2, <1>3
<1>9. CASE ackSubscriptionRequest
  <2>1. PICK c \in Contacts, answer \in {"subscribed", "unsubscribed"} :
          Operates(<<Stanza(answer, c)>>)
    BY <1>9 DEF ackSubscriptionRequest
  <2>2. answer \in Kinds \cup {"remove"} BY <2>1 DEF Kinds
  <2> QED BY <2>1, <2>2, <1>2, <1>3
<1> QED BY <1>4, <1>5, <1>6, <1>7, <1>8, <1>9

\* setName(): the edit the history keeps.
LEMMA SetNameKeeps ==
    ASSUME RosterTypes, RosterInv, setName
    PROVE  RosterTypes' /\ RosterInv'
<1>1. PICK c \in DOMAIN client.items, name \in Names :
        /\ client' = [client EXCEPT !.items[c].name = name, !.items[c].changed = TRUE]
        /\ history' = [Counted EXCEPT
                          !.edit[c] = IF client.online /\ ~UnderWay(c) THEN name ELSE NoName]
        /\ UNCHANGED <<account, session, up, down>>
  BY DEF setName
<1>2. /\ DOMAIN client.items \in SUBSET Contacts
      /\ client.items \in [DOMAIN client.items -> Items] /\ client \in Clients
  BY TableIs DEF RosterTypes, Clients
<1>3. c \in Contacts /\ c \in DOMAIN client.items /\ client.items[c] \in Items /\ name \in AllNames
  BY <1>1, <1>2 DEF AllNames
<1> DEFINE i == [client.items[c] EXCEPT !.name = name, !.changed = TRUE]
           f == [client.items EXCEPT ![c] = i]
           n == IF client.online /\ ~UnderWay(c) THEN name ELSE NoName
<1>4. client' = [client EXCEPT !.items = f] BY <1>1, <1>2, <1>3 DEF Clients, Items
<1>5. /\ i \in Items /\ i.name = name /\ i.changed = TRUE /\ i.to = client.items[c].to
      /\ i.from = client.items[c].from /\ i.ask = client.items[c].ask
      /\ i.shown = client.items[c].shown
  BY <1>3 DEF Items
<1> HIDE DEF i
<1>6. /\ DOMAIN f = DOMAIN client.items /\ f[c] = i
      /\ \A d \in DOMAIN client.items : d # c => f[d] = client.items[d]
      /\ f \in Tables(Items)
  <2>1. f \in [DOMAIN client.items -> Items] BY <1>2, <1>5
  <2> QED BY <2>1, <1>2, <1>3 DEF Tables
<1> HIDE DEF f
<1>7. /\ client' \in Clients /\ client'.items = f /\ client'.told = client.told
      /\ client'.sync = client.sync /\ client'.online = client.online
      /\ client'.filled = client.filled /\ client'.self = client.self
  BY <1>4, <1>6, <1>2 DEF Clients
<1>8. n \in AllNames /\ (n # NoName => client.online /\ ~UnderWay(c) /\ n = name)
  BY <1>3 DEF AllNames
<1>9. history' = [Counted EXCEPT !.edit[c] = n] BY <1>1
<1> HIDE DEF n
<1>10. /\ history' \in Histories
       /\ history'.refused = history.refused /\ history'.stale = history.stale
       /\ history'.edit[c] = n
       /\ \A d \in Contacts : d # c => history'.edit[d] = history.edit[d]
  <2>1. /\ Counted \in Histories /\ Counted.edit = history.edit
        /\ Counted.refused = history.refused /\ Counted.stale = history.stale
    BY CountedIs
  <2> DEFINE e == [Counted.edit EXCEPT ![c] = n]
  <2>2. history' = [Counted EXCEPT !.edit = e] BY <1>9, <2>1 DEF Histories
  <2>3. /\ e \in [Contacts -> AllNames] /\ e[c] = n
        /\ \A d \in Contacts : d # c => e[d] = history.edit[d]
    BY <2>1, <1>3, <1>8 DEF Histories
  <2> HIDE DEF e
  <2>4. /\ history' \in Histories /\ history'.edit = e
        /\ history'.refused = history.refused /\ history'.stale = history.stale
    BY <2>1, <2>2, <2>3 DEF Histories
  <2> QED BY <2>3, <2>4
<1>11. RosterTypes' BY <1>1, <1>7, <1>10 DEF RosterTypes, Clients, Histories
<1>12. Phases /\ Entered /\ OwnTrue BY DEF RosterInv
<1>13. Entered' /\ OwnTrue' BY <1>1, <1>7, <1>10, <1>12 DEF Entered, OwnTrue
<1>14. \A d \in DOMAIN client.items :
         /\ f[d].to = client.items[d].to /\ f[d].from = client.items[d].from
         /\ f[d].ask = client.items[d].ask /\ f[d].shown = client.items[d].shown
  BY <1>5, <1>6
<1>15. Phases'
  <2>1. ASSUME ~client.online, NEW d \in Contacts PROVE history'.edit[d] = NoName
    <3>1. CASE d = c BY <2>1, <3>1, <1>8, <1>10
    <3>2. CASE d # c BY <2>1, <3>2, <1>10, <1>12 DEF Phases, Offline
    <3> QED BY <3>1, <3>2
  <2>2. Offline' BY <2>1, <1>1, <1>7, <1>12 DEF Phases, Offline
  <2>3. Filling' BY <1>1, <1>6, <1>7, <1>10, <1>12 DEF Phases, Filling, Asking, Answered
  <2>4. Filled' BY <1>1, <1>6, <1>7, <1>10, <1>12 DEF Phases, Filled
  <2>5. Unavailable' BY <1>1, <1>6, <1>7, <1>10, <1>12, <1>14 DEF Phases, Unavailable
  <2>6. Uninterested' BY <1>1, <1>6, <1>7, <1>12 DEF Phases, Uninterested
  <2> QED BY <2>2, <2>3, <2>4, <2>5, <2>6 DEF Phases
<1>16. ASSUME NEW d \in Contacts PROVE ContactInv(d)'
  <2>1. ContactInv(d) BY DEF RosterInv
  <2>2. ItemIsTrue(d) => ItemIsTrue(d)'
    BY <1>1, <1>5, <1>6, <1>7, <1>14 DEF ItemIsTrue
  <2>3. ContactTrue(d)'
    <3>1. AnswerTrue(d)' = AnswerTrue(d) BY <1>1 DEF AnswerTrue, ItemOf
    <3>2. PushesTrue(d)' = PushesTrue(d) BY <1>1 DEF PushesTrue, LastOf, At
    <3> QED BY <2>1, <2>2, <3>1, <3>2, <1>1, <1>7 DEF ContactInv, ContactTrue, NoneOf, At
  <2>4. PresenceTrue(d)'
    <3>1. \A k : Has(d, k)' = Has(d, k) BY <1>1, <1>6, <1>7 DEF Has, At
    <3>2. PresenceTrue(d) BY <2>1 DEF ContactInv
    <3> QED BY <3>1, <3>2, <1>1, <1>6, <1>7, <1>14 DEF PresenceTrue, Seen, LastOf, NoneOf, At
  <2>5. RequestKept(d)' BY <2>1, <1>1, <1>7 DEF ContactInv, RequestKept, At
  <2>6. EditTrue(d)'
    <3>1. CASE d # c BY <2>1, <3>1, <1>1, <1>6, <1>7, <1>10 DEF ContactInv, EditTrue, At
    <3>2. CASE d = c
      <4>1. SUFFICES ASSUME n # NoName
            PROVE  /\ c \in DOMAIN f /\ f[c].name = n /\ f[c].changed
                   /\ \A j \in DOMAIN down : ~At(down, j, "push", c)
        BY <3>2, <1>1, <1>7, <1>10 DEF EditTrue, At
      <4> QED BY <4>1, <1>3, <1>5, <1>6, <1>8 DEF UnderWay, At
    <3> QED BY <3>1, <3>2
  <2> QED BY <2>3, <2>4, <2>5, <2>6 DEF ContactInv
<1> QED BY <1>11, <1>13, <1>15, <1>16 DEF RosterInv
-----------------------------------------------------------------------------
\* It holds at the start.
LEMMA InitTrue ==
    ASSUME RosterInit
    PROVE  RosterTypes /\ RosterInv
<1>1. /\ client \in [sync : BOOLEAN, online : {FALSE}, filled : {FALSE}, items : {<<>>},
                     self : {FALSE}, told : {{}}]
      /\ up = <<>> /\ down = <<>>
      /\ session = [available |-> FALSE, interested |-> FALSE, other |-> FALSE]
      /\ history = [stimuli |-> 0, refused |-> FALSE, stale |-> FALSE,
                    edit |-> [c \in Contacts |-> NoName]]
  BY DEF RosterInit
<1>2. client \in Clients /\ ~client.online /\ ~client.filled BY <1>1, NoTable DEF Clients
<1>3. PICK listed \in SUBSET Contacts, name \in Names :
         account = [c \in Contacts |->
                       [listed |-> c \in listed, name |-> IF c \in listed THEN name ELSE NoName,
                        to |-> c \in listed, from |-> FALSE, ask |-> FALSE,
                        pending |-> FALSE, online |-> FALSE]]
  BY DEF RosterInit
<1>4. ASSUME NEW c \in Contacts
      PROVE  /\ account[c] \in Entries
             /\ account[c].name # NoName \/ account[c].to \/ account[c].from \/ account[c].ask =>
                   account[c].listed
  <2> DEFINE l == c \in listed
             n == IF c \in listed THEN name ELSE NoName
  <2>1. account[c] = [listed |-> l, name |-> n, to |-> l, from |-> FALSE, ask |-> FALSE,
                      pending |-> FALSE, online |-> FALSE]
    BY <1>3
  <2>2. l \in BOOLEAN /\ n \in AllNames /\ (n # NoName => l) BY <1>3 DEF AllNames
  <2> HIDE DEF l, n
  <2> QED BY <2>1, <2>2 DEF Entries
<1>5. account \in [Contacts -> Entries] BY <1>3, <1>4
<1>6. /\ session \in [available : BOOLEAN, interested : BOOLEAN, other : BOOLEAN]
      /\ ~session.available /\ ~session.interested
  BY <1>1
<1>7. history \in Histories /\ \A c \in Contacts : history.edit[c] = NoName
  <2> DEFINE e == [c \in Contacts |-> NoName]
  <2>1. e \in [Contacts -> AllNames] /\ \A c \in Contacts : e[c] = NoName BY DEF AllNames
  <2>2. history = [stimuli |-> 0, refused |-> FALSE, stale |-> FALSE, edit |-> e] BY <1>1
  <2> HIDE DEF e
  <2> QED BY <2>1, <2>2 DEF Histories
<1>8. up \in Seq(Requests) /\ down \in Seq(News) BY <1>1, NoStanza
<1>9. RosterTypes BY <1>2, <1>5, <1>6, <1>7, <1>8 DEF RosterTypes, Clients, Histories
<1>10. Entered BY <1>4 DEF Entered
<1>11. Phases
  BY <1>1, <1>2, <1>6, <1>7 DEF Phases, Offline, Filling, Filled, Unavailable, Uninterested
<1>12. OwnTrue BY <1>6 DEF OwnTrue
<1>13. \A c \in Contacts : ContactInv(c)
  BY <1>6, <1>7 DEF ContactInv, ContactTrue, PresenceTrue, RequestKept, EditTrue
<1> QED BY <1>9, <1>10, <1>11, <1>12, <1>13 DEF RosterInv

\* Every step keeps it.
LEMMA StepKeeps ==
    ASSUME RosterTypes, RosterInv, [RosterNext]_rosterVars
    PROVE  RosterTypes' /\ RosterInv'
<1>1. CASE add \/ subscribe \/ unsubscribe \/ cancel \/ remove \/ ackSubscriptionRequest
  BY <1>1, OperationsKeep
<1>2. CASE synchronize BY <1>2, SynchronizeKeeps
<1>3. CASE setName BY <1>3, SetNameKeeps
<1>4. CASE fill BY <1>4, FillKeeps
<1>5. CASE handleIqID BY <1>5, HandleIqIDKeeps
<1>6. CASE handleIq BY <1>6, HandleIqKeeps
<1>7. CASE handlePresence BY <1>7, HandlePresenceKeeps
<1>8. CASE handleSubscription \/ handleResult BY <1>8, RepliesKeep
<1>9. CASE Serve BY <1>9, ServeKeeps
<1>10. CASE Refuse BY <1>10, RefuseKeeps
<1>11. CASE ServeRoster BY <1>11, ServeRosterKeeps
<1>12. CASE ServePresence BY <1>12, ServePresenceKeeps
<1>13. CASE \/ OtherClientChanges \/ ContactComesOrGoes \/ ContactAsks \/ ContactWithdraws
            \/ ContactAnswers
  BY <1>13, WorldsKeep
<1>14. CASE OtherClientComesOrGoes BY <1>14, OtherClientKeeps
<1>15. CASE LoseRosterConnection BY <1>15, LoseKeeps
<1>16. CASE UNCHANGED rosterVars
  <2>1. UNCHANGED client /\ UNCHANGED account /\ UNCHANGED session /\ UNCHANGED up
        /\ UNCHANGED down /\ UNCHANGED history
    BY <1>16 DEF rosterVars
  <2>2. RosterTypes' BY <2>1 DEF RosterTypes
  <2>3. Entered' /\ OwnTrue'
    BY <2>1 DEF RosterInv, Entered, OwnTrue, LastOf, NoneOf, At
  <2>4. Phases'
    BY <2>1 DEF RosterInv, Phases, Offline, Filling, Filled, Unavailable, Uninterested,
                Asking, Answered
  <2>5. ASSUME NEW c \in Contacts PROVE ContactInv(c)'
    <3>1. ContactInv(c) BY DEF RosterInv
    <3>2. ContactTrue(c)'
      BY <2>1, <3>1 DEF ContactInv, ContactTrue, PushesTrue, ItemIsTrue, AnswerTrue, ItemOf,
                        LastOf, NoneOf, At
    <3>3. PresenceTrue(c)'
      <4>1. PresenceTrue(c) BY <3>1 DEF ContactInv
      <4> QED BY <2>1, <4>1 DEF PresenceTrue, Seen, Has, LastOf, NoneOf, At
    <3>4. RequestKept(c)' BY <2>1, <3>1 DEF ContactInv, RequestKept, At
    <3>5. EditTrue(c)' BY <2>1, <3>1 DEF ContactInv, EditTrue, At
    <3> QED BY <3>2, <3>3, <3>4, <3>5 DEF ContactInv
  <2> QED BY <2>2, <2>3, <2>4, <2>5 DEF RosterInv
<1> QED
  BY <1>1, <1>2, <1>3, <1>4, <1>5, <1>6, <1>7, <1>8, <1>9, <1>10, <1>11, <1>12, <1>13, <1>14,
     <1>15, <1>16
  DEF RosterNext

\* When nothing is under way the roster is true, and an edit never goes without cause.
LEMMA InvMeans ==
    ASSUME RosterTypes, RosterInv
    PROVE  RosterTrue
<1>1. Mirrored
  <2>1. SUFFICES ASSUME client.online, client.filled, up = <<>>, down = <<>>, ~history.refused
        PROVE  /\ DOMAIN client.items = Listed /\ client.told = Listed
               /\ \A c \in Listed : ItemTrue(c)
               /\ history.stale \/ client.self = session.other
               /\ client.sync => \A c \in Contacts : ~account[c].pending
    BY DEF Mirrored, Settled
  <2>2. DOMAIN up = {} /\ DOMAIN down = {} /\ Len(down) = 0 BY <2>1, NoStanza
  <2>3. /\ session.interested /\ session.available
        /\ client.told = DOMAIN client.items
    BY <2>1, <2>2 DEF RosterInv, Phases, Filled
  <2>4. \A kind, x : NoneOf(down, kind, x) BY <2>2 DEF NoneOf
  <2>5. DOMAIN client.items \in SUBSET Contacts BY TableIs DEF RosterTypes
  <2>6. ASSUME NEW c \in Contacts
        PROVE  /\ ItemIsTrue(c)
               /\ c \in DOMAIN client.items => client.items[c].shown = Seen(c)
               /\ client.sync => ~account[c].pending
    <3>1. ContactInv(c) BY DEF RosterInv
    <3>2. ItemIsTrue(c) BY <3>1, <2>1, <2>3, <2>4 DEF ContactInv, ContactTrue
    <3>3. c \in DOMAIN client.items => client.items[c].shown = Seen(c)
      BY <3>1, <2>3, <2>4 DEF ContactInv, PresenceTrue
    <3>4. client.sync => ~account[c].pending
      BY <3>1, <2>2, <2>3 DEF ContactInv, RequestKept
    <3> QED BY <3>2, <3>3, <3>4
  <2>7. DOMAIN client.items = Listed BY <2>5, <2>6 DEF ItemIsTrue, Listed
  <2>8. ASSUME NEW c \in Listed PROVE ItemTrue(c)
    <3>1. c \in Contacts /\ c \in DOMAIN client.items BY <2>7 DEF Listed
    <3>2. client.items[c].shown = Seen(c) BY <3>1, <2>6
    <3>3. ItemIsTrue(c) BY <3>1, <2>6
    <3> QED BY <3>1, <3>2, <3>3 DEF ItemTrue, ItemIsTrue, Seen
  <2>9. history.stale \/ client.self = session.other
    BY <2>3, <2>4 DEF RosterInv, OwnTrue
  <2> QED BY <2>3, <2>6, <2>7, <2>8, <2>9
<1>2. EditsKept
  <2>1. \A c \in Contacts : EditTrue(c) BY DEF RosterInv, ContactInv
  <2> QED BY <2>1 DEF EditsKept, EditTrue
<1> QED BY <1>1, <1>2 DEF RosterTrue

\* The client's roster is the server's whenever nothing is under way, and no edit is lost
\* (RosterManager), for any contacts, names and number of operations, events and
\* connections.
THEOREM RosterMirrored == RosterSpec => []RosterTrue
<1>1. RosterInit => RosterTypes /\ RosterInv BY InitTrue
<1>2. RosterTypes /\ RosterInv /\ [RosterNext]_rosterVars => (RosterTypes /\ RosterInv)'
  BY StepKeeps
<1>3. RosterTypes /\ RosterInv => RosterTrue BY InvMeans
<1> QED BY <1>1, <1>2, <1>3, PTL DEF RosterSpec
=============================================================================
