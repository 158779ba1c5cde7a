------------------------- MODULE ChatSessionProofs -------------------------
(***************************************************************************)
(* Proofs about a run of the bot against its server, for any rooms,        *)
(* people, commands, nicks, configuration and length of the run.           *)
(***************************************************************************)
EXTENDS ChatSession, SequenceTheorems, WellFoundedInduction, TLAPS

(***************************************************************************)
(* The operators the handlers are built from.                              *)
(***************************************************************************)
\* A set of places has a first one: getRoom() and the walk over the sessions
\* return something wherever there is something to return.
LEMMA FirstPlace ==
    ASSUME NEW S \in SUBSET Nat, S # {}
    PROVE  LET first == CHOOSE i \in S : \A k \in S : i <= k
           IN  first \in S /\ \A k \in S : first <= k
  <1>1. PICK i \in S : \A k \in S : ~(<<k, i>> \in OpToRel(<, Nat))
    BY NatLessThanWellFounded, WFMin
  <1>2. ASSUME NEW k \in S PROVE i <= k
    <2>1. ~(k < i) BY <1>1 DEF OpToRel
    <2> QED BY <2>1
  <1> QED BY <1>2

LEMMA PlainType ==
    ASSUME NEW t \in Texts
    PROVE  Plain(t) \in Body
  <1>1. NoRoom \in Address BY BotAssumption DEF NoRoom, Address
  <1> QED BY <1>1, TextsAssumption DEF Plain, Body

LEMMA StanzaTypes ==
    ASSUME NEW addr \in Address, NEW t \in Texts
    PROVE  /\ PresenceTo(addr, t) \in Outgoing
           /\ \A kind \in {"groupchat", "chat", "subscribed", "unsubscribed"}, b \in Body :
                 MessageTo(kind, addr, t, b) \in Outgoing
  BY PlainType, TextsAssumption DEF PresenceTo, MessageTo, Outgoing

LEMMA AnswerType ==
    ASSUME NEW back \in Outgoing, NEW t \in Texts
    PROVE  /\ Answer(back, t) \in Outgoing
           /\ Answer(back, t).kind = back.kind /\ Answer(back, t).to = back.to
  BY PlainType DEF Answer, Outgoing

LEMMA NameType ==
    ASSUME NEW name \in Address
    PROVE  FinishRoomName(name) \in Address
  BY BotAssumption DEF FinishRoomName, Address

\* What a room object becomes keeps its address.
LEMMA RoomTypes ==
    ASSUME NEW room \in Room, NEW t \in Texts, NEW pres \in Incoming
    PROVE  /\ AfterSetNick(room, t) \in Room
           /\ AfterPresence(room, pres) \in Room
  <1>1. AfterSetNick(room, t) \in Room BY DEF AfterSetNick, Room
  <1>2. AfterError(room) \in Room BY TextsAssumption DEF AfterError, Room
  <1>3. AfterNews(room, pres) \in Room
    <2> DEFINE named == IF "assigned" \in pres.flags
                          THEN [room EXCEPT !.nick = pres.res] ELSE room
    <2>1. named \in Room BY DEF Room, Incoming
    <2> HIDE DEF named
    <2>2. pres.newNick \in Texts BY DEF Incoming
    <2>3. [named EXCEPT !.nick = pres.newNick] \in Room BY <2>1, <2>2 DEF Room
    <2>4. AfterNews(room, pres) = IF OwnNickChange(named, pres)
             THEN [named EXCEPT !.nick = pres.newNick] ELSE named
      BY DEF AfterNews, named
    <2> QED BY <2>1, <2>3, <2>4
  <1> QED BY <1>1, <1>2, <1>3 DEF AfterPresence

LEMMA JoinedRoomType ==
    ASSUME NEW addr \in Address
    PROVE  JoinedRoom(addr, ConfigNick) \in Room /\ JoinedRoom(addr, ConfigNick).joined
  BY BotAssumption, TextsAssumption DEF JoinedRoom, Room

\* getRoom() returns one of the rooms.
LEMMA GetRoomType ==
    ASSUME BotTypeOK, NEW name \in Address, HasRoom(name)
    PROVE  GetRoom(name) \in DOMAIN rooms
  <1>1. RoomsNamed(name) \in SUBSET Nat /\ RoomsNamed(name) \in SUBSET DOMAIN rooms
    BY DEF RoomsNamed, BotTypeOK
  <1>2. GetRoom(name) \in RoomsNamed(name)
    BY <1>1, FirstPlace DEF GetRoom, HasRoom
  <1> QED BY <1>1, <1>2

\* The session that takes a message is one of those that would.
LEMMA SessionForType ==
    ASSUME BotTypeOK, NEW msg, SessionsFor(msg) # {}
    PROVE  SessionFor(msg) \in SessionsFor(msg) /\ SessionFor(msg) \in DOMAIN rooms
  <1>1. SessionsFor(msg) \in SUBSET Nat /\ SessionsFor(msg) \in SUBSET DOMAIN rooms
    BY DEF SessionsFor, BotTypeOK
  <1>2. SessionFor(msg) \in SessionsFor(msg)
    BY <1>1, FirstPlace DEF SessionFor
  <1> QED BY <1>1, <1>2

\* What Send() leaves in the outbox.
LEMMA SendType ==
    ASSUME outbox \in Seq(Outgoing), NEW s \in Seq(Outgoing), Send(s)
    PROVE  outbox' \in Seq(Outgoing) /\ conn' \in {conn, "lost"}
  <1>1. outbox \o s \in Seq(Outgoing) BY ConcatProperties
  <1> QED BY <1>1 DEF Send

(***************************************************************************)
(* Type correctness of the commands.                                       *)
(***************************************************************************)
RegistryTypeOK ==
    /\ rooms \in Seq(Room)
    /\ handlers \subseteq DOMAIN rooms /\ sessions \subseteq DOMAIN rooms

LEMMA EnterType ==
    ASSUME BotTypeOK, NEW body \in Body, NEW back \in Outgoing, EnterCmd(body, back)
    PROVE  RegistryTypeOK' /\ outbox' \in Seq(Outgoing) /\ conn' \in {conn, "lost"}
  <1> DEFINE addr == FinishRoomName(body.room)
             reply == Answer(back, Replies["entering"])
  <1>1. addr \in Address BY NameType DEF Body
  <1>2. Replies["entering"] \in Texts BY BotAssumption DEF ReplyNames
  <1>3. reply \in Outgoing /\ PresenceTo(addr, ConfigNick) \in Outgoing
    BY <1>1, <1>2, AnswerType, StanzaTypes, BotAssumption
  <1>4. outbox' \in Seq(Outgoing) /\ conn' \in {conn, "lost"}
    <2>1. <<reply>> \in Seq(Outgoing) BY <1>3
    <2>2. <<PresenceTo(addr, ConfigNick), reply>> \in Seq(Outgoing) BY <1>3
    <2>3. Send(<<reply>>) \/ Send(<<PresenceTo(addr, ConfigNick), reply>>)
      BY DEF EnterCmd
    <2> QED BY <2>1, <2>2, <2>3, SendType DEF BotTypeOK
  <1>5. RegistryTypeOK'
    <2>1. CASE sameRooms BY <2>1 DEF sameRooms, RegistryTypeOK, BotTypeOK
    <2>2. CASE ~sameRooms
      <3> DEFINE place == Len(rooms) + 1
                 new == JoinedRoom(addr, ConfigNick)
      <3>1. /\ rooms' = Append(rooms, new)
            /\ handlers' = handlers \cup {place} /\ sessions' = sessions \cup {place}
        BY <2>2 DEF EnterCmd
      <3>2. new \in Room BY <1>1, JoinedRoomType
      <3>3. rooms' \in Seq(Room) /\ Len(rooms') = place
        BY <3>1, <3>2, AppendProperties DEF BotTypeOK
      <3>4. DOMAIN rooms' = 1 .. place /\ DOMAIN rooms = 1 .. Len(rooms)
            /\ Len(rooms) \in Nat
        BY <3>3, LenProperties DEF BotTypeOK
      <3>5. handlers \subseteq 1 .. place /\ sessions \subseteq 1 .. place
            /\ place \in 1 .. place
        BY <3>4 DEF BotTypeOK
      <3> QED BY <3>1, <3>3, <3>4, <3>5 DEF RegistryTypeOK
    <2> QED BY <2>1, <2>2
  <1> QED BY <1>4, <1>5

LEMMA NickType ==
    ASSUME BotTypeOK, NEW body \in Body, NEW back \in Outgoing, NickCmd(body, back)
    PROVE  RegistryTypeOK' /\ outbox' \in Seq(Outgoing) /\ conn' \in {conn, "lost"}
  <1>1. body.room \in Address /\ body.text \in Texts BY DEF Body
  <1>2. Replies["nickset"] \in Texts /\ Replies["notfound"] \in Texts
    BY BotAssumption DEF ReplyNames
  <1>3. CASE HasRoom(body.room)
    <2> DEFINE i == GetRoom(body.room)
               request == PresenceTo(rooms[i].addr, body.text)
               reply == Answer(back, Replies["nickset"])
    <2>1. i \in DOMAIN rooms /\ i \in 1 .. Len(rooms) /\ rooms[i] \in Room
      BY <1>1, <1>3, GetRoomType DEF BotTypeOK
    <2>2. AfterSetNick(rooms[i], body.text) \in Room
      BY <1>1, <2>1, RoomTypes DEF AfterSetNick, Room
    <2>3. /\ rooms' = [rooms EXCEPT ![i] = AfterSetNick(rooms[i], body.text)]
          /\ handlers' = handlers /\ sessions' = sessions
          /\ Send(<<request, reply>>) \/ Send(<<reply>>)
      BY <1>3 DEF NickCmd
    <2>4. RegistryTypeOK'
      BY <2>1, <2>2, <2>3, ExceptSeq DEF RegistryTypeOK, BotTypeOK
    <2>5. request \in Outgoing /\ reply \in Outgoing
      BY <1>1, <1>2, <2>1, StanzaTypes, AnswerType DEF Room
    <2>6. <<request, reply>> \in Seq(Outgoing) /\ <<reply>> \in Seq(Outgoing)
      BY <2>5
    <2> QED BY <2>3, <2>4, <2>6, SendType DEF BotTypeOK
  <1>4. CASE ~HasRoom(body.room)
    <2>1. /\ Send(<<Answer(back, Replies["notfound"])>>)
          /\ rooms' = rooms /\ handlers' = handlers /\ sessions' = sessions
      BY <1>4 DEF NickCmd
    <2>2. <<Answer(back, Replies["notfound"])>> \in Seq(Outgoing)
      BY <1>2, AnswerType
    <2> QED BY <2>1, <2>2, SendType DEF RegistryTypeOK, BotTypeOK
  <1> QED BY <1>3, <1>4

LEMMA SayType ==
    ASSUME BotTypeOK, NEW body \in Body, NEW back \in Outgoing, SayCmd(body, back)
    PROVE  outbox' \in Seq(Outgoing) /\ conn' \in {conn, "lost"}
  <1>1. body.room \in Address /\ body.text \in Texts BY DEF Body
  <1>2. Replies["sent"] \in Texts /\ Replies["notfound"] \in Texts
    BY BotAssumption DEF ReplyNames
  <1>3. CASE HasRoom(body.room)
    <2> DEFINE i == GetRoom(body.room)
               words == MessageTo("groupchat", rooms[i].addr, NoText, Plain(body.text))
               reply == Answer(back, Replies["sent"])
    <2>1. rooms[i] \in Room
      BY <1>1, <1>3, GetRoomType DEF BotTypeOK
    <2>2. words \in Outgoing /\ reply \in Outgoing
      BY <1>1, <1>2, <2>1, StanzaTypes, AnswerType, PlainType, TextsAssumption DEF Room
    <2>3. <<words, reply>> \in Seq(Outgoing) /\ <<reply>> \in Seq(Outgoing)
      BY <2>2
    <2>4. Send(<<words, reply>>) \/ Send(<<reply>>)
      BY <1>3 DEF SayCmd
    <2> QED BY <2>3, <2>4, SendType DEF BotTypeOK
  <1>4. CASE ~HasRoom(body.room)
    <2>1. Send(<<Answer(back, Replies["notfound"])>>)
      BY <1>4 DEF SayCmd
    <2>2. <<Answer(back, Replies["notfound"])>> \in Seq(Outgoing)
      BY <1>2, AnswerType
    <2> QED BY <2>1, <2>2, SendType DEF BotTypeOK
  <1> QED BY <1>3, <1>4

LEMMA ExecuteType ==
    ASSUME BotTypeOK, NEW body \in Body, NEW level, NEW back \in Outgoing,
           Execute(body, level, back)
    PROVE  /\ RegistryTypeOK' /\ outbox' \in Seq(Outgoing)
           /\ conn' \in {"login", "online", "off", "lost"}
  <1>1. CASE BfCmd(body, back)
    <2>1. BfOutput[body.text] \in Texts BY BotAssumption DEF Body
    <2>2. <<Answer(back, BfOutput[body.text])>> \in Seq(Outgoing) BY <2>1, AnswerType
    <2> QED
      BY <1>1, <2>2, SendType DEF BfCmd, sameRooms, RegistryTypeOK, BotTypeOK
  <1>2. CASE HelpCmd(back)
    <2>1. Replies["help"] \in Texts BY BotAssumption DEF ReplyNames
    <2>2. <<Answer(back, Replies["help"])>> \in Seq(Outgoing) BY <2>1, AnswerType
    <2> QED
      BY <1>2, <2>2, SendType DEF HelpCmd, sameRooms, RegistryTypeOK, BotTypeOK
  <1>3. CASE EnterCmd(body, back)
    BY <1>3, EnterType DEF EnterCmd, BotTypeOK
  <1>4. CASE NickCmd(body, back)
    BY <1>4, NickType DEF NickCmd, BotTypeOK
  <1>5. CASE SayCmd(body, back)
    BY <1>5, SayType DEF SayCmd, sameRooms, RegistryTypeOK, BotTypeOK
  <1>6. CASE ExitCmd
    BY <1>6 DEF ExitCmd, sameRooms, RegistryTypeOK, BotTypeOK
  <1>7. CASE sameRooms /\ UNCHANGED <<conn, outbox>>
    BY <1>7 DEF sameRooms, RegistryTypeOK, BotTypeOK
  <1> QED BY <1>1, <1>2, <1>3, <1>4, <1>5, <1>6, <1>7 DEF Execute

(***************************************************************************)
(* Type correctness of the stanza handlers and of the connection.          *)
(***************************************************************************)
LEMMA HeadType ==
    ASSUME BotTypeOK, NEW kind, TakeStanza(kind)
    PROVE  /\ Head(chunk) \in Incoming /\ chunk' \in Seq(Incoming)
           /\ Head(chunk).kind = kind
  BY HeadTailProperties DEF BotTypeOK, TakeStanza

LEMMA HandleMessageType ==
    ASSUME BotTypeOK, HandleMessage
    PROVE  BotTypeOK'
  <1> DEFINE msg == Head(chunk)
             back == MessageTo("chat", msg.from, msg.res, Plain(NoText))
  <1>1. msg \in Incoming /\ chunk' \in Seq(Incoming)
    BY HeadType DEF HandleMessage
  <1>2. msg.body \in Body /\ msg.from \in Address /\ msg.res \in Texts
    BY <1>1 DEF Incoming
  <1>3. back \in Outgoing BY <1>2, StanzaTypes, PlainType, TextsAssumption
  <1>4. Execute(msg.body, AccessLevel(msg.from), back) /\ UNCHANGED <<inbox, confLogs>>
    BY DEF HandleMessage
  <1>5. /\ RegistryTypeOK' /\ outbox' \in Seq(Outgoing)
        /\ conn' \in {"login", "online", "off", "lost"}
    BY <1>2, <1>3, <1>4, ExecuteType
  <1> QED BY <1>1, <1>4, <1>5 DEF RegistryTypeOK, BotTypeOK

LEMMA HandleMUCMessageType ==
    ASSUME BotTypeOK, HandleMUCMessage
    PROVE  BotTypeOK'
  <1> DEFINE msg == Head(chunk)
             room == rooms[SessionFor(msg)]
             back == MessageTo("groupchat", room.addr, NoText, Plain(NoText))
  <1>1. msg \in Incoming /\ chunk' \in Seq(Incoming)
    BY HeadType DEF HandleMUCMessage
  <1>2. room \in Room
    BY SessionForType DEF HandleMUCMessage, BotTypeOK
  <1>3. CASE ForTheRoom(msg)
    <2>1. back \in Outgoing
      BY <1>2, StanzaTypes, PlainType, TextsAssumption DEF Room
    <2>2. /\ Execute(msg.body, 0, back)
          /\ confLogs' = Append(confLogs, LogLine(room, msg)) /\ UNCHANGED inbox
      BY <1>3 DEF HandleMUCMessage, ConfLog
    <2>3. /\ RegistryTypeOK' /\ outbox' \in Seq(Outgoing)
          /\ conn' \in {"login", "online", "off", "lost"}
      BY <1>1, <2>1, <2>2, ExecuteType DEF Incoming
    <2>4. LogLine(room, msg) \in [room : Address, id : Nat, delayed : BOOLEAN]
      BY <1>1, <1>2 DEF LogLine, Incoming, Room
    <2>5. confLogs' \in Seq([room : Address, id : Nat, delayed : BOOLEAN])
      BY <2>2, <2>4, AppendProperties DEF BotTypeOK
    <2> QED BY <1>1, <2>2, <2>3, <2>5 DEF RegistryTypeOK, BotTypeOK
  <1>4. CASE ~ForTheRoom(msg)
    BY <1>1, <1>4 DEF HandleMUCMessage, sameRooms, BotTypeOK
  <1> QED BY <1>3, <1>4

\* The walk over the handlers of an address calls every one of them, also when
\* some erase themselves under way.
LEMMA WalkCallsAll ==
    ASSUME BotTypeOK, NEW pres
    PROVE  /\ Called(pres) = Matched(pres) /\ Leaving(pres) = GivingUp(pres)
           /\ UNION {Erased(i) : i \in Leaving(pres)} = Leaving(pres)
           /\ Leaving(pres) = {i \in Matched(pres) : GivesUpOn(rooms[i], pres)}
           /\ HandlePresence /\ pres = Head(chunk) =>
                 /\ rooms' = [i \in DOMAIN rooms |->
                                 IF i \in Matched(pres) THEN AfterPresence(rooms[i], pres)
                                                        ELSE rooms[i]]
                 /\ handlers' = handlers \ Leaving(pres)
                 /\ sessions' = sessions \ Leaving(pres)
  <1>1. \A i \in GivingUp(pres) : Erased(i) = {i}
    BY DEF GivingUp, Matched, Erased
  <1>2. \A i, k \in DOMAIN rooms : i < k => i # k
    BY DEF BotTypeOK
  <1>3. Called(pres) = Matched(pres)
    BY <1>1, <1>2 DEF Called, GivingUp, Matched, BotTypeOK
  <1>4. Leaving(pres) = GivingUp(pres) BY <1>3 DEF Leaving, GivingUp
  <1>5. UNION {Erased(i) : i \in Leaving(pres)} = Leaving(pres) BY <1>1, <1>4
  <1> QED BY <1>3, <1>4, <1>5 DEF HandlePresence, GivingUp

LEMMA HandlePresenceType ==
    ASSUME BotTypeOK, HandlePresence
    PROVE  BotTypeOK' /\ DOMAIN rooms' = DOMAIN rooms
  <1> DEFINE pres == Head(chunk)
             after(i) == IF i \in Matched(pres) THEN AfterPresence(rooms[i], pres)
                                                ELSE rooms[i]
  <1>1. pres \in Incoming /\ chunk' \in Seq(Incoming)
    BY HeadType DEF HandlePresence
  <1>2. Len(rooms) \in Nat /\ DOMAIN rooms = 1 .. Len(rooms)
        /\ \A i \in DOMAIN rooms : rooms[i] \in Room
    BY DEF BotTypeOK
  <1>3. \A i \in 1 .. Len(rooms) : after(i) \in Room
    BY <1>1, <1>2, RoomTypes, TextsAssumption
  <1>4. /\ rooms' = [i \in 1 .. Len(rooms) |-> after(i)]
        /\ handlers' = handlers \ Leaving(pres) /\ sessions' = sessions \ Leaving(pres)
        /\ UNCHANGED <<conn, inbox, outbox, confLogs>>
    BY <1>2, WalkCallsAll DEF HandlePresence
  <1> HIDE DEF after
  <1>5. rooms' \in Seq(Room) /\ DOMAIN rooms' = DOMAIN rooms
    BY <1>2, <1>3, <1>4, IsASeq
  <1> QED BY <1>1, <1>4, <1>5 DEF BotTypeOK

LEMMA HandleSubscriptionType ==
    ASSUME BotTypeOK, HandleSubscription
    PROVE  BotTypeOK'
  <1> DEFINE sub == Head(chunk)
             answer(kind) == MessageTo(kind, sub.from, sub.res, Plain(NoText))
  <1>1. sub \in Incoming /\ chunk' \in Seq(Incoming)
    BY HeadType DEF HandleSubscription
  <1>2. answer("subscribed") \in Outgoing /\ answer("unsubscribed") \in Outgoing
    BY <1>1, StanzaTypes, PlainType, TextsAssumption DEF Incoming
  <1>3. Send(<<answer("subscribed"), answer("subscribed")>>) \/ Send(<<answer("unsubscribed")>>)
    BY DEF HandleSubscription
  <1>4. /\ <<answer("subscribed"), answer("subscribed")>> \in Seq(Outgoing)
        /\ <<answer("unsubscribed")>> \in Seq(Outgoing)
    BY <1>2
  <1>5. outbox' \in Seq(Outgoing) /\ conn' \in {conn, "lost"}
    BY <1>3, <1>4, SendType DEF BotTypeOK
  <1> QED BY <1>1, <1>5 DEF HandleSubscription, sameRooms, BotTypeOK

LEMMA OnConnectType ==
    ASSUME BotTypeOK, OnConnect
    PROVE  BotTypeOK' /\ \A i \in DOMAIN rooms' : rooms'[i].joined
  <1> DEFINE n == Len(AutoJoin)
             addr(i) == FinishRoomName(AutoJoin[i])
  <1>1. n \in Nat /\ DOMAIN AutoJoin = 1 .. n /\ \A i \in 1 .. n : AutoJoin[i] \in Address
    BY BotAssumption
  <1>2. \A i \in 1 .. n : addr(i) \in Address BY <1>1, NameType
  <1>3. /\ rooms' = [i \in 1 .. n |-> JoinedRoom(addr(i), ConfigNick)]
        /\ outbox' = [i \in 1 .. n |-> PresenceTo(addr(i), ConfigNick)]
        /\ handlers' = 1 .. n /\ sessions' = 1 .. n
        /\ conn' \in {"online", "lost"} /\ UNCHANGED <<inbox, chunk, confLogs>>
    BY <1>1 DEF OnConnect
  <1> HIDE DEF n, addr
  <1>4. \A i \in 1 .. n : /\ JoinedRoom(addr(i), ConfigNick) \in Room
                           /\ JoinedRoom(addr(i), ConfigNick).joined
    BY <1>2, JoinedRoomType
  <1>5. \A i \in 1 .. n : PresenceTo(addr(i), ConfigNick) \in Outgoing
    BY <1>2, StanzaTypes, BotAssumption
  <1>6. rooms' \in Seq(Room) /\ DOMAIN rooms' = 1 .. n BY <1>1, <1>3, <1>4, IsASeq
  <1>7. outbox' \in Seq(Outgoing) BY <1>1, <1>3, <1>5, IsASeq
  <1>8. BotTypeOK' BY <1>3, <1>6, <1>7 DEF BotTypeOK
  <1>9. \A i \in DOMAIN rooms' : rooms'[i].joined BY <1>3, <1>4, <1>6
  <1> QED BY <1>8, <1>9

LEMMA ReceiveType ==
    ASSUME BotTypeOK, Receive
    PROVE  BotTypeOK'
  <1>1. PICK n \in 1 .. ChunkMax :
           /\ n <= Len(inbox)
           /\ chunk' = SubSeq(inbox, 1, n)
           /\ inbox' = SubSeq(inbox, n + 1, Len(inbox))
    BY DEF Receive
  <1>2. inbox \in Seq(Incoming) /\ Len(inbox) \in Nat /\ n \in Nat
        /\ \A i \in 1 .. Len(inbox) : inbox[i] \in Incoming
    BY DEF BotTypeOK
  <1>3. chunk' \in Seq(Incoming)
    <2>1. \A i \in 1 .. n : inbox[i] \in Incoming BY <1>1, <1>2
    <2> QED BY <1>1, <1>2, <2>1, SubSeqProperties
  <1>4. inbox' \in Seq(Incoming)
    <2>1. \A i \in n + 1 .. Len(inbox) : inbox[i] \in Incoming BY <1>2
    <2> QED BY <1>1, <1>2, <2>1, SubSeqProperties
  <1> QED BY <1>3, <1>4 DEF Receive, BotTypeOK

\* Every step of the bot keeps its state well-typed, and places in the
\* client's registries are places of rooms.
LEMMA BotNextType ==
    ASSUME BotTypeOK, BotNext
    PROVE  BotTypeOK'
  <1>1. CASE OnConnect BY <1>1, OnConnectType
  <1>2. CASE Receive BY <1>2, ReceiveType
  <1>3. CASE HandleMessage BY <1>3, HandleMessageType
  <1>4. CASE HandleMUCMessage BY <1>4, HandleMUCMessageType
  <1>5. CASE HandlePresence BY <1>5, HandlePresenceType
  <1>6. CASE HandleSubscription BY <1>6, HandleSubscriptionType
  <1>7. CASE ConnectionLost BY <1>7 DEF ConnectionLost, BotTypeOK
  <1> QED
    BY <1>1, <1>2, <1>3, <1>4, <1>5, <1>6, <1>7 DEF BotNext, Handle
-----------------------------------------------------------------------------

(***************************************************************************)
(* Type correctness.                                                       *)
(***************************************************************************)
LEMMA PresenceType ==
    ASSUME NEW type \in {"available", "error"}, NEW addr \in Address,
           NEW t \in Texts, NEW new \in Texts, NEW flags \in SUBSET PresenceFlags
    PROVE  Presence(type, addr, t, flags, new) \in Incoming
  BY PlainType, TextsAssumption DEF Presence, Incoming

LEMMA MessageType ==
    ASSUME NEW type \in {"error", "groupchat", "chat", "headline"},
           NEW addr \in Address, NEW t \in Texts, NEW body \in Body, NEW id \in Nat
    PROVE  Message(type, addr, t, body, id) \in Incoming
  BY TextsAssumption DEF Message, Incoming

LEMMA TakeType ==
    ASSUME TypeOK, NEW kind, Take(kind)
    PROVE  /\ Head(outbox) \in Outgoing /\ Head(outbox).kind = kind
           /\ outbox' \in Seq(Outgoing)
           /\ Head(outbox).to \in Address /\ Canon[Head(outbox).to] \in Address
           /\ Head(outbox).res \in Texts /\ Head(outbox).body \in Body
  <1>1. Head(outbox) \in Outgoing /\ outbox' \in Seq(Outgoing)
    BY HeadTailProperties DEF TypeOK, BotTypeOK, Take
  <1> QED BY <1>1, SessionAssumption DEF Take, Outgoing

LEMMA SaidType ==
    ASSUME TypeOK, NEW room \in Address
    PROVE  Append(said, room) \in Seq(Address) /\ Len(said) + 1 \in Nat
  BY DEF TypeOK

\* What Arrive() leaves in the inbox.
LEMMA ArriveType ==
    ASSUME TypeOK, NEW s \in Seq(Incoming), Arrive(s)
    PROVE  inbox' \in Seq(Incoming)
  BY ConcatProperties DEF TypeOK, BotTypeOK, Arrive

LEMMA ArriveOneType ==
    ASSUME TypeOK, NEW stanza \in Incoming, Arrive(<<stanza>>)
    PROVE  inbox' \in Seq(Incoming)
  <1>1. <<stanza>> \in Seq(Incoming) OBVIOUS
  <1> QED BY <1>1, ArriveType

LEMMA RefuseType ==
    ASSUME TypeOK, Refuse
    PROVE  TypeOK'
  <1> DEFINE asked == Head(outbox)
             no == Presence("error", Canon[asked.to], asked.res, {}, NoText)
  <1>1. Take("presence") /\ Arrive(<<no>>) /\ UNCHANGED worldVars /\ serverUnchanged
    BY DEF Refuse
  <1>2. no \in Incoming
    BY <1>1, TakeType, PresenceType, TextsAssumption
  <1>3. inbox' \in Seq(Incoming) BY <1>1, <1>2, ArriveOneType
  <1> QED
    BY <1>1, <1>3, TakeType DEF worldVars, serverUnchanged, TypeOK, BotTypeOK

LEMMA AdmitType ==
    ASSUME TypeOK, Admit
    PROVE  TypeOK'
  <1> DEFINE asked == Head(outbox)
             room == Canon[asked.to]
  <1>1. /\ room \in Address /\ asked.res \in Texts /\ outbox' \in Seq(Outgoing)
        /\ UNCHANGED <<said, disturbed>> /\ serverUnchanged
    BY TakeType DEF Admit
  <1>2. PICK nick \in {asked.res} \cup Assigned, replay \in BOOLEAN :
           /\ occ' = [occ EXCEPT ![room] = nick]
           /\ stimuli' = IF replay THEN stimuli + 1 ELSE stimuli
           /\ \E body \in UserBodies :
                 LET entered == Presence("available", room, nick,
                         IF nick = asked.res THEN {"self"}
                                             ELSE {"self", "assigned"}, NoText)
                     old == [Message("groupchat", room, nick, body, 0)
                               EXCEPT !.delayed = TRUE]
                 IN  Arrive(IF replay THEN <<entered, old>> ELSE <<entered>>)
    BY DEF Admit
  <1>3. PICK body \in UserBodies :
           LET entered == Presence("available", room, nick,
                   IF nick = asked.res THEN {"self"}
                                       ELSE {"self", "assigned"}, NoText)
               old == [Message("groupchat", room, nick, body, 0)
                         EXCEPT !.delayed = TRUE]
           IN  Arrive(IF replay THEN <<entered, old>> ELSE <<entered>>)
    BY <1>2
  <1> DEFINE flags == IF nick = asked.res THEN {"self"} ELSE {"self", "assigned"}
             entered == Presence("available", room, nick, flags, NoText)
             message == Message("groupchat", room, nick, body, 0)
             old == [message EXCEPT !.delayed = TRUE]
  <1>4. nick \in Texts /\ body \in Body /\ flags \in SUBSET PresenceFlags
    BY <1>1, SessionAssumption DEF PresenceFlags
  <1>5. entered \in Incoming /\ message \in Incoming
    BY <1>1, <1>4, PresenceType, MessageType, TextsAssumption
  <1>6. old \in Incoming BY <1>5 DEF Incoming
  <1>7. <<entered, old>> \in Seq(Incoming) /\ <<entered>> \in Seq(Incoming)
    BY <1>5, <1>6
  <1>8. inbox' \in Seq(Incoming) BY <1>3, <1>7, ArriveType
  <1>9. occ' \in [Address -> Texts] /\ stimuli' \in Nat
    BY <1>1, <1>2, <1>4 DEF TypeOK
  <1> QED BY <1>1, <1>8, <1>9 DEF serverUnchanged, TypeOK, BotTypeOK

LEMMA RenameType ==
    ASSUME TypeOK, Rename
    PROVE  TypeOK'
  <1> DEFINE asked == Head(outbox)
             room == Canon[asked.to]
             same == Presence("available", room, asked.res, {"self"}, NoText)
             new(flags) == Presence("available", room, occ[room], flags, asked.res)
  <1>1. /\ room \in Address /\ asked.res \in Texts /\ outbox' \in Seq(Outgoing)
        /\ UNCHANGED <<said, disturbed, stimuli>> /\ serverUnchanged
        /\ occ' = [occ EXCEPT ![room] = asked.res]
    BY TakeType DEF Rename
  <1>2. PICK flags \in {{"changed"}, {"changed", "self"}} :
           Arrive(<<IF asked.res = occ[room] THEN same ELSE new(flags)>>)
    BY DEF Rename
  <1>3. same \in Incoming
    BY <1>1, PresenceType, TextsAssumption DEF PresenceFlags
  <1>4. new(flags) \in Incoming
    BY <1>1, PresenceType, TextsAssumption DEF TypeOK, PresenceFlags
  <1>5. inbox' \in Seq(Incoming)
    <2>1. Arrive(<<same>>) \/ Arrive(<<new(flags)>>) BY <1>2
    <2> QED BY <1>3, <1>4, <2>1, ArriveOneType
  <1>6. occ' \in [Address -> Texts] BY <1>1 DEF TypeOK
  <1> QED BY <1>1, <1>5, <1>6 DEF serverUnchanged, TypeOK, BotTypeOK

LEMMA LineIdType ==
    ASSUME TypeOK, NEW counts
    PROVE  LineId(counts) \in Nat
  <1>1. Len(said) + 1 \in Nat BY DEF TypeOK
  <1> QED BY <1>1 DEF LineId

LEMMA BroadcastType ==
    ASSUME TypeOK, Broadcast
    PROVE  TypeOK'
  <1> DEFINE sent == Head(outbox)
             room == Canon[sent.to]
  <1>1. /\ room \in Address /\ sent.body \in Body /\ outbox' \in Seq(Outgoing)
        /\ UNCHANGED <<occ, disturbed, stimuli>> /\ serverUnchanged
    BY TakeType DEF Broadcast
  <1> DEFINE line == ~Empty(sent.body)
             id == LineId(line)
  <1>2. id \in Nat BY LineIdType
  <1> HIDE DEF id, line
  <1> DEFINE echo == Message("groupchat", room, occ[room], sent.body, id)
             error == Message("error", room, NoText, sent.body, 0)
  <1>3. occ[room] \in Texts /\ NoText \in Texts BY <1>1, TextsAssumption DEF TypeOK
  <1>4. echo \in Incoming /\ error \in Incoming
    <2>1. echo \in Incoming BY <1>1, <1>2, <1>3, MessageType
    <2>2. error \in Incoming BY <1>1, <1>3, MessageType
    <2> QED BY <2>1, <2>2
  <1>5. inbox' \in Seq(Incoming) /\ said' \in Seq(Address)
    <2>1. \/ Arrive(<<echo>>) /\ said' \in {said, Append(said, room)}
          \/ Arrive(<<error>>) /\ UNCHANGED said
      BY DEF Broadcast, SayLine, id, line
    <2>2. inbox' \in Seq(Incoming) BY <1>4, <2>1, ArriveOneType
    <2>3. said' \in Seq(Address)
      <3>1. Append(said, room) \in Seq(Address) /\ said \in Seq(Address)
        BY <1>1, SaidType DEF TypeOK
      <3> HIDE DEF room
      <3> QED BY <2>1, <3>1
    <2> QED BY <2>2, <2>3
  <1> QED BY <1>1, <1>5 DEF serverUnchanged, TypeOK, BotTypeOK

LEMMA DeliverType ==
    ASSUME TypeOK, Deliver
    PROVE  TypeOK'
  <1> DEFINE sent == Head(outbox)
             bounce == Message("error", sent.to, sent.res, sent.body, 0)
  <1>1. /\ outbox' \in Seq(Outgoing)
        /\ UNCHANGED <<occ, said, disturbed>> /\ serverUnchanged
    BY TakeType DEF Deliver
  <1>2. bounce \in Incoming BY TakeType, MessageType, TextsAssumption DEF Deliver
  <1>3. inbox' \in Seq(Incoming) /\ stimuli' \in Nat
    <2>1. CASE UNCHANGED <<inbox, stimuli>> BY <2>1 DEF TypeOK, BotTypeOK
    <2>2. CASE Arrive(<<bounce>>) /\ stimuli' = stimuli + 1
      BY <1>2, <2>2, ArriveOneType DEF TypeOK
    <2> QED BY <2>1, <2>2 DEF Deliver
  <1> QED BY <1>1, <1>3 DEF serverUnchanged, TypeOK, BotTypeOK

\* What is spoken in a room.
LEMMA SpokenType ==
    ASSUME TypeOK, NEW room \in Rooms, NEW body \in UserBodies, NEW form \in Forms
    PROVE  /\ Spoken(form, room, body) \in Incoming
           /\ Spoken(form, room, body).kind = "message"
           /\ Spoken(form, room, body).from = room
           /\ Spoken(form, room, body).body = body
           /\ Spoken(form, room, body).id = LineId(IsLine(form, body))
           /\ form = "plain" => /\ Spoken(form, room, body).type = "groupchat"
                                /\ ~Spoken(form, room, body).threaded
                                /\ ~Spoken(form, room, body).subject
  <1> DEFINE id == LineId(IsLine(form, body))
             type == IF form = "headline" THEN form ELSE "groupchat"
             words == Message(type, room, "someone", body, id)
  <1>1. id \in Nat BY LineIdType
  <1>2. type \in {"groupchat", "headline"} /\ (form = "plain" => type = "groupchat")
    OBVIOUS
  <1>3. Spoken(form, room, body) = [words EXCEPT !.threaded = form = "threaded",
                                                 !.subject = form = "subject"]
    BY DEF Spoken
  <1> HIDE DEF id, type
  <1>4. words \in Incoming
    BY <1>1, <1>2, MessageType, SessionAssumption
  <1>5. /\ words.kind = "message" /\ words.from = room /\ words.body = body
        /\ words.id = id /\ words.type = type
    BY DEF Message
  <1> HIDE DEF words
  <1> QED BY <1>2, <1>3, <1>4, <1>5 DEF Incoming, id

\* The world outside writes well-typed stanzas.
LEMMA WorldType ==
    ASSUME TypeOK, World
    PROVE  TypeOK'
  <1>1. stimuli' \in Nat /\ UNCHANGED outbox /\ serverUnchanged
    BY DEF World, Direct, Speak, Whisper, Expel, Subscribe, Stimulus, TypeOK
  <1>2. inbox' \in Seq(Incoming)
    <2>1. CASE Direct
      <3>1. PICK user \in Users, body \in UserBodies :
               Arrive(<<Message("chat", user, NoText, body, 0)>>)
        BY <2>1 DEF Direct
      <3>2. Message("chat", user, NoText, body, 0) \in Incoming
        BY MessageType, SessionAssumption, TextsAssumption
      <3> QED BY <3>1, <3>2, ArriveOneType
    <2>2. CASE Speak
      <3>1. PICK room \in Rooms, body \in UserBodies, form \in Forms :
               Arrive(<<Spoken(form, room, body)>>)
        BY <2>2 DEF Speak
      <3>2. Spoken(form, room, body) \in Incoming BY SpokenType
      <3> QED BY <3>1, <3>2, ArriveOneType
    <2>3. CASE Whisper
      <3>1. PICK room \in Rooms, body \in UserBodies :
               Arrive(<<Message("chat", room, "someone", body, 0)>>)
        BY <2>3 DEF Whisper
      <3>2. Message("chat", room, "someone", body, 0) \in Incoming
        BY MessageType, SessionAssumption
      <3> QED BY <3>1, <3>2, ArriveOneType
    <2>4. CASE Expel
      <3>1. PICK room \in Rooms :
               Arrive(<<Presence("available", room, occ[room], {"self"}, NoText)>>)
        BY <2>4 DEF Expel
      <3>2. room \in Address /\ occ[room] \in Texts
        BY SessionAssumption DEF TypeOK
      <3>3. Presence("available", room, occ[room], {"self"}, NoText) \in Incoming
        BY <3>2, PresenceType, TextsAssumption DEF PresenceFlags
      <3> QED BY <3>1, <3>3, ArriveOneType
    <2>5. CASE Subscribe
      <3>1. PICK user \in Users :
               Arrive(<<[Presence("available", user, NoText, {}, NoText)
                           EXCEPT !.kind = "subscribe"]>>)
        BY <2>5 DEF Subscribe
      <3>2. Presence("available", user, NoText, {}, NoText) \in Incoming
        BY PresenceType, SessionAssumption, TextsAssumption
      <3>3. [Presence("available", user, NoText, {}, NoText)
               EXCEPT !.kind = "subscribe"] \in Incoming
        BY <3>2 DEF Incoming
      <3> QED BY <3>1, <3>3, ArriveOneType
    <2> QED BY <2>1, <2>2, <2>3, <2>4, <2>5 DEF World
  <1>3. occ' \in [Address -> Texts] /\ disturbed' \subseteq Address
    <2>1. CASE Expel
      <3>1. PICK room \in Rooms : /\ occ' = [occ EXCEPT ![room] = NoText]
                                  /\ disturbed' = disturbed \cup {room}
        BY <2>1 DEF Expel
      <3> QED BY <3>1, SessionAssumption, TextsAssumption DEF TypeOK
    <2>2. CASE ~Expel
      BY <2>2 DEF World, Direct, Speak, Whisper, Subscribe, TypeOK
    <2> QED BY <2>1, <2>2
  <1>4. said' \in Seq(Address)
    <2>1. CASE Speak
      <3>1. PICK room \in Rooms : said' = said \/ said' = Append(said, room)
        BY <2>1 DEF Speak, SayLine
      <3>2. Append(said, room) \in Seq(Address) /\ said \in Seq(Address)
        BY SessionAssumption, SaidType DEF TypeOK
      <3> QED BY <3>1, <3>2
    <2>2. CASE ~Speak
      BY <2>2 DEF World, Direct, Whisper, Expel, Subscribe, TypeOK
    <2> QED BY <2>1, <2>2
  <1> QED BY <1>1, <1>2, <1>3, <1>4 DEF serverUnchanged, TypeOK, BotTypeOK

\* The rooms a step of the bot disturbs are addresses.
LEMMA BotStepType ==
    ASSUME TypeOK, BotStep
    PROVE  TypeOK'
  <1>1. BotTypeOK' BY BotNextType DEF TypeOK, BotStep
  <1>2. NewlyDisturbed \subseteq Address
    <2>1. ASSUME NEW k \in NewRequests PROVE Canon[outbox'[k].to] \in Address
      <3>1. outbox'[k] \in Outgoing BY <1>1 DEF NewRequests, BotTypeOK
      <3> QED BY <3>1, SessionAssumption DEF Outgoing
    <2> QED BY <2>1 DEF NewlyDisturbed
  <1> QED BY <1>1, <1>2 DEF BotStep, TypeOK

\* TypeOK holds throughout every run.
THEOREM TypeCorrect == Spec => []TypeOK
  <1>1. Init => TypeOK
    BY TextsAssumption DEF Init, BotInit, TypeOK, BotTypeOK
  <1>2. TypeOK /\ [Next]_vars => TypeOK'
    <2> SUFFICES ASSUME TypeOK, [Next]_vars PROVE TypeOK' OBVIOUS
    <2>1. CASE BotStep BY <2>1, BotStepType
    <2>2. CASE Refuse BY <2>2, RefuseType
    <2>3. CASE Admit BY <2>3, AdmitType
    <2>4. CASE Rename BY <2>4, RenameType
    <2>5. CASE Broadcast BY <2>5, BroadcastType
    <2>6. CASE Deliver BY <2>6, DeliverType
    <2>7. CASE AnswerSubscription
      <3>1. outbox' \in Seq(Outgoing) BY <2>7, TakeType DEF AnswerSubscription
      <3> QED
        BY <2>7, <3>1 DEF AnswerSubscription, worldVars, serverUnchanged, TypeOK, BotTypeOK
    <2>8. CASE World BY <2>8, WorldType
    <2>9. CASE UNCHANGED vars
      BY <2>9 DEF vars, botVars, worldVars, TypeOK, BotTypeOK
    <2> QED
      BY <2>1, <2>2, <2>3, <2>4, <2>5, <2>6, <2>7, <2>8, <2>9 DEF Next, Service
  <1> QED BY <1>1, <1>2, PTL DEF Spec

(***************************************************************************)
(* The registries of the client match the rooms.                           *)
(***************************************************************************)
\* A room that handles a presence stays in unless it gives up.
LEMMA JoinedAfter ==
    ASSUME NEW room \in Room, NEW pres \in Incoming
    PROVE  AfterPresence(room, pres).joined <=> room.joined /\ ~GivesUpOn(room, pres)
  <1>2. AfterNews(room, pres).joined = room.joined
    <2> DEFINE named == IF "assigned" \in pres.flags
                          THEN [room EXCEPT !.nick = pres.res] ELSE room
    <2>1. named \in Room /\ named.joined = room.joined BY DEF Room, Incoming
    <2> HIDE DEF named
    <2>2. [named EXCEPT !.nick = pres.newNick].joined = named.joined BY <2>1 DEF Room
    <2>3. AfterNews(room, pres) = IF OwnNickChange(named, pres)
             THEN [named EXCEPT !.nick = pres.newNick] ELSE named
      BY DEF AfterNews, named
    <2> QED BY <2>1, <2>2, <2>3
  <1>3. CASE pres.type = "error" /\ room.newNick = NoText
    BY <1>3 DEF AfterPresence, AfterError, GivesUpOn, Room
  <1>4. CASE pres.type = "error" /\ room.newNick # NoText
    BY <1>4 DEF AfterPresence, AfterError, GivesUpOn, Room
  <1>5. CASE pres.type # "error"
    BY <1>2, <1>5 DEF AfterPresence, GivesUpOn, Room
  <1> QED BY <1>3, <1>4, <1>5

LEMMA ExecuteMatches ==
    ASSUME BotTypeOK, RegistriesMatch, NEW body \in Body, NEW level, NEW back,
           Execute(body, level, back)
    PROVE  RegistriesMatch'
  <1>1. CASE sameRooms
    BY <1>1 DEF sameRooms, RegistriesMatch
  <1>2. CASE EnterCmd(body, back) /\ ~sameRooms
    <2> DEFINE place == Len(rooms) + 1
               new == JoinedRoom(FinishRoomName(body.room), ConfigNick)
    <2>1. /\ rooms' = Append(rooms, new)
          /\ handlers' = handlers \cup {place} /\ sessions' = sessions \cup {place}
      BY <1>2 DEF EnterCmd
    <2>2. new \in Room /\ new.joined BY NameType, JoinedRoomType DEF Body
    <2>3. /\ Len(rooms) \in Nat /\ DOMAIN rooms = 1 .. Len(rooms)
          /\ DOMAIN rooms' = 1 .. place
          /\ rooms'[place] = new
          /\ \A i \in 1 .. Len(rooms) : rooms'[i] = rooms[i]
      BY <2>1, <2>2, AppendProperties, LenProperties DEF BotTypeOK
    <2> HIDE DEF new
    <2>4. ASSUME NEW i \in DOMAIN rooms'
          PROVE  (rooms'[i].joined <=> i \in handlers') /\ (rooms'[i].joined <=> i \in sessions')
      <3>1. CASE i = place BY <2>1, <2>2, <2>3, <3>1
      <3>2. CASE i # place
        <4>1. i \in DOMAIN rooms /\ rooms'[i] = rooms[i] BY <2>3, <3>2
        <4> QED BY <2>1, <3>2, <4>1 DEF RegistriesMatch
      <3> QED BY <3>1, <3>2
    <2> QED BY <2>4 DEF RegistriesMatch
  <1>3. CASE NickCmd(body, back)
    <2>1. CASE HasRoom(body.room)
      <3> DEFINE i == GetRoom(body.room)
      <3>1. i \in DOMAIN rooms /\ rooms[i] \in Room /\ body.text \in Texts
        BY <2>1, GetRoomType DEF BotTypeOK, Body
      <3>2. /\ rooms' = [rooms EXCEPT ![i] = AfterSetNick(rooms[i], body.text)]
            /\ handlers' = handlers /\ sessions' = sessions
        BY <1>3, <2>1 DEF NickCmd
      <3>3. AfterSetNick(rooms[i], body.text).joined = rooms[i].joined
        BY <3>1 DEF AfterSetNick, Room
      <3>4. DOMAIN rooms' = DOMAIN rooms
            /\ \A k \in DOMAIN rooms : rooms'[k].joined = rooms[k].joined
        BY <3>1, <3>2, <3>3
      <3> QED BY <3>2, <3>4 DEF RegistriesMatch
    <2>2. CASE ~HasRoom(body.room)
      BY <1>3, <2>2 DEF NickCmd, RegistriesMatch
    <2> QED BY <2>1, <2>2
  <1> QED
    BY <1>1, <1>2, <1>3 DEF Execute, BfCmd, HelpCmd, SayCmd, ExitCmd

\* Throughout every run a room believes it has joined exactly while its
\* presence handler and its message session are registered.
THEOREM RegistriesCorrect == Spec => []RegistriesMatch
  <1>1. Init => RegistriesMatch
    BY DEF Init, BotInit, RegistriesMatch
  <1>2. TypeOK /\ RegistriesMatch /\ [Next]_vars => RegistriesMatch'
    <2> SUFFICES ASSUME TypeOK, RegistriesMatch, [Next]_vars
                 PROVE  RegistriesMatch'
      OBVIOUS
    <2> USE DEF TypeOK
    <2>1. CASE UNCHANGED <<rooms, handlers, sessions>>
      BY <2>1 DEF RegistriesMatch
    <2>2. CASE HandleMessage
      <3>1. Head(chunk).body \in Body BY <2>2, HeadType DEF HandleMessage, Incoming
      <3> QED BY <2>2, <3>1, ExecuteMatches DEF HandleMessage
    <2>3. CASE HandleMUCMessage
      <3>1. Head(chunk).body \in Body BY <2>3, HeadType DEF HandleMUCMessage, Incoming
      <3>2. CASE sameRooms BY <2>1, <3>2 DEF sameRooms
      <3> QED BY <2>3, <3>1, <3>2, ExecuteMatches DEF HandleMUCMessage
    <2>4. CASE HandlePresence
      <3> DEFINE pres == Head(chunk)
      <3>1. pres \in Incoming BY <2>4, HeadType DEF HandlePresence
      <3>2. /\ DOMAIN rooms' = DOMAIN rooms
            /\ handlers' = handlers \ Leaving(pres)
            /\ sessions' = sessions \ Leaving(pres)
        BY <2>4, WalkCallsAll DEF HandlePresence
      <3>3. ASSUME NEW i \in DOMAIN rooms
            PROVE  /\ rooms'[i].joined <=> i \in handlers'
                   /\ rooms'[i].joined <=> i \in sessions'
        <4>1. rooms[i] \in Room BY DEF BotTypeOK
        <4>2. CASE i \in Matched(pres)
          <5>1. rooms'[i] = AfterPresence(rooms[i], pres)
            BY <2>4, <4>2, WalkCallsAll
          <5>2. rooms'[i].joined <=> rooms[i].joined /\ ~GivesUpOn(rooms[i], pres)
            <6>1. AfterPresence(rooms[i], pres).joined
                    <=> rooms[i].joined /\ ~GivesUpOn(rooms[i], pres)
              BY ONLY <3>1, <4>1, JoinedAfter
            <6> HIDE DEF pres
            <6> QED BY ONLY <5>1, <6>1
          <5>3. /\ i \in handlers' <=> i \in handlers /\ ~GivesUpOn(rooms[i], pres)
                /\ i \in sessions' <=> i \in sessions /\ ~GivesUpOn(rooms[i], pres)
            BY <3>2, <4>2, WalkCallsAll
          <5>4. /\ rooms[i].joined <=> i \in handlers
                /\ rooms[i].joined <=> i \in sessions
            BY DEF RegistriesMatch
          <5> QED BY <5>2, <5>3, <5>4
        <4>3. CASE i \notin Matched(pres)
          <5>1. rooms'[i] = rooms[i] BY <2>4, <4>3, WalkCallsAll
          <5> QED BY <3>2, <4>3, <5>1, WalkCallsAll DEF RegistriesMatch
        <4> QED BY <4>2, <4>3
      <3> QED BY <3>2, <3>3 DEF RegistriesMatch
    <2>5. CASE HandleSubscription BY <2>1, <2>5 DEF HandleSubscription, sameRooms
    <2>6. CASE OnConnect
      <3>1. /\ \A i \in DOMAIN rooms' : rooms'[i].joined
            /\ DOMAIN rooms' = DOMAIN AutoJoin
            /\ handlers' = DOMAIN AutoJoin /\ sessions' = DOMAIN AutoJoin
        BY <2>6, OnConnectType DEF OnConnect
      <3> QED BY <3>1 DEF RegistriesMatch
    <2>7. CASE Receive \/ ConnectionLost BY <2>1, <2>7 DEF Receive, ConnectionLost
    <2>8. CASE Service
      BY <2>1, <2>8 DEF Service, Refuse, Admit, Rename, Broadcast, Deliver,
                        AnswerSubscription, serverUnchanged
    <2>9. CASE World
      BY <2>1, <2>9 DEF World, Direct, Speak, Whisper, Expel, Subscribe, Stimulus,
                        serverUnchanged
    <2>10. CASE UNCHANGED vars BY <2>1, <2>10 DEF vars, botVars
    <2> QED
      BY <2>2, <2>3, <2>4, <2>5, <2>6, <2>7, <2>8, <2>9, <2>10
         DEF Next, BotStep, BotNext, Handle
  <1> QED BY <1>1, <1>2, TypeCorrect, PTL DEF Spec

(***************************************************************************)
(* Strangers are only answered.                                            *)
(***************************************************************************)
\* Two commands ask for no access level.
LEMMA FreeCommands ==
    ASSUME NEW body, NEW name, Runs(body, 0, name)
    PROVE  name \in {"!bf", "!help"}
  <1>1. PICK k \in DOMAIN Commands :
           Commands[k].name = name /\ 0 >= Commands[k].accessLevel
    BY DEF Runs
  <1>2. k \in 1 .. 6 BY <1>1 DEF Commands
  <1>3. CASE k = 1 BY <1>1, <1>3 DEF Commands
  <1>4. CASE k = 4 BY <1>1, <1>4 DEF Commands
  <1>5. CASE k \in {2, 3, 5, 6}
    <2>1. Commands[k].accessLevel = 100 BY <1>5 DEF Commands
    <2> QED BY <1>1, <2>1
  <1> QED BY <1>2, <1>3, <1>4, <1>5

LEMMA StrangerExecutes ==
    ASSUME BotTypeOK, NEW body \in Body, NEW back \in Outgoing, Execute(body, 0, back)
    PROVE  /\ UNCHANGED <<rooms, handlers, sessions>>
           /\ conn' \in {conn, "lost"}
           /\ \/ outbox' = outbox
              \/ \E text \in Texts : outbox' = Append(outbox, Answer(back, text))
  <1>1. \/ BfCmd(body, back)
        \/ HelpCmd(back)
        \/ sameRooms /\ UNCHANGED <<conn, outbox>>
    BY FreeCommands DEF Execute
  <1>2. ASSUME NEW text \in Texts, Send(<<Answer(back, text)>>)
        PROVE  /\ conn' \in {conn, "lost"}
               /\ \/ outbox' = outbox
                  \/ \E t \in Texts : outbox' = Append(outbox, Answer(back, t))
    <2>1. Answer(back, text) \in Outgoing BY AnswerType
    <2>2. outbox \o <<Answer(back, text)>> = Append(outbox, Answer(back, text))
      BY <2>1, AppendIsConcat DEF BotTypeOK
    <2> QED BY <1>2, <2>2 DEF Send
  <1>3. BfOutput[body.text] \in Texts /\ Replies["help"] \in Texts
    BY BotAssumption DEF Body, ReplyNames
  <1>4. CASE BfCmd(body, back) BY <1>2, <1>3, <1>4 DEF BfCmd, sameRooms
  <1>5. CASE HelpCmd(back) BY <1>2, <1>3, <1>5 DEF HelpCmd, sameRooms
  <1>6. CASE sameRooms /\ UNCHANGED <<conn, outbox>> BY <1>6 DEF sameRooms
  <1> QED BY <1>1, <1>4, <1>5, <1>6

\* An appended answer is the one the property speaks of.
LEMMA LastAnswer ==
    ASSUME BotTypeOK, NEW answer \in Outgoing, outbox' = Append(outbox, answer)
    PROVE  outbox'[Len(outbox')] = answer
  BY AppendProperties DEF BotTypeOK

\* Whoever is no master gets at most one answer out of the bot, and changes
\* neither its rooms nor its connection, but that the answer may be the send
\* that fails, whatever he sends and in any run.
THEOREM StrangersAnswered == Spec => StrangersOnlyAnswered
  <1>1. TypeOK /\ [Next]_vars => [OnlyAnswered]_vars
    <2> SUFFICES ASSUME TypeOK, Next,
                        chunk # <<>>, chunk' = Tail(chunk),
                        Head(chunk).kind = "message", Head(chunk).from \notin Masters
                 PROVE  OnlyAnswered
      BY DEF OnlyAnswered
    <2> USE DEF TypeOK
    <2> DEFINE msg == Head(chunk)
    <2>1. msg \in Incoming
      <3>1. chunk \in Seq(Incoming) BY DEF BotTypeOK
      <3> QED BY <3>1, HeadTailProperties
    <2>2. ASSUME NEW back \in Outgoing, back.kind \in {"chat", "groupchat"},
                 back.to = msg.from, Execute(msg.body, 0, back)
          PROVE  OnlyAnswered
      <3>1. msg.body \in Body BY <2>1 DEF Incoming
      <3>2. /\ UNCHANGED <<rooms, handlers, sessions>>
            /\ conn' \in {conn, "lost"}
            /\ \/ outbox' = outbox
               \/ \E text \in Texts : outbox' = Append(outbox, Answer(back, text))
        BY <2>2, <3>1, StrangerExecutes
      <3>3. CASE outbox' = outbox BY <3>2, <3>3 DEF OnlyAnswered
      <3>4. CASE \E text \in Texts : outbox' = Append(outbox, Answer(back, text))
        <4>1. PICK text \in Texts : outbox' = Append(outbox, Answer(back, text))
          BY <3>4
        <4>2. /\ Answer(back, text) \in Outgoing
              /\ Answer(back, text).kind = back.kind /\ Answer(back, text).to = back.to
          BY AnswerType
        <4>3. outbox'[Len(outbox')] = Answer(back, text) BY <4>1, <4>2, LastAnswer
        <4> QED BY <2>2, <3>2, <4>1, <4>2, <4>3 DEF OnlyAnswered
      <3> QED BY <3>2, <3>3, <3>4
    <2>3. CASE HandleMessage
      <3> DEFINE back == MessageTo("chat", msg.from, msg.res, Plain(NoText))
      <3>1. msg.from \in Address /\ msg.res \in Texts BY <2>1 DEF Incoming
      <3>2. back \in Outgoing BY <3>1, StanzaTypes, PlainType, TextsAssumption
      <3>3. back.kind = "chat" /\ back.to = msg.from BY DEF MessageTo
      <3>4. Execute(msg.body, 0, back) BY <2>3 DEF HandleMessage, AccessLevel
      <3> QED BY <2>2, <3>2, <3>3, <3>4
    <2>4. CASE HandleMUCMessage
      <3> DEFINE room == rooms[SessionFor(msg)]
                 back == MessageTo("groupchat", room.addr, NoText, Plain(NoText))
      <3>1. SessionFor(msg) \in SessionsFor(msg) /\ SessionFor(msg) \in DOMAIN rooms
        BY <2>4, SessionForType DEF HandleMUCMessage
      <3>2. room \in Room /\ room.addr = msg.from
        <4>1. room \in Room BY <3>1 DEF BotTypeOK
        <4>2. room.addr = msg.from BY <3>1 DEF SessionsFor
        <4> QED BY <4>1, <4>2
      <3>3. back \in Outgoing BY <3>2, StanzaTypes, PlainType, TextsAssumption DEF Room
      <3>4. back.kind = "groupchat" /\ back.to = msg.from BY <3>2 DEF MessageTo
      <3>5. CASE Execute(msg.body, 0, back) BY <2>2, <3>3, <3>4, <3>5
      <3>6. CASE sameRooms /\ UNCHANGED <<conn, outbox>>
        BY <3>6 DEF sameRooms, OnlyAnswered
      <3> QED BY <2>4, <3>5, <3>6 DEF HandleMUCMessage
    <2>5. chunk' # chunk
      BY HeadTailProperties DEF BotTypeOK
    <2>6. HandleMessage \/ HandleMUCMessage
      BY <2>5 DEF Next, BotStep, BotNext, Handle, HandlePresence, HandleSubscription,
                  TakeStanza, OnConnect, Receive, ConnectionLost,
                  Service, Refuse, Admit, Rename, Broadcast, Deliver, AnswerSubscription,
                  World, Direct, Speak, Whisper, Expel, Subscribe, Stimulus,
                  serverUnchanged
    <2> QED BY <2>3, <2>4, <2>6
  <1> QED BY <1>1, TypeCorrect, PTL DEF Spec, StrangersOnlyAnswered

(***************************************************************************)
(* The chat logs keep the order of the service.                            *)
(***************************************************************************)
\* The strengthening: what was logged, what was read and what is on its way
\* is one ascending stream, and the service has not yet sent what comes after
\* it.  LoggedOnceInOrder alone says nothing of the messages that may still be
\* logged.
Ascending(s) ==
    \A m, n \in DOMAIN s : m < n /\ s[m].id # 0 /\ s[n].id # 0 => s[m].id < s[n].id
Before(s, t) ==
    \A m \in DOMAIN s, n \in DOMAIN t :
        s[m].id # 0 /\ t[n].id # 0 => s[m].id < t[n].id
Sent(s) == \A m \in DOMAIN s : s[m].id <= Len(said)

OneStream ==
    /\ Ascending(confLogs) /\ Ascending(chunk) /\ Ascending(inbox)
    /\ Before(confLogs, chunk) /\ Before(confLogs, inbox) /\ Before(chunk, inbox)
    /\ Sent(confLogs) /\ Sent(chunk) /\ Sent(inbox)

\* The streams hold numbered stanzas and lines.
LEMMA Numbered ==
    ASSUME TypeOK
    PROVE  /\ Len(inbox) \in Nat /\ DOMAIN inbox = 1 .. Len(inbox)
           /\ Len(chunk) \in Nat /\ DOMAIN chunk = 1 .. Len(chunk)
           /\ Len(confLogs) \in Nat /\ DOMAIN confLogs = 1 .. Len(confLogs)
           /\ Len(said) \in Nat
           /\ \A m \in DOMAIN inbox : inbox[m].id \in Nat
           /\ \A m \in DOMAIN chunk : chunk[m].id \in Nat
           /\ \A m \in DOMAIN confLogs : confLogs[m].id \in Nat
  <1>1. /\ inbox \in Seq(Incoming) /\ chunk \in Seq(Incoming) /\ said \in Seq(Address)
        /\ confLogs \in Seq([room : Address, id : Nat, delayed : BOOLEAN])
    BY DEF TypeOK, BotTypeOK
  <1>2. \A x \in Incoming : x.id \in Nat BY DEF Incoming
  <1>3. \A x \in [room : Address, id : Nat, delayed : BOOLEAN] : x.id \in Nat OBVIOUS
  <1>4. \A m \in 1 .. Len(inbox) : inbox[m].id \in Nat BY <1>1, <1>2, ElementOfSeq
  <1>5. \A m \in 1 .. Len(chunk) : chunk[m].id \in Nat BY <1>1, <1>2, ElementOfSeq
  <1>6. \A m \in 1 .. Len(confLogs) : confLogs[m].id \in Nat
    BY <1>1, <1>3, ElementOfSeq
  <1> QED BY <1>1, <1>4, <1>5, <1>6, LenProperties

\* What arrives is not numbered, or is a single stanza with the next number.
LEMMA ArrivalInOrder ==
    ASSUME TypeOK, OneStream, NEW T, NEW t \in Seq(T), Arrive(t),
           UNCHANGED <<chunk, confLogs>>,
           \/ (\A x \in T : x.id = 0) /\ UNCHANGED said
           \/ /\ Len(t) = 1 /\ \A x \in T : x.id = Len(said) + 1
              /\ Len(said') = Len(said) + 1
    PROVE  OneStream'
  <1> DEFINE n == Len(inbox)
             next == Len(said) + 1
  <1>1. inbox \in Seq(Incoming \cup T) /\ t \in Seq(Incoming \cup T)
    BY SeqMonotonic DEF TypeOK, BotTypeOK
  <1>2. /\ inbox' = inbox \o t /\ inbox' \in Seq(Incoming \cup T)
        /\ Len(inbox') = n + Len(t) /\ Len(t) \in Nat
        /\ \A i \in 1 .. n + Len(t) :
              inbox'[i] = IF i <= n THEN inbox[i] ELSE t[i - n]
    BY <1>1, ConcatProperties, LenProperties DEF Arrive
  <1>3. DOMAIN inbox' = 1 .. n + Len(t) BY <1>2, LenProperties
  <1>4. ASSUME NEW i \in DOMAIN inbox', ~(i \in 1 .. n)
        PROVE  /\ i > n
               /\ \/ inbox'[i].id = 0
                  \/ i = n + 1 /\ inbox'[i].id = next /\ Len(said') = next
    <2>1. i \in 1 .. n + Len(t) /\ i > n /\ i - n \in 1 .. Len(t)
      BY <1>2, <1>3, <1>4, Numbered
    <2>2. inbox'[i] = t[i - n] BY <1>2, <2>1, Numbered
    <2>3. t[i - n] \in T BY <2>1, ElementOfSeq
    <2>4. CASE (\A x \in T : x.id = 0) BY <2>1, <2>2, <2>3, <2>4
    <2>5. CASE /\ Len(t) = 1 /\ \A x \in T : x.id = Len(said) + 1
               /\ Len(said') = Len(said) + 1
      <3>1. i = n + 1 BY <2>1, <2>5, Numbered
      <3> QED BY <2>1, <2>2, <2>3, <2>5, <3>1
    <2> QED BY <2>4, <2>5
  <1>5. /\ \A i \in DOMAIN inbox : inbox'[i] = inbox[i] /\ i \in DOMAIN inbox'
        /\ \A i \in DOMAIN inbox' : i \in 1 .. n => i \in DOMAIN inbox
    BY <1>2, <1>3, Numbered
  <1>6. Len(said) \in Nat /\ Len(said') \in Nat /\ Len(said) <= Len(said') BY Numbered
  <1> HIDE DEF n, next
  <1>7. Sent(confLogs)' /\ Sent(chunk)' BY <1>6, Numbered DEF OneStream, Sent
  <1>8. Sent(inbox)'
    <2>1. ASSUME NEW i \in DOMAIN inbox' PROVE inbox'[i].id <= Len(said')
      <3>1. CASE i \in 1 .. n
        BY <1>5, <1>6, <3>1, Numbered DEF OneStream, Sent
      <3>2. CASE ~(i \in 1 .. n) BY <1>4, <1>6, <3>2
      <3> QED BY <3>1, <3>2
    <2> QED BY <2>1 DEF Sent
  <1>9. ASSUME NEW s, Sent(s), \A m \in DOMAIN s : s[m].id \in Nat, Before(s, inbox)
        PROVE  Before(s, inbox')
    <2>1. ASSUME NEW m \in DOMAIN s, NEW i \in DOMAIN inbox',
                 s[m].id # 0, inbox'[i].id # 0
          PROVE  s[m].id < inbox'[i].id
      <3>1. CASE i \in 1 .. n BY <1>5, <1>9, <2>1, <3>1 DEF Before
      <3>2. CASE ~(i \in 1 .. n)
        <4>1. inbox'[i].id = Len(said) + 1 BY <1>4, <2>1, <3>2 DEF next
        <4> QED BY <1>6, <1>9, <4>1 DEF Sent
      <3> QED BY <3>1, <3>2
    <2> QED BY <2>1 DEF Before
  <1>10. Ascending(inbox)'
    <2>1. ASSUME NEW m \in DOMAIN inbox', NEW i \in DOMAIN inbox', m < i,
                 inbox'[m].id # 0, inbox'[i].id # 0
          PROVE  inbox'[m].id < inbox'[i].id
      <3>1. n \in Nat BY Numbered DEF n
      <3>2. CASE i \in 1 .. n
        <4>1. m \in 1 .. n BY <1>3, <2>1, <3>1, <3>2
        <4> QED BY <1>5, <2>1, <3>2, <4>1 DEF OneStream, Ascending
      <3>3. CASE ~(i \in 1 .. n)
        <4>1. inbox'[i].id = Len(said) + 1 /\ i = n + 1 BY <1>4, <2>1, <3>3 DEF next
        <4>2. m \in 1 .. n BY <1>3, <2>1, <3>1, <4>1
        <4>3. m \in DOMAIN inbox /\ inbox'[m] = inbox[m] BY <1>5, <4>2
        <4> QED BY <1>6, <4>1, <4>3, Numbered DEF OneStream, Sent
      <3> QED BY <3>2, <3>3
    <2> QED BY <2>1 DEF Ascending
  <1>11. Before(confLogs, inbox)' /\ Before(chunk, inbox)'
    BY <1>9, Numbered DEF OneStream, Before
  <1> QED BY <1>7, <1>8, <1>10, <1>11 DEF OneStream, Ascending, Before

\* A read cuts the stream in two.
LEMMA ReadInOrder ==
    ASSUME TypeOK, OneStream, Receive, UNCHANGED said
    PROVE  OneStream'
  <1>1. PICK n \in 1 .. ChunkMax :
           /\ n <= Len(inbox)
           /\ chunk' = SubSeq(inbox, 1, n)
           /\ inbox' = SubSeq(inbox, n + 1, Len(inbox))
    BY DEF Receive
  <1>2. confLogs' = confLogs /\ n \in Nat /\ n >= 1 BY DEF Receive
  <1> DEFINE size == Len(inbox)
  <1>3. /\ size \in Nat /\ n <= size
        /\ DOMAIN inbox = 1 .. size /\ inbox \in Seq(Incoming)
    BY <1>1, Numbered DEF TypeOK, BotTypeOK
  <1>4. \A i \in 1 .. size : inbox[i] \in Incoming BY <1>3, ElementOfSeq
  <1>5. /\ DOMAIN chunk' = 1 .. n
        /\ \A i \in 1 .. n : chunk'[i] = inbox[i] /\ i \in DOMAIN inbox
    <2>1. \A i \in 1 .. n : inbox[i] \in Incoming /\ i \in DOMAIN inbox
      BY <1>1, <1>2, <1>3, <1>4
    <2>2. /\ chunk' \in Seq(Incoming)
          /\ Len(chunk') = IF 1 <= n THEN n - 1 + 1 ELSE 0
          /\ \A i \in 1 .. n - 1 + 1 : chunk'[i] = inbox[1 + i - 1]
      BY <1>1, <1>2, <2>1, SubSeqProperties
    <2>3. Len(chunk') = n BY <1>2, <2>2
    <2>4. DOMAIN chunk' = 1 .. n BY <2>2, <2>3, LenProperties
    <2>5. ASSUME NEW i \in 1 .. n PROVE chunk'[i] = inbox[i]
      <3>1. i \in 1 .. n - 1 + 1 /\ 1 + i - 1 = i BY <1>2
      <3> QED BY <2>2, <3>1
    <2> QED BY <2>1, <2>4, <2>5
  <1>6. /\ DOMAIN inbox' = 1 .. size - n
        /\ \A i \in 1 .. size - n : inbox'[i] = inbox[n + i] /\ n + i \in DOMAIN inbox
    <2>1. \A i \in n + 1 .. size : inbox[i] \in Incoming BY <1>2, <1>3, <1>4
    <2>2. /\ inbox' \in Seq(Incoming)
          /\ Len(inbox') = IF n + 1 <= size THEN size - (n + 1) + 1 ELSE 0
          /\ \A i \in 1 .. size - (n + 1) + 1 : inbox'[i] = inbox[n + 1 + i - 1]
      BY <1>1, <1>2, <1>3, <2>1, SubSeqProperties
    <2>3. Len(inbox') = size - n
      <3>1. (IF n + 1 <= size THEN size - (n + 1) + 1 ELSE 0) = size - n
        <4> HIDE DEF size
        <4> QED BY <1>2, <1>3
      <3> QED BY <2>2, <3>1
    <2>4. DOMAIN inbox' = 1 .. size - n BY <2>2, <2>3, LenProperties
    <2>5. ASSUME NEW i \in 1 .. size - n
          PROVE  inbox'[i] = inbox[n + i] /\ n + i \in DOMAIN inbox
      <3>1. i \in 1 .. size - (n + 1) + 1 /\ n + 1 + i - 1 = n + i BY <1>2, <1>3
      <3>2. n + i \in 1 .. size BY <1>2, <1>3
      <3> QED BY <1>3, <2>2, <3>1, <3>2
    <2> QED BY <2>4, <2>5
  <1>7. /\ Ascending(inbox) /\ Before(confLogs, inbox) /\ Sent(inbox)
        /\ Ascending(confLogs) /\ Sent(confLogs)
    BY DEF OneStream
  <1> HIDE DEF size
  <1>8. Ascending(chunk)' BY <1>2, <1>5, <1>7 DEF Ascending
  <1>9. Ascending(inbox)'
    <2>1. ASSUME NEW m \in 1 .. size - n, NEW i \in 1 .. size - n, m < i
          PROVE  n + m < n + i
      BY <1>2, <1>3, <2>1
    <2>2. ASSUME NEW m \in DOMAIN inbox', NEW i \in DOMAIN inbox', m < i,
                 inbox'[m].id # 0, inbox'[i].id # 0
          PROVE  inbox'[m].id < inbox'[i].id
      <3>1. inbox'[m] = inbox[n + m] /\ inbox'[i] = inbox[n + i] /\ n + m < n + i
            /\ n + m \in DOMAIN inbox /\ n + i \in DOMAIN inbox
        BY <1>6, <2>1, <2>2
      <3> QED BY <1>7, <2>2, <3>1 DEF Ascending
    <2> QED BY <2>2 DEF Ascending
  <1>10. Before(chunk, inbox)'
    <2>1. ASSUME NEW m \in 1 .. n, NEW i \in 1 .. size - n PROVE m < n + i
      BY <1>2, <1>3
    <2> QED BY <1>5, <1>6, <1>7, <2>1 DEF Ascending, Before
  <1>11. Before(confLogs, chunk)' /\ Before(confLogs, inbox)'
    BY <1>2, <1>5, <1>6, <1>7 DEF Before
  <1>12. Sent(chunk)' /\ Sent(inbox)' /\ Sent(confLogs)' /\ Ascending(confLogs)'
    BY <1>2, <1>5, <1>6, <1>7 DEF Sent
  <1> QED BY <1>8, <1>9, <1>10, <1>11, <1>12 DEF OneStream

\* A handler takes the first stanza, and may log it under its number.
LEMMA HandledInOrder ==
    ASSUME TypeOK, OneStream, chunk # <<>>, chunk' = Tail(chunk),
           UNCHANGED <<inbox, said>>,
           \/ confLogs' = confLogs
           \/ \E line \in [room : Address, id : Nat, delayed : BOOLEAN] :
                 line.id = Head(chunk).id /\ confLogs' = Append(confLogs, line)
    PROVE  OneStream'
  <1> DEFINE first == chunk[1].id
  <1>1. chunk \in Seq(Incoming) BY DEF TypeOK, BotTypeOK
  <1>2. /\ DOMAIN chunk' = 1 .. Len(chunk) - 1 /\ 1 \in DOMAIN chunk
        /\ \A i \in 1 .. Len(chunk) - 1 : chunk'[i] = chunk[i + 1] /\ i + 1 \in DOMAIN chunk
    <2>1. /\ chunk' \in Seq(Incoming) /\ Len(chunk') = Len(chunk) - 1
          /\ \A i \in 1 .. Len(chunk') : chunk'[i] = chunk[i + 1]
      BY <1>1, HeadTailProperties
    <2>2. Len(chunk) \in Nat \ {0} BY <1>1, EmptySeq
    <2>3. DOMAIN chunk = 1 .. Len(chunk) BY Numbered
    <2> QED BY <2>1, <2>2, <2>3, LenProperties
  <1>3. /\ Ascending(chunk)' /\ Before(chunk, inbox)' /\ Sent(chunk)' /\ Sent(inbox)'
        /\ Ascending(inbox)' /\ Before(confLogs, chunk')
    <2>1. Ascending(chunk)' BY <1>2, Numbered DEF OneStream, Ascending
    <2>2. Before(chunk, inbox)' BY <1>2 DEF OneStream, Before
    <2>3. Sent(chunk)' BY <1>2 DEF OneStream, Sent
    <2>4. Before(confLogs, chunk') BY <1>2 DEF OneStream, Before
    <2> QED BY <2>1, <2>2, <2>3, <2>4 DEF OneStream, Sent, Ascending
  <1>4. \A i \in DOMAIN chunk' : first # 0 /\ chunk'[i].id # 0 => first < chunk'[i].id
    <2>1. ASSUME NEW i \in 1 .. Len(chunk) - 1 PROVE 1 < i + 1 BY Numbered
    <2> QED BY <1>2, <2>1 DEF OneStream, Ascending
  <1>5. /\ \A i \in DOMAIN inbox : first # 0 /\ inbox[i].id # 0 => first < inbox[i].id
        /\ first <= Len(said) /\ first \in Nat
        /\ \A m \in DOMAIN confLogs :
              confLogs[m].id # 0 /\ first # 0 => confLogs[m].id < first
    BY <1>2, Numbered DEF OneStream, Before, Sent
  <1>6. CASE confLogs' = confLogs
    BY <1>3, <1>6 DEF OneStream, Ascending, Before, Sent
  <1>7. CASE \E line \in [room : Address, id : Nat, delayed : BOOLEAN] :
                line.id = Head(chunk).id /\ confLogs' = Append(confLogs, line)
    <2>1. PICK line \in [room : Address, id : Nat, delayed : BOOLEAN] :
             line.id = Head(chunk).id /\ confLogs' = Append(confLogs, line)
      BY <1>7
    <2> DEFINE n == Len(confLogs)
    <2>2. n \in Nat /\ DOMAIN confLogs = 1 .. n BY Numbered
    <2>3. /\ DOMAIN confLogs' = 1 .. n + 1 /\ confLogs'[n + 1].id = first
          /\ \A i \in 1 .. n : confLogs'[i] = confLogs[i]
      <3>1. confLogs \in Seq([room : Address, id : Nat, delayed : BOOLEAN])
        BY DEF TypeOK, BotTypeOK
      <3>2. Head(chunk) = chunk[1] BY <1>1
      <3> QED BY <2>1, <3>1, <3>2, AppendProperties, LenProperties
    <2> HIDE DEF n, first
    <2>4. ASSUME NEW m \in DOMAIN confLogs'
          PROVE  \/ m \in DOMAIN confLogs /\ confLogs'[m] = confLogs[m]
                 \/ m = n + 1 /\ confLogs'[m].id = first
      BY <2>2, <2>3
    <2>5. Before(confLogs, chunk)' BY <1>3, <1>4, <2>4 DEF Before
    <2>6. Before(confLogs, inbox)' BY <1>5, <2>4 DEF OneStream, Before
    <2>7. Sent(confLogs)' BY <1>5, <2>4 DEF OneStream, Sent
    <2>8. Ascending(confLogs)'
      <3>1. ASSUME NEW m \in DOMAIN confLogs', NEW i \in DOMAIN confLogs', m < i,
                   confLogs'[m].id # 0, confLogs'[i].id # 0
            PROVE  confLogs'[m].id < confLogs'[i].id
        <4>1. m \in DOMAIN confLogs /\ confLogs'[m] = confLogs[m]
          BY <2>2, <2>3, <3>1
        <4>2. CASE i \in DOMAIN confLogs /\ confLogs'[i] = confLogs[i]
          BY <3>1, <4>1, <4>2 DEF OneStream, Ascending
        <4>3. CASE i = n + 1 /\ confLogs'[i].id = first
          BY <1>5, <3>1, <4>1, <4>3
        <4> QED BY <2>4, <4>2, <4>3
      <3> QED BY <3>1 DEF Ascending
    <2> QED BY <1>3, <2>5, <2>6, <2>7, <2>8 DEF OneStream
  <1> QED BY <1>6, <1>7

\* What the service and the world send.
LEMMA SentInOrder ==
    ASSUME TypeOK, OneStream, Service \/ World
    PROVE  OneStream'
  <1> USE DEF serverUnchanged
  <1>1. ASSUME NEW x, x.id = 0, Arrive(<<x>>), UNCHANGED <<said, chunk, confLogs>>
        PROVE  OneStream'
    <2>1. <<x>> \in Seq({x}) OBVIOUS
    <2> QED BY <1>1, <2>1, ArrivalInOrder
  <1>2. ASSUME NEW x, NEW room \in Address, x.id = Len(said) + 1, Arrive(<<x>>),
               said' = Append(said, room), UNCHANGED <<chunk, confLogs>>
        PROVE  OneStream'
    <2>1. <<x>> \in Seq({x}) /\ Len(<<x>>) = 1 OBVIOUS
    <2>2. Len(said') = Len(said) + 1 BY <1>2, AppendProperties DEF TypeOK
    <2> QED BY <1>2, <2>1, <2>2, ArrivalInOrder
  <1>3. ASSUME UNCHANGED <<inbox, said, chunk, confLogs>>
        PROVE  OneStream'
    BY <1>3 DEF OneStream, Ascending, Before, Sent
  <1>4. CASE Refuse
    BY <1>1, <1>4 DEF Refuse, worldVars, Presence
  <1>5. CASE Admit
    <2>1. PICK entered, old :
             /\ entered.id = 0 /\ old.id = 0
             /\ Arrive(<<entered, old>>) \/ Arrive(<<entered>>)
      <3> DEFINE asked == Head(outbox)
                 room == Canon[asked.to]
                 entered(nick) ==
                   Presence("available", room, nick,
                            IF nick = asked.res THEN {"self"}
                                                ELSE {"self", "assigned"}, NoText)
                 old(nick, body) ==
                   [Message("groupchat", room, nick, body, 0) EXCEPT !.delayed = TRUE]
      <3>1. PICK nick \in {asked.res} \cup Assigned, body \in UserBodies,
                 replay \in BOOLEAN :
               Arrive(IF replay THEN <<entered(nick), old(nick, body)>>
                                ELSE <<entered(nick)>>)
        BY <1>5 DEF Admit
      <3>2. entered(nick).id = 0 /\ old(nick, body).id = 0 BY DEF Presence, Message
      <3>3. \/ Arrive(<<entered(nick), old(nick, body)>>)
            \/ Arrive(<<entered(nick)>>)
        BY <3>1
      <3> HIDE DEF entered, old
      <3> QED BY <3>2, <3>3
    <2>2. UNCHANGED <<said, chunk, confLogs>> BY <1>5 DEF Admit
    <2>3. CASE Arrive(<<entered>>) BY <1>1, <2>1, <2>2, <2>3
    <2>4. CASE Arrive(<<entered, old>>)
      <3>1. <<entered, old>> \in Seq({entered, old}) OBVIOUS
      <3>2. \A x \in {entered, old} : x.id = 0 BY <2>1
      <3> QED BY <2>2, <2>4, <3>1, <3>2, ArrivalInOrder
    <2> QED BY <2>1, <2>3, <2>4
  <1>6. CASE Rename
    <2>1. PICK x : x.id = 0 /\ Arrive(<<x>>) BY <1>6 DEF Rename, Presence
    <2> QED BY <1>1, <1>6, <2>1 DEF Rename
  <1>7. CASE Broadcast
    <2>1. PICK x : /\ Arrive(<<x>>)
                   /\ \/ /\ x.id = Len(said) + 1
                         /\ said' = Append(said, Canon[Head(outbox).to])
                      \/ x.id = 0 /\ UNCHANGED said
      BY <1>7 DEF Broadcast, Message, SayLine, LineId
    <2>2. Canon[Head(outbox).to] \in Address BY <1>7, TakeType DEF Broadcast
    <2>3. UNCHANGED <<chunk, confLogs>> BY <1>7 DEF Broadcast
    <2> QED BY <1>1, <1>2, <2>1, <2>2, <2>3
  <1>8. CASE Deliver
    <2>1. CASE UNCHANGED inbox BY <1>3, <1>8, <2>1 DEF Deliver
    <2>2. CASE ~UNCHANGED inbox
      <3>1. PICK x : x.id = 0 /\ Arrive(<<x>>) BY <1>8, <2>2 DEF Deliver, Message
      <3> QED BY <1>1, <1>8, <3>1 DEF Deliver
    <2> QED BY <2>1, <2>2
  <1>9. CASE AnswerSubscription BY <1>3, <1>9 DEF AnswerSubscription, worldVars
  <1>10. CASE Direct
    <2>1. PICK x : x.id = 0 /\ Arrive(<<x>>) BY <1>10 DEF Direct, Message
    <2> QED BY <1>1, <1>10, <2>1 DEF Direct, Stimulus
  <1>11. CASE Speak
    <2>1. PICK room \in Rooms : \E x :
             /\ Arrive(<<x>>)
             /\ \/ x.id = Len(said) + 1 /\ said' = Append(said, room)
                \/ x.id = 0 /\ UNCHANGED said
      <3>1. PICK room \in Rooms, body \in UserBodies, form \in Forms :
               SayLine(room, IsLine(form, body)) /\ Arrive(<<Spoken(form, room, body)>>)
        BY <1>11 DEF Speak
      <3>2. Spoken(form, room, body).id = LineId(IsLine(form, body)) BY SpokenType
      <3> QED BY <3>1, <3>2 DEF SayLine, LineId
    <2>2. room \in Address BY SessionAssumption
    <2>3. UNCHANGED <<chunk, confLogs>> BY <1>11 DEF Speak, Stimulus
    <2> QED BY <1>1, <1>2, <2>1, <2>2, <2>3
  <1>12. CASE Whisper
    <2>1. PICK x : x.id = 0 /\ Arrive(<<x>>) BY <1>12 DEF Whisper, Message
    <2> QED BY <1>1, <1>12, <2>1 DEF Whisper, Stimulus
  <1>13. CASE Expel
    <2>1. PICK x : x.id = 0 /\ Arrive(<<x>>) BY <1>13 DEF Expel, Presence
    <2> QED BY <1>1, <1>13, <2>1 DEF Expel, Stimulus
  <1>14. CASE Subscribe
    <2>1. PICK x : x.id = 0 /\ Arrive(<<x>>) BY <1>14 DEF Subscribe, Presence
    <2> QED BY <1>1, <1>14, <2>1 DEF Subscribe, Stimulus
  <1> QED
    BY <1>4, <1>5, <1>6, <1>7, <1>8, <1>9, <1>10, <1>11, <1>12, <1>13, <1>14
       DEF Service, World

\* In every run the chat logs hold each message of a room at most once, and in
\* the order in which the service sent them, however many room objects listen.
THEOREM LogInOrder == Spec => []LoggedOnceInOrder
  <1>1. Init => OneStream
    BY DEF Init, BotInit, OneStream, Ascending, Before, Sent
  <1>2. TypeOK /\ OneStream /\ [Next]_vars => OneStream'
    <2> SUFFICES ASSUME TypeOK, OneStream, [Next]_vars PROVE OneStream'
      OBVIOUS
    <2>1. CASE UNCHANGED <<inbox, said, chunk, confLogs>>
      BY <2>1 DEF OneStream, Ascending, Before, Sent
    <2>2. CASE Service \/ World BY <2>2, SentInOrder
    <2>3. CASE Receive /\ UNCHANGED said BY <2>3, ReadInOrder
    <2>4. CASE (OnConnect \/ ConnectionLost) /\ UNCHANGED said
      BY <2>1, <2>4 DEF OnConnect, ConnectionLost
    <2>5. CASE Handle /\ UNCHANGED said
      <3>1. chunk # <<>> /\ chunk' = Tail(chunk) /\ UNCHANGED inbox
        BY <2>5 DEF Handle, HandleMessage, HandleMUCMessage, HandlePresence,
                    HandleSubscription, TakeStanza
      <3>2. CASE confLogs' = confLogs BY <2>5, <3>1, <3>2, HandledInOrder
      <3>3. CASE ~(confLogs' = confLogs)
        <4> DEFINE msg == Head(chunk)
                   room == rooms[SessionFor(msg)]
        <4>1. HandleMUCMessage /\ confLogs' = Append(confLogs, LogLine(room, msg))
          BY <2>5, <3>3 DEF Handle, HandleMessage, HandleMUCMessage, HandlePresence,
                            HandleSubscription, ConfLog
        <4>2. msg \in Incoming BY <4>1, HeadType DEF HandleMUCMessage, TypeOK
        <4>3. room \in Room
          BY <4>1, SessionForType DEF HandleMUCMessage, TypeOK, BotTypeOK
        <4>4. /\ LogLine(room, msg) \in [room : Address, id : Nat, delayed : BOOLEAN]
              /\ LogLine(room, msg).id = msg.id
          BY <4>2, <4>3 DEF LogLine, Incoming, Room
        <4> QED BY <2>5, <3>1, <4>1, <4>4, HandledInOrder
      <3> QED BY <3>2, <3>3
    <2>6. CASE UNCHANGED vars BY <2>1, <2>6 DEF vars, botVars, worldVars
    <2> QED
      BY <2>2, <2>3, <2>4, <2>5, <2>6 DEF Next, BotStep, BotNext
  <1>3. OneStream => LoggedOnceInOrder
    BY DEF OneStream, Ascending, LoggedOnceInOrder
  <1> QED BY <1>1, <1>2, <1>3, TypeCorrect, PTL DEF Spec
-----------------------------------------------------------------------------
(***************************************************************************)
(* What the library believes about its place in a room comes out right, a  *)
(* room has one object, and nothing said in it is lost.                    *)
(***************************************************************************)

(***************************************************************************)
(* Queues.  What is asked and what is answered about one room is the part  *)
(* of a queue that lies in a set of stanzas S: none of it, or one.         *)
(***************************************************************************)
None(s, S) == Range(s) \cap S = {}
Single(s, S) == \A m, n \in DOMAIN s : s[m] \in S /\ s[n] \in S => m = n

LEMMA InRange ==
    ASSUME NEW T, NEW s \in Seq(T)
    PROVE  /\ DOMAIN s = 1 .. Len(s) /\ Len(s) \in Nat
           /\ \A k \in DOMAIN s : s[k] \in Range(s) /\ s[k] \in T
           /\ \A x \in Range(s) : x \in T /\ \E k \in DOMAIN s : s[k] = x
  <1>1. DOMAIN s = 1 .. Len(s) /\ Len(s) \in Nat BY LenProperties
  <1> QED BY <1>1, ElementOfSeq DEF Range

\* A queue without its head: what was single in it is gone with the head.
LEMMA TailQueue ==
    ASSUME NEW T, NEW s \in Seq(T), s # <<>>, NEW S
    PROVE  /\ Head(s) \in Range(s) /\ Head(s) \in T
           /\ Range(s) = {Head(s)} \cup Range(Tail(s))
           /\ Single(s, S) => /\ Single(Tail(s), S)
                              /\ Head(s) \in S => None(Tail(s), S)
  <1> DEFINE t == Tail(s)
  <1>1. /\ t \in Seq(T) /\ Len(t) = Len(s) - 1 /\ Head(s) \in T
        /\ \A i \in 1 .. Len(t) : t[i] = s[i + 1]
    BY HeadTailProperties
  <1>2. Len(s) \in Nat \ {0} /\ DOMAIN s = 1 .. Len(s) BY EmptySeq, LenProperties
  <1>3. DOMAIN t = 1 .. Len(s) - 1 BY <1>1, LenProperties
  <1>4. Head(s) = s[1] BY <1>2
  <1> HIDE DEF t
  <1>5. ASSUME NEW i \in DOMAIN t
        PROVE  i + 1 \in DOMAIN s /\ i + 1 # 1 /\ t[i] = s[i + 1]
    BY <1>1, <1>2, <1>3
  <1>6. ASSUME NEW i \in DOMAIN s
        PROVE  i = 1 \/ \E k \in DOMAIN t : i = k + 1 /\ t[k] = s[i]
    <2>1. CASE i # 1
      <3>1. i - 1 \in DOMAIN t /\ i = (i - 1) + 1 BY <1>2, <1>3, <2>1
      <3> QED BY <1>5, <3>1
    <2> QED BY <2>1
  <1>7. Range(s) = {Head(s)} \cup Range(t)
    BY <1>2, <1>4, <1>5, <1>6 DEF Range
  <1>8. ASSUME Single(s, S) PROVE Single(t, S)
    <2>1. ASSUME NEW m \in DOMAIN t, NEW n \in DOMAIN t, t[m] \in S, t[n] \in S
          PROVE  m = n
      <3>1. m + 1 = n + 1 BY <1>5, <1>8, <2>1 DEF Single
      <3> QED BY <1>1, <1>2, <1>3, <3>1
    <2> QED BY <2>1 DEF Single
  <1>9. ASSUME Single(s, S), Head(s) \in S PROVE None(t, S)
    <2>1. \A i \in DOMAIN t : t[i] \notin S
      BY <1>2, <1>4, <1>5, <1>9 DEF Single
    <2> QED BY <2>1 DEF None, Range
  <1> QED BY <1>1, <1>7, <1>8, <1>9 DEF t

\* Two queues one after the other.
LEMMA ConcatQueue ==
    ASSUME NEW T, NEW s \in Seq(T), NEW t \in Seq(T), NEW S
    PROVE  /\ s \o t \in Seq(T) /\ Range(s \o t) = Range(s) \cup Range(t)
           /\ Single(s, S) /\ None(t, S) => Single(s \o t, S)
           /\ None(s, S) /\ Single(t, S) => Single(s \o t, S)
           /\ Single(s \o t, S) => /\ Single(s, S) /\ Single(t, S)
                                   /\ None(s, S) \/ None(t, S)
  <1> DEFINE u == s \o t
             n == Len(s)
  <1>1. /\ u \in Seq(T) /\ Len(u) = n + Len(t)
        /\ \A i \in 1 .. n + Len(t) : u[i] = IF i <= n THEN s[i] ELSE t[i - n]
        /\ Range(u) = Range(s) \cup Range(t)
    BY ConcatProperties, RangeConcatenation
  <1>2. /\ n \in Nat /\ Len(t) \in Nat /\ DOMAIN s = 1 .. n /\ DOMAIN t = 1 .. Len(t)
        /\ DOMAIN u = 1 .. n + Len(t)
    BY <1>1, LenProperties
  <1> HIDE DEF u, n
  <1>3. ASSUME NEW i \in DOMAIN u
        PROVE  \/ i \in DOMAIN s /\ u[i] = s[i]
               \/ i - n \in DOMAIN t /\ u[i] = t[i - n] /\ i > n
    BY <1>1, <1>2
  <1>4. /\ \A i \in DOMAIN s : i \in DOMAIN u /\ u[i] = s[i] /\ i <= n
        /\ \A i \in DOMAIN t : n + i \in DOMAIN u /\ u[n + i] = t[i] /\ n + i > n
    BY <1>1, <1>2
  <1>5. ASSUME Single(s, S), None(t, S) PROVE Single(u, S)
    <2>1. \A i \in DOMAIN u : u[i] \in S => i \in DOMAIN s /\ u[i] = s[i]
      BY <1>3, <1>5 DEF None, Range
    <2> QED BY <1>5, <2>1 DEF Single
  <1>6. ASSUME None(s, S), Single(t, S) PROVE Single(u, S)
    <2>1. \A i \in DOMAIN u : u[i] \in S => i - n \in DOMAIN t /\ u[i] = t[i - n]
      BY <1>3, <1>6 DEF None, Range
    <2>2. \A i, k \in DOMAIN u : i - n = k - n => i = k BY <1>2
    <2> QED BY <1>6, <2>1, <2>2 DEF Single
  <1>7. ASSUME Single(u, S) PROVE Single(s, S) /\ Single(t, S)
    <2>1. Single(s, S) BY <1>4, <1>7 DEF Single
    <2>2. ASSUME NEW i \in DOMAIN t, NEW k \in DOMAIN t, t[i] \in S, t[k] \in S
          PROVE  i = k
      <3>1. n + i = n + k BY <1>4, <1>7, <2>2 DEF Single
      <3> QED BY <1>2, <3>1
    <2> QED BY <2>1, <2>2 DEF Single
  <1>8. ASSUME Single(u, S), ~None(s, S) PROVE None(t, S)
    <2>1. PICK k \in DOMAIN s : s[k] \in S BY <1>8 DEF None, Range
    <2>2. ASSUME NEW i \in DOMAIN t, t[i] \in S PROVE FALSE
      <3>1. k = n + i /\ k <= n BY <1>4, <1>8, <2>1, <2>2 DEF Single
      <3> QED BY <1>2, <3>1
    <2> QED BY <2>2 DEF None, Range
  <1> QED BY <1>1, <1>5, <1>6, <1>7, <1>8 DEF u

\* A queue cut in two.
LEMMA SplitQueue ==
    ASSUME NEW T, NEW s \in Seq(T), NEW n \in 1 .. Len(s), NEW S
    PROVE  LET a == SubSeq(s, 1, n)
               b == SubSeq(s, n + 1, Len(s))
           IN  /\ a \in Seq(T) /\ b \in Seq(T) /\ Range(s) = Range(a) \cup Range(b)
               /\ Single(s, S) => /\ Single(a, S) /\ Single(b, S)
                                  /\ None(a, S) \/ None(b, S)
  <1> DEFINE a == SubSeq(s, 1, n)
             b == SubSeq(s, n + 1, Len(s))
  <1>1. Len(s) \in Nat /\ DOMAIN s = 1 .. Len(s) BY LenProperties
  <1>2. /\ 1 \in 1 .. Len(s) + 1 /\ n \in 1 - 1 .. Len(s) /\ Len(s) \in n .. Len(s)
        /\ n \in Int /\ n + 1 \in Int /\ 1 \in Int /\ Len(s) \in Int
    BY <1>1
  <1>3. a \o b = s
    <2>1. a \o b = SubSeq(s, 1, Len(s)) BY <1>2, ConcatAdjacentSubSeq
    <2> QED BY <2>1, SubSeqFull
  <1>4. a \in Seq(T) /\ b \in Seq(T)
    <2>1. \A i \in 1 .. n : s[i] \in T BY <1>1, ElementOfSeq
    <2>2. \A i \in n + 1 .. Len(s) : s[i] \in T BY <1>1, ElementOfSeq
    <2> QED BY <1>2, <2>1, <2>2, SubSeqProperties
  <1> HIDE DEF a, b
  <1>5. /\ Range(a \o b) = Range(a) \cup Range(b)
        /\ Single(a \o b, S) => Single(a, S) /\ Single(b, S) /\ (None(a, S) \/ None(b, S))
    BY <1>4, ConcatQueue
  <1> QED BY <1>3, <1>4, <1>5 DEF a, b

(***************************************************************************)
(* The strengthening.  MembershipTrue speaks of a room with nothing under  *)
(* way.  Placed says what the record of the library has to be while        *)
(* something is: a request fits the record, so that any answer of the      *)
(* service settles it, and an answer on its way settles it; and there is   *)
(* one of them at most, for two requests would share one record.           *)
(***************************************************************************)
Asks(room) == {x \in Outgoing : x.kind = "presence" /\ Canon[x.to] = room}
Answers(room) == {x \in Incoming : AnswerFrom(x, room)}

Asked(room) == Range(outbox) \cap Asks(room)
Answered(room) == (Range(inbox) \cup Range(chunk)) \cap Answers(room)
Quiet(room) == Asked(room) = {} /\ Answered(room) = {}

OneUnderWay(room) ==
    /\ Single(outbox, Asks(room))
    /\ Single(inbox, Answers(room)) /\ Single(chunk, Answers(room))
    /\ None(inbox, Answers(room)) \/ None(chunk, Answers(room))
    /\ Asked(room) = {} \/ Answered(room) = {}

Agree(rec, nick) ==
    IF rec.joined THEN nick = rec.nick /\ nick # NoText ELSE nick = NoText
Fits(rec, request, nick) ==
    /\ rec.joined /\ request.to = rec.addr /\ request.res # NoText
    /\ \/ nick = NoText /\ rec.newNick = NoText /\ request.res = rec.nick
       \/ nick # NoText /\ nick = rec.nick /\ rec.newNick = request.res
Settles(rec, answer, nick) == rec.joined /\ Agree(AfterPresence(rec, answer), nick)

Placed(room) ==
    /\ OneUnderWay(room)
    /\ \A i \in DOMAIN rooms : rooms[i].addr = room =>
          /\ \A request \in Asked(room) : Fits(rooms[i], request, occ[room])
          /\ \A answer \in Answered(room) : Settles(rooms[i], answer, occ[room])
          /\ Quiet(room) => Agree(rooms[i], occ[room])
    /\ (\A i \in DOMAIN rooms : rooms[i].addr # room) => occ[room] = NoText /\ Quiet(room)

\* The rooms the property is about.
Sound(room) == room \in Address \ disturbed /\ Canon[room] = room
AllPlaced == conn = "online" => \A room \in Address : Sound(room) => Placed(room)

\* Nothing has happened before the login.
Untouched ==
    conn = "login" => /\ rooms = <<>> /\ inbox = <<>> /\ chunk = <<>> /\ outbox = <<>>
                      /\ said = <<>> /\ confLogs = <<>> /\ disturbed = {}
                      /\ occ = [a \in Address |-> NoText]

\* Unanswered() is the opposite of Quiet.
LEMMA QuietIsAnswered ==
    ASSUME TypeOK, NEW room \in Address
    PROVE  Quiet(room) <=> ~Unanswered(room)
  <1>1. /\ outbox \in Seq(Outgoing) /\ inbox \in Seq(Incoming) /\ chunk \in Seq(Incoming)
    BY DEF TypeOK, BotTypeOK
  <1>2. Asked(room) = {} <=> ~AskedFor(room)
    BY <1>1, InRange DEF Asked, Asks, AskedFor
  <1>3. Answered(room) = {} <=> ~AnswerOnItsWay(room)
    BY <1>1, InRange DEF Answered, Answers, AnswerOnItsWay
  <1> QED BY <1>2, <1>3 DEF Quiet, Unanswered

(***************************************************************************)
(* What the service may answer to a request that fits settles the record.  *)
(***************************************************************************)
LEMMA RefusalSettles ==
    ASSUME NEW rec \in Room, NEW request, NEW nick, NEW room, Fits(rec, request, nick)
    PROVE  Settles(rec, Presence("error", room, request.res, {}, NoText), nick)
  <1> DEFINE pres == Presence("error", room, request.res, {}, NoText)
  <1>1. AfterPresence(rec, pres) = AfterError(rec)
    BY DEF AfterPresence, Presence
  <1>2. CASE rec.newNick = NoText
    BY <1>1, <1>2 DEF Fits, Settles, Agree, AfterError, Room
  <1>3. CASE rec.newNick # NoText
    BY <1>1, <1>3 DEF Fits, Settles, Agree, AfterError, Room
  <1> QED BY <1>2, <1>3

LEMMA EntrySettles ==
    ASSUME NEW rec \in Room, NEW request, Fits(rec, request, NoText),
           NEW room, NEW nick \in Texts, nick # NoText
    PROVE  Settles(rec, Presence("available", room, nick,
                       IF nick = request.res THEN {"self"} ELSE {"self", "assigned"}, NoText),
                   nick)
  <1> DEFINE flags == IF nick = request.res THEN {"self"} ELSE {"self", "assigned"}
             pres == Presence("available", room, nick, flags, NoText)
  <1>1. /\ pres.type = "available" /\ pres.flags = flags /\ pres.res = nick
        /\ pres.newNick = NoText
    BY DEF Presence
  <1>2. "changed" \notin flags OBVIOUS
  <1>3. ("assigned" \in flags <=> nick # request.res) OBVIOUS
  <1>4. request.res = rec.nick /\ rec.joined BY DEF Fits
  <1> HIDE DEF flags, pres
  <1>5. AfterPresence(rec, pres) = AfterNews(rec, pres) BY <1>1 DEF AfterPresence
  <1>6. AfterNews(rec, pres) = IF "assigned" \in flags THEN [rec EXCEPT !.nick = nick] ELSE rec
    BY <1>1, <1>2 DEF AfterNews, OwnNickChange
  <1>7. AfterNews(rec, pres).nick = nick /\ AfterNews(rec, pres).joined
    BY <1>3, <1>4, <1>6 DEF Room
  <1> QED BY <1>4, <1>5, <1>7 DEF Settles, Agree, pres, flags

LEMMA RenamingSettles ==
    ASSUME NEW rec \in Room, NEW request, NEW nick \in Texts, nick # NoText,
           Fits(rec, request, nick), request.res \in Texts, NEW room,
           NEW flags \in {{"changed"}, {"changed", "self"}}
    PROVE  Settles(rec,
               IF request.res = nick
                 THEN Presence("available", room, request.res, {"self"}, NoText)
                 ELSE Presence("available", room, nick, flags, request.res),
               request.res)
  <1>1. rec.joined /\ nick = rec.nick /\ rec.newNick = request.res /\ request.res # NoText
    BY DEF Fits
  <1>2. CASE request.res = nick
    <2> DEFINE pres == Presence("available", room, request.res, {"self"}, NoText)
    <2>1. pres.type = "available" /\ pres.flags = {"self"} BY DEF Presence
    <2> HIDE DEF pres
    <2>2. AfterPresence(rec, pres) = rec
      BY <2>1 DEF AfterPresence, AfterNews, OwnNickChange
    <2> QED BY <1>1, <1>2, <2>2 DEF Settles, Agree, pres
  <1>3. CASE request.res # nick
    <2> DEFINE pres == Presence("available", room, nick, flags, request.res)
    <2>1. /\ pres.type = "available" /\ pres.flags = flags /\ pres.res = nick
          /\ pres.newNick = request.res
      BY DEF Presence
    <2>2. "changed" \in flags /\ "assigned" \notin flags OBVIOUS
    <2> HIDE DEF pres
    <2>3. OwnNickChange(rec, pres) BY <1>1, <2>1, <2>2 DEF OwnNickChange
    <2>4. AfterPresence(rec, pres) = [rec EXCEPT !.nick = request.res]
      BY <2>1, <2>2, <2>3 DEF AfterPresence, AfterNews
    <2> QED BY <1>1, <1>3, <2>4 DEF Settles, Agree, Room, pres
  <1> QED BY <1>2, <1>3

(***************************************************************************)
(* What a step does to what is under way about one room.                   *)
(***************************************************************************)
LEMMA Queues ==
    ASSUME TypeOK
    PROVE  outbox \in Seq(Outgoing) /\ inbox \in Seq(Incoming) /\ chunk \in Seq(Incoming)
  BY DEF TypeOK, BotTypeOK

\* The service takes a stanza and answers with t; what it takes may be a request.
LEMMA ServiceQueues ==
    ASSUME TypeOK, NEW kind, Take(kind), NEW t \in Seq(Incoming), Arrive(t),
           UNCHANGED chunk, NEW room, OneUnderWay(room),
           Head(outbox) \in Asks(room) => Single(t, Answers(room)),
           Head(outbox) \notin Asks(room) => None(t, Answers(room))
    PROVE  /\ OneUnderWay(room)'
           /\ Head(outbox) \in Asks(room) =>
                 /\ Head(outbox) \in Asked(room) /\ Asked(room)' = {}
                 /\ Answered(room)' = Range(t) \cap Answers(room)
           /\ Head(outbox) \notin Asks(room) =>
                 Asked(room)' = Asked(room) /\ Answered(room)' = Answered(room)
  <1> DEFINE first == Head(outbox)
             S == Asks(room)
             A == Answers(room)
  <1>1. outbox # <<>> /\ outbox' = Tail(outbox) /\ inbox' = inbox \o t /\ chunk' = chunk
    BY DEF Take, Arrive
  <1>2. /\ Range(outbox) = {first} \cup Range(outbox') /\ first \in Range(outbox)
        /\ Single(outbox', S) /\ (first \in S => None(outbox', S))
    BY <1>1, Queues, TailQueue DEF OneUnderWay
  <1>3. /\ Range(inbox') = Range(inbox) \cup Range(t)
        /\ Single(inbox, A) /\ None(t, A) => Single(inbox', A)
        /\ None(inbox, A) /\ Single(t, A) => Single(inbox', A)
    BY <1>1, Queues, ConcatQueue
  <1> HIDE DEF first
  <1>4. CASE first \in S
    <2>1. Asked(room) # {} BY <1>2, <1>4 DEF Asked
    <2>2. None(inbox, A) /\ None(chunk, A)
      BY <2>1 DEF OneUnderWay, Answered, None
    <2>3. Asked(room)' = {} BY <1>2, <1>4 DEF Asked, None
    <2>4. Answered(room)' = Range(t) \cap A
      BY <1>1, <1>3, <2>2 DEF Answered, None
    <2>5. Single(inbox', A) BY <1>3, <1>4, <2>2 DEF first
    <2>6. OneUnderWay(room)'
      BY <1>1, <1>2, <2>2, <2>3, <2>5 DEF OneUnderWay
    <2> QED BY <1>2, <1>4, <2>3, <2>4, <2>6 DEF first, Asked
  <1>5. CASE first \notin S
    <2>1. None(t, A) BY <1>5 DEF first
    <2>2. Asked(room)' = Asked(room) BY <1>2, <1>5 DEF Asked
    <2>3. Answered(room)' = Answered(room) BY <1>1, <1>3, <2>1 DEF Answered, None
    <2>4. None(inbox, A) => None(inbox', A) BY <1>3, <2>1 DEF None
    <2>5. OneUnderWay(room)'
      BY <1>1, <1>2, <1>3, <2>1, <2>2, <2>3, <2>4 DEF OneUnderWay
    <2> QED BY <1>5, <2>2, <2>3, <2>5 DEF first
  <1> QED BY <1>4, <1>5

\* Something arrives that answers nothing.
LEMMA ArrivalQueues ==
    ASSUME TypeOK, UNCHANGED <<outbox, chunk>>, NEW t \in Seq(Incoming), Arrive(t),
           NEW room, OneUnderWay(room), None(t, Answers(room))
    PROVE  OneUnderWay(room)' /\ Asked(room)' = Asked(room) /\ Answered(room)' = Answered(room)
  <1> DEFINE A == Answers(room)
  <1>1. /\ Range(inbox') = Range(inbox) \cup Range(t)
        /\ Single(inbox, A) => Single(inbox', A)
    BY Queues, ConcatQueue DEF Arrive
  <1>2. None(inbox, A) => None(inbox', A) BY <1>1 DEF None
  <1>3. Asked(room)' = Asked(room) /\ Answered(room)' = Answered(room)
    BY <1>1 DEF Asked, Answered, None
  <1> QED BY <1>1, <1>2, <1>3 DEF OneUnderWay

\* A read moves stanzas from one queue to the other.
LEMMA ReceiveQueues ==
    ASSUME TypeOK, Receive, NEW room, OneUnderWay(room)
    PROVE  OneUnderWay(room)' /\ Asked(room)' = Asked(room) /\ Answered(room)' = Answered(room)
  <1> DEFINE A == Answers(room)
  <1>1. PICK n \in 1 .. ChunkMax :
           /\ n <= Len(inbox)
           /\ chunk' = SubSeq(inbox, 1, n)
           /\ inbox' = SubSeq(inbox, n + 1, Len(inbox))
    BY DEF Receive
  <1>2. n \in 1 .. Len(inbox) BY <1>1, Queues, LenProperties
  <1>3. /\ Range(inbox) = Range(chunk') \cup Range(inbox')
        /\ Single(inbox, A) => /\ Single(chunk', A) /\ Single(inbox', A)
                               /\ None(chunk', A) \/ None(inbox', A)
    <2>1. inbox \in Seq(Incoming) BY Queues
    <2> QED BY <1>1, <1>2, <2>1, SplitQueue
  <1>4. chunk = <<>> /\ outbox' = outbox BY DEF Receive
  <1>5. Range(chunk) = {} BY <1>4 DEF Range
  <1>6. Asked(room)' = Asked(room) /\ Answered(room)' = Answered(room)
    BY <1>3, <1>4, <1>5 DEF Asked, Answered
  <1> QED BY <1>3, <1>4, <1>6 DEF OneUnderWay

\* A handler takes a stanza and writes s: requests only while nothing is under way.
LEMMA HandlerQueues ==
    ASSUME TypeOK, chunk # <<>>, chunk' = Tail(chunk), UNCHANGED inbox,
           NEW s \in Seq(Outgoing), outbox' = outbox \o s,
           NEW room, OneUnderWay(room),
           \/ None(s, Asks(room))
           \/ Single(s, Asks(room)) /\ Quiet(room)
    PROVE  /\ OneUnderWay(room)'
           /\ Asked(room)' = Asked(room) \cup (Range(s) \cap Asks(room))
           /\ Head(chunk) \in Answers(room) =>
                 Head(chunk) \in Answered(room) /\ Asked(room) = {} /\ Answered(room)' = {}
           /\ Head(chunk) \notin Answers(room) => Answered(room)' = Answered(room)
  <1> DEFINE first == Head(chunk)
             S == Asks(room)
             A == Answers(room)
  <1>1. /\ Range(outbox') = Range(outbox) \cup Range(s)
        /\ Single(outbox, S) /\ None(s, S) => Single(outbox', S)
        /\ None(outbox, S) /\ Single(s, S) => Single(outbox', S)
    BY Queues, ConcatQueue
  <1>2. /\ Range(chunk) = {first} \cup Range(chunk') /\ first \in Range(chunk)
        /\ Single(chunk', A) /\ (first \in A => None(chunk', A))
    BY Queues, TailQueue DEF OneUnderWay
  <1> HIDE DEF first
  <1>3. Asked(room)' = Asked(room) \cup (Range(s) \cap S) BY <1>1 DEF Asked
  <1>4. Single(outbox', S)
    <2>1. Quiet(room) => None(outbox, S) BY DEF Quiet, Asked, None
    <2> QED BY <1>1, <2>1 DEF OneUnderWay
  <1>5. first \in A =>
           first \in Answered(room) /\ Asked(room) = {} /\ Answered(room)' = {}
    <2> SUFFICES ASSUME first \in A
                 PROVE  first \in Answered(room) /\ Asked(room) = {} /\ Answered(room)' = {}
      OBVIOUS
    <2>1. first \in Answered(room) BY <1>2 DEF Answered
    <2>2. ~None(chunk, A) BY <1>2 DEF None
    <2>3. None(inbox, A) /\ Asked(room) = {} BY <2>1, <2>2 DEF OneUnderWay
    <2> QED BY <1>2, <2>1, <2>3 DEF Answered, None
  <1>6. first \notin A => Answered(room)' = Answered(room)
    BY <1>2 DEF Answered
  <1>7. None(inbox, A) \/ None(chunk', A)
    BY <1>2 DEF OneUnderWay, None
  <1>8. Asked(room)' = {} \/ Answered(room)' = {}
    BY <1>3, <1>5, <1>6 DEF OneUnderWay, Quiet, None
  <1> QED
    BY <1>2, <1>3, <1>4, <1>5, <1>6, <1>7, <1>8 DEF OneUnderWay, first

(***************************************************************************)
(* What a command does: it asks for nothing, it joins a room that has no   *)
(* object yet, or it changes the nick of one room.                         *)
(***************************************************************************)
AsksNothing(s) == \A k \in DOMAIN s : s[k].kind # "presence"
AsksFirst(s, request) ==
    /\ s # <<>> /\ s[1] = request
    /\ \A k \in DOMAIN s : k # 1 => s[k].kind # "presence"

Enters(addr, s) ==
    /\ \A i \in DOMAIN rooms : rooms[i].addr # addr
    /\ rooms' = Append(rooms, JoinedRoom(addr, ConfigNick))
    /\ AsksFirst(s, PresenceTo(addr, ConfigNick))
SetsNick(i, nick, s) ==
    /\ rooms' = [rooms EXCEPT ![i] = AfterSetNick(rooms[i], nick)]
    /\ IF rooms[i].joined THEN AsksFirst(s, PresenceTo(rooms[i].addr, nick))
                          ELSE AsksNothing(s)
Effect(s) ==
    \/ rooms' = rooms /\ AsksNothing(s)
    \/ \E addr \in Address : Enters(addr, s)
    \/ \E i \in DOMAIN rooms, nick \in Texts : SetsNick(i, nick, s)

LEMMA ShortQueues ==
    ASSUME NEW x \in Outgoing, NEW y \in Outgoing, y.kind # "presence"
    PROVE  /\ <<x, y>> \in Seq(Outgoing) /\ AsksFirst(<<x, y>>, x)
           /\ x.kind # "presence" => AsksNothing(<<x, y>>)
           /\ <<y>> \in Seq(Outgoing) /\ AsksNothing(<<y>>)
           /\ <<>> \in Seq(Outgoing) /\ AsksNothing(<<>>)
  <1>1. DOMAIN <<x, y>> = {1, 2} /\ <<x, y>>[1] = x /\ <<x, y>>[2] = y /\ <<x, y>> # <<>>
    OBVIOUS
  <1>2. DOMAIN <<y>> = {1} /\ <<y>>[1] = y OBVIOUS
  <1>3. AsksFirst(<<x, y>>, x) BY <1>1 DEF AsksFirst
  <1>4. x.kind # "presence" => AsksNothing(<<x, y>>) BY <1>1 DEF AsksNothing
  <1>5. AsksNothing(<<y>>) /\ AsksNothing(<<>>) BY <1>2 DEF AsksNothing
  <1> QED BY <1>3, <1>4, <1>5

LEMMA ExecuteEffect ==
    ASSUME BotTypeOK, conn = "online", conn' = "online", NEW body \in Body, NEW level,
           NEW back \in Outgoing, back.kind # "presence", Execute(body, level, back)
    PROVE  \E s \in Seq(Outgoing) : outbox' = outbox \o s /\ Effect(s)
  <1>1. /\ body.room \in Address /\ body.text \in Texts
        /\ FinishRoomName(body.room) \in Address
    BY NameType DEF Body
  <1>2. ASSUME NEW t \in Texts
        PROVE  Answer(back, t) \in Outgoing /\ Answer(back, t).kind # "presence"
    BY AnswerType
  <1>3. \A n \in ReplyNames : Replies[n] \in Texts BY BotAssumption
  <1>4. ASSUME NEW t \in Texts, Send(<<Answer(back, t)>>), rooms' = rooms
        PROVE  \E s \in Seq(Outgoing) : outbox' = outbox \o s /\ Effect(s)
    <2>1. <<Answer(back, t)>> \in Seq(Outgoing) /\ AsksNothing(<<Answer(back, t)>>)
      BY <1>2, ShortQueues
    <2> QED BY <1>4, <2>1 DEF Send, Effect
  <1>5. CASE BfCmd(body, back)
    <2>1. BfOutput[body.text] \in Texts BY <1>1, BotAssumption
    <2> QED BY <1>4, <1>5, <2>1 DEF BfCmd, sameRooms
  <1>6. CASE HelpCmd(back)
    BY <1>3, <1>4, <1>6 DEF HelpCmd, sameRooms, ReplyNames
  <1>7. CASE EnterCmd(body, back)
    <2> DEFINE addr == FinishRoomName(body.room)
               reply == Answer(back, Replies["entering"])
               s == <<PresenceTo(addr, ConfigNick), reply>>
    <2>1. reply \in Outgoing /\ reply.kind # "presence" /\ Replies["entering"] \in Texts
      BY <1>2, <1>3 DEF ReplyNames
    <2>2. CASE HasRoom(body.room)
      BY <1>4, <1>7, <2>1, <2>2 DEF EnterCmd, sameRooms
    <2>3. CASE ~HasRoom(body.room)
      <3>1. PresenceTo(addr, ConfigNick) \in Outgoing
        BY <1>1, StanzaTypes, BotAssumption
      <3>2. s \in Seq(Outgoing) /\ AsksFirst(s, PresenceTo(addr, ConfigNick))
        BY <2>1, <3>1, ShortQueues
      <3>3. outbox' = outbox \o s /\ rooms' = Append(rooms, JoinedRoom(addr, ConfigNick))
        BY <1>7, <2>3 DEF EnterCmd, Send
      <3>4. \A i \in DOMAIN rooms : rooms[i].addr # addr
        BY <2>3 DEF HasRoom, RoomsNamed
      <3> HIDE DEF s, addr
      <3>5. Enters(addr, s) BY <3>2, <3>3, <3>4 DEF Enters
      <3>6. addr \in Address BY <1>1 DEF addr
      <3> QED BY <3>2, <3>3, <3>5, <3>6 DEF Effect
    <2> QED BY <2>2, <2>3
  <1>8. CASE NickCmd(body, back)
    <2>1. CASE ~HasRoom(body.room)
      <3>1. Replies["notfound"] \in Texts BY <1>3 DEF ReplyNames
      <3> QED BY <1>4, <1>8, <2>1, <3>1 DEF NickCmd
    <2>2. CASE HasRoom(body.room)
      <3> DEFINE i == GetRoom(body.room)
                 reply == Answer(back, Replies["nickset"])
                 request == PresenceTo(rooms[i].addr, body.text)
                 s == IF rooms[i].joined THEN <<request, reply>> ELSE <<reply>>
      <3>1. i \in DOMAIN rooms /\ rooms[i].addr \in Address
        <4>1. i \in DOMAIN rooms BY <1>1, <2>2, GetRoomType
        <4>2. rooms[i] \in Room BY <4>1 DEF BotTypeOK
        <4> QED BY <4>1, <4>2 DEF Room
      <3>2. reply \in Outgoing /\ reply.kind # "presence"
        BY <1>2, <1>3 DEF ReplyNames
      <3>3. request \in Outgoing BY <1>1, <3>1, StanzaTypes
      <3>4. /\ <<request, reply>> \in Seq(Outgoing) /\ AsksFirst(<<request, reply>>, request)
            /\ <<reply>> \in Seq(Outgoing) /\ AsksNothing(<<reply>>)
        BY <3>2, <3>3, ShortQueues
      <3>5. /\ outbox' = outbox \o s
            /\ rooms' = [rooms EXCEPT ![i] = AfterSetNick(rooms[i], body.text)]
        BY <1>8, <2>2 DEF NickCmd, Send
      <3> HIDE DEF i, reply
      <3>6. s \in Seq(Outgoing) BY <3>4
      <3>7. SetsNick(i, body.text, s) BY <3>4, <3>5 DEF SetsNick
      <3> HIDE DEF s
      <3> QED BY <1>1, <3>1, <3>5, <3>6, <3>7 DEF Effect
    <2> QED BY <2>1, <2>2
  <1>9. CASE SayCmd(body, back)
    <2>1. rooms' = rooms BY <1>9 DEF SayCmd, sameRooms
    <2>2. CASE ~HasRoom(body.room)
      <3>1. Replies["notfound"] \in Texts BY <1>3 DEF ReplyNames
      <3> QED BY <1>4, <1>9, <2>1, <2>2, <3>1 DEF SayCmd
    <2>3. CASE HasRoom(body.room)
      <3> DEFINE i == GetRoom(body.room)
                 line == MessageTo("groupchat", rooms[i].addr, NoText, Plain(body.text))
                 reply == Answer(back, Replies["sent"])
      <3>1. rooms[i].addr \in Address
        <4>1. i \in DOMAIN rooms BY <1>1, <2>3, GetRoomType
        <4>2. rooms[i] \in Room BY <4>1 DEF BotTypeOK
        <4> QED BY <4>2 DEF Room
      <3>2. reply \in Outgoing /\ reply.kind # "presence" /\ Replies["sent"] \in Texts
        BY <1>2, <1>3 DEF ReplyNames
      <3>3. line \in Outgoing /\ line.kind # "presence"
        <4>1. Plain(body.text) \in Body BY <1>1, PlainType
        <4>2. line \in Outgoing BY <3>1, <4>1, StanzaTypes, TextsAssumption
        <4> QED BY <4>2 DEF MessageTo
      <3>4. <<line, reply>> \in Seq(Outgoing) /\ AsksNothing(<<line, reply>>)
        BY <3>2, <3>3, ShortQueues
      <3>5. Send(IF rooms[i].joined THEN <<line, reply>> ELSE <<reply>>)
        BY <1>9, <2>3 DEF SayCmd
      <3>6. CASE rooms[i].joined
        <4>1. outbox' = outbox \o <<line, reply>> BY <3>5, <3>6 DEF Send
        <4> QED BY <2>1, <3>4, <4>1 DEF Effect
      <3>7. CASE ~rooms[i].joined
        <4>1. Send(<<reply>>) BY <3>5, <3>7
        <4> QED BY <1>4, <2>1, <3>2, <4>1
      <3> QED BY <3>6, <3>7
    <2> QED BY <2>2, <2>3
  <1>10. CASE ExitCmd BY <1>10 DEF ExitCmd
  <1>11. CASE sameRooms /\ UNCHANGED <<conn, outbox>>
    <2>1. outbox \o <<>> = outbox BY DEF BotTypeOK
    <2>2. <<>> \in Seq(Outgoing) /\ AsksNothing(<<>>) BY DEF AsksNothing
    <2> QED BY <1>11, <2>1, <2>2 DEF sameRooms, Effect
  <1> QED
    BY <1>5, <1>6, <1>7, <1>8, <1>9, <1>10, <1>11 DEF Execute

\* A request that disturbs nothing is for the room as the service spells it,
\* for a nick, and comes when everything asked before is answered and handled.
LEMMA NewRequest ==
    ASSUME TypeOK, BotStep, NEW s \in Seq(Outgoing), outbox' = outbox \o s,
           NEW request, AsksFirst(s, request), request.kind = "presence",
           request.to \in Address, Canon[request.to] \notin disturbed'
    PROVE  /\ Canon[request.to] = request.to /\ request.res # NoText
           /\ Quiet(request.to)
  <1> DEFINE n == Len(outbox) + 1
  <1>1. Len(outbox) \in Nat /\ Len(s) \in Nat \ {0}
    BY Queues, EmptySeq, LenProperties DEF AsksFirst
  <1>2. /\ Len(outbox') = Len(outbox) + Len(s) /\ outbox' \in Seq(Outgoing)
        /\ \A i \in 1 .. Len(outbox) + Len(s) :
              outbox'[i] = IF i <= Len(outbox) THEN outbox[i] ELSE s[i - Len(outbox)]
    BY Queues, ConcatProperties
  <1>3. n \in 1 .. Len(outbox) + Len(s) /\ ~(n <= Len(outbox)) /\ n - Len(outbox) = 1
        /\ n > Len(outbox)
    BY <1>1
  <1>4. outbox'[n] = request BY <1>2, <1>3 DEF AsksFirst
  <1>5. n \in DOMAIN outbox' BY <1>2, <1>3, LenProperties
  <1> HIDE DEF n
  <1>6. n \in NewRequests BY <1>3, <1>4, <1>5 DEF NewRequests
  <1> DEFINE room == Canon[outbox'[n].to]
  <1>7. room \notin NewlyDisturbed BY <1>4, SMTT(30) DEF BotStep
  <1>8. ~(outbox'[n].to # room \/ outbox'[n].res = NoText \/ Unanswered(room))
    BY <1>6, <1>7 DEF NewlyDisturbed
  <1>9. Quiet(room) BY <1>4, <1>8, QuietIsAnswered
  <1> QED BY <1>4, <1>8, <1>9

(***************************************************************************)
(* Every handler keeps a sound room placed.                                *)
(***************************************************************************)
\* The requests in what a command writes.
LEMMA AskedIn ==
    ASSUME NEW s \in Seq(Outgoing), NEW room
    PROVE  /\ AsksNothing(s) => None(s, Asks(room))
           /\ \A request : AsksFirst(s, request) =>
                 /\ Canon[request.to] # room => None(s, Asks(room))
                 /\ Single(s, Asks(room)) /\ Range(s) \cap Asks(room) \subseteq {request}
  BY InRange DEF AsksNothing, AsksFirst, Asks, None, Single

\* The rooms after a command, as far as one address is concerned.
LEMMA RoomsAfterEnter ==
    ASSUME BotTypeOK, NEW addr \in Address, NEW s, Enters(addr, s),
           NEW i \in DOMAIN rooms'
    PROVE  \/ i \in DOMAIN rooms /\ rooms'[i] = rooms[i]
           \/ i = Len(rooms) + 1 /\ rooms'[i] = JoinedRoom(addr, ConfigNick)
  <1>1. /\ Len(rooms) \in Nat /\ DOMAIN rooms = 1 .. Len(rooms)
        /\ DOMAIN rooms' = 1 .. Len(rooms) + 1
        /\ rooms'[Len(rooms) + 1] = JoinedRoom(addr, ConfigNick)
        /\ \A k \in 1 .. Len(rooms) : rooms'[k] = rooms[k]
    BY JoinedRoomType, AppendProperties, LenProperties DEF BotTypeOK, Enters
  <1> QED BY <1>1

LEMMA RoomsAfterNick ==
    ASSUME BotTypeOK, NEW i \in DOMAIN rooms, NEW nick \in Texts, NEW s,
           SetsNick(i, nick, s)
    PROVE  /\ DOMAIN rooms' = DOMAIN rooms
           /\ \A k \in DOMAIN rooms : /\ k # i => rooms'[k] = rooms[k]
                                      /\ rooms'[k].addr = rooms[k].addr
           /\ rooms'[i] = AfterSetNick(rooms[i], nick)
  <1>1. rooms[i] \in Room BY DEF BotTypeOK
  <1>2. AfterSetNick(rooms[i], nick).addr = rooms[i].addr
    BY <1>1 DEF AfterSetNick, Room
  <1> QED BY <1>2 DEF SetsNick

LEMMA CommandPlaces ==
    ASSUME TypeOK, OneObjectPerRoom, BotStep, conn = "online",
           chunk # <<>>, chunk' = Tail(chunk), UNCHANGED inbox,
           Head(chunk).kind # "presence",
           NEW s \in Seq(Outgoing), outbox' = outbox \o s, Effect(s),
           NEW room \in Address, Sound(room), Placed(room), room \notin disturbed'
    PROVE  Placed(room)'
  <1>1. BotTypeOK /\ OneUnderWay(room) /\ occ' = occ /\ Canon[room] = room
    BY DEF TypeOK, Placed, BotStep, Sound
  <1>2. Head(chunk) \notin Answers(room) BY DEF Answers, AnswerFrom
  <1>3. CASE None(s, Asks(room))
    <2>1. /\ OneUnderWay(room)'
          /\ Asked(room)' = Asked(room) \cup (Range(s) \cap Asks(room))
          /\ Answered(room)' = Answered(room)
      BY <1>1, <1>2, <1>3, HandlerQueues
    <2>2. Asked(room)' = Asked(room) BY <1>3, <2>1 DEF None
    <2>3. Quiet(room)' = Quiet(room) BY <2>1, <2>2 DEF Quiet
    <2>4. CASE rooms' = rooms
      BY <1>1, <2>1, <2>2, <2>3, <2>4 DEF Placed
    <2>5. ASSUME NEW addr \in Address, Enters(addr, s) PROVE Placed(room)'
      <3>1. addr # room
        <4>1. s[1] = PresenceTo(addr, ConfigNick) /\ s[1] \in Range(s) /\ s[1] \in Outgoing
          <5>1. 1 \in DOMAIN s
            BY <2>5, EmptySeq, LenProperties DEF Enters, AsksFirst
          <5> QED BY <2>5, <5>1, InRange DEF Enters, AsksFirst
        <4>2. s[1] \notin Asks(room) BY <1>3, <4>1 DEF None
        <4> QED BY <1>1, <4>1, <4>2 DEF Asks, PresenceTo
      <3>2. ASSUME NEW i \in DOMAIN rooms', rooms'[i].addr = room
            PROVE  i \in DOMAIN rooms /\ rooms'[i] = rooms[i]
        BY <1>1, <2>5, <3>1, <3>2, RoomsAfterEnter DEF JoinedRoom
      <3>3. \A i \in DOMAIN rooms : i \in DOMAIN rooms' /\ rooms'[i] = rooms[i]
        BY <1>1, <2>5, JoinedRoomType, AppendProperties, LenProperties
           DEF Enters, BotTypeOK
      <3> QED BY <1>1, <2>1, <2>2, <2>3, <3>2, <3>3 DEF Placed
    <2>6. ASSUME NEW i \in DOMAIN rooms, NEW nick \in Texts, SetsNick(i, nick, s)
          PROVE  Placed(room)'
      <3>1. /\ DOMAIN rooms' = DOMAIN rooms /\ rooms[i] \in Room
            /\ \A k \in DOMAIN rooms : /\ k # i => rooms'[k] = rooms[k]
                                       /\ rooms'[k].addr = rooms[k].addr
            /\ rooms'[i] = AfterSetNick(rooms[i], nick)
        BY <1>1, <2>6, RoomsAfterNick DEF BotTypeOK
      <3>2. CASE rooms[i].addr # room
        BY <1>1, <2>1, <2>2, <2>3, <3>1, <3>2 DEF Placed
      <3>3. CASE rooms[i].addr = room
        <4>1. ~rooms[i].joined
          <5> SUFFICES ASSUME rooms[i].joined PROVE FALSE OBVIOUS
          <5>1. s # <<>> /\ s[1] = PresenceTo(room, nick)
            BY <2>6, <3>3 DEF SetsNick, AsksFirst
          <5>2. 1 \in DOMAIN s BY <5>1, EmptySeq, LenProperties
          <5>3. s[1] \in Range(s) /\ s[1] \in Outgoing BY <5>2, InRange
          <5> QED BY <1>1, <1>3, <5>1, <5>3 DEF None, Asks, PresenceTo
        <4>2. ~rooms'[i].joined
          BY <3>1, <4>1 DEF AfterSetNick, Room
        <4>3. Asked(room) = {} /\ Answered(room) = {}
          BY <3>3, <4>1 DEF Placed, Fits, Settles
        <4>4. occ[room] = NoText BY <3>3, <4>1, <4>3 DEF Placed, Quiet, Agree
        <4>5. ASSUME NEW k \in DOMAIN rooms, rooms[k].addr = room
              PROVE  Agree(rooms'[k], occ[room])
          <5>1. CASE k = i BY <4>2, <4>4, <5>1 DEF Agree
          <5>2. CASE k # i
            BY <3>1, <4>3, <4>5, <5>2 DEF Placed, Quiet
          <5> QED BY <5>1, <5>2
        <4> QED BY <1>1, <2>1, <2>2, <3>1, <3>3, <4>3, <4>5 DEF Placed
      <3> QED BY <3>2, <3>3
    <2> QED BY <2>4, <2>5, <2>6 DEF Effect
  <1>4. CASE ~None(s, Asks(room))
    <2>1. ASSUME NEW request, AsksFirst(s, request), request.kind = "presence",
                 request.to \in Address
          PROVE  /\ request.to = room /\ request.res # NoText /\ Quiet(room)
                 /\ OneUnderWay(room)' /\ Asked(room)' \subseteq {request}
                 /\ Answered(room)' = {} /\ ~Quiet(room)'
      <3>1. Canon[request.to] = room BY <1>4, <2>1, AskedIn
      <3>2. request.to = room /\ request.res # NoText /\ Quiet(room)
        BY <2>1, <3>1, NewRequest
      <3>3. Single(s, Asks(room)) /\ Range(s) \cap Asks(room) \subseteq {request}
        BY <2>1, AskedIn
      <3>4. /\ OneUnderWay(room)'
            /\ Asked(room)' = Asked(room) \cup (Range(s) \cap Asks(room))
            /\ Answered(room)' = Answered(room)
        BY <1>1, <1>2, <3>2, <3>3, HandlerQueues
      <3> QED BY <1>4, <3>2, <3>3, <3>4 DEF Quiet, None
    <2>2. ~AsksNothing(s) BY <1>4, AskedIn
    <2>3. ASSUME NEW addr \in Address, Enters(addr, s) PROVE Placed(room)'
      <3> DEFINE request == PresenceTo(addr, ConfigNick)
                 new == JoinedRoom(addr, ConfigNick)
                 place == Len(rooms) + 1
      <3>1. AsksFirst(s, request) /\ request.kind = "presence" /\ request.to = addr
            /\ request.res = ConfigNick
        BY <2>3 DEF Enters, PresenceTo
      <3> HIDE DEF request
      <3>2. addr = room /\ OneUnderWay(room)' /\ Quiet(room) /\ ConfigNick # NoText
            /\ Asked(room)' \subseteq {request} /\ Answered(room)' = {} /\ ~Quiet(room)'
        BY <2>1, <3>1
      <3>3. occ[room] = NoText BY <2>3, <3>2 DEF Enters, Placed
      <3>4. Fits(new, request, NoText)
        BY <3>1, <3>2 DEF Fits, JoinedRoom
      <3>5. ASSUME NEW i \in DOMAIN rooms', rooms'[i].addr = room
            PROVE  rooms'[i] = new
        BY <1>1, <2>3, <3>2, <3>5, RoomsAfterEnter DEF Enters
      <3>6. place \in DOMAIN rooms' /\ rooms'[place].addr = room
        <4>1. place \in DOMAIN rooms' /\ rooms'[place] = new
          BY <1>1, <2>3, JoinedRoomType, AppendProperties, LenProperties
             DEF Enters, BotTypeOK
        <4> QED BY <3>2, <4>1 DEF JoinedRoom
      <3> HIDE DEF new, place
      <3> QED BY <1>1, <3>2, <3>3, <3>4, <3>5, <3>6 DEF Placed
    <2>4. ASSUME NEW i \in DOMAIN rooms, NEW nick \in Texts, SetsNick(i, nick, s)
          PROVE  Placed(room)'
      <3> DEFINE request == PresenceTo(rooms[i].addr, nick)
      <3>1. /\ DOMAIN rooms' = DOMAIN rooms /\ rooms[i] \in Room
            /\ \A k \in DOMAIN rooms : /\ k # i => rooms'[k] = rooms[k]
                                       /\ rooms'[k].addr = rooms[k].addr
            /\ rooms'[i] = AfterSetNick(rooms[i], nick)
        BY <1>1, <2>4, RoomsAfterNick DEF BotTypeOK
      <3>2. rooms[i].joined /\ AsksFirst(s, request) BY <2>2, <2>4 DEF SetsNick
      <3>3. request.kind = "presence" /\ request.to = rooms[i].addr /\ request.res = nick
            /\ request.to \in Address
        BY <3>1 DEF PresenceTo, Room
      <3> HIDE DEF request
      <3>4. rooms[i].addr = room /\ OneUnderWay(room)' /\ Quiet(room) /\ nick # NoText
            /\ Asked(room)' \subseteq {request} /\ Answered(room)' = {} /\ ~Quiet(room)'
        BY <2>1, <3>2, <3>3
      <3>5. Agree(rooms[i], occ[room]) BY <3>4 DEF Placed
      <3>6. Fits(rooms'[i], request, occ[room])
        <4>1. /\ rooms'[i].joined /\ rooms'[i].addr = room /\ rooms'[i].nick = rooms[i].nick
              /\ rooms'[i].newNick = nick
          BY <3>1, <3>2, <3>4 DEF AfterSetNick, Room
        <4> QED BY <3>2, <3>3, <3>4, <3>5, <4>1 DEF Fits, Agree
      <3>7. ASSUME NEW k \in DOMAIN rooms', rooms'[k].addr = room
            PROVE  k = i
        <4>1. k \in DOMAIN rooms /\ rooms[k].addr = rooms[i].addr BY <3>1, <3>4, <3>7
        <4>2. Undisturbed(i) BY <3>4 DEF Undisturbed, Sound
        <4> QED BY <4>1, <4>2 DEF OneObjectPerRoom
      <3> QED BY <1>1, <3>1, <3>4, <3>6, <3>7 DEF Placed
    <2> QED
      <3>1. rooms' = rooms /\ AsksNothing(s) => FALSE BY <2>2
      <3> QED BY <2>3, <2>4, <3>1 DEF Effect
  <1> QED BY <1>3, <1>4

\* What the handlers have in common, while the bot stays online.
LEMMA HandlerEffect ==
    ASSUME TypeOK, Handle, conn' = "online"
    PROVE  /\ conn = "online"
           /\ chunk # <<>> /\ chunk' = Tail(chunk) /\ UNCHANGED inbox
           /\ \/ Head(chunk).kind = "presence" /\ HandlePresence
              \/ /\ Head(chunk).kind # "presence"
                 /\ \E s \in Seq(Outgoing) : outbox' = outbox \o s /\ Effect(s)
  <1>1. chunk # <<>> /\ chunk' = Tail(chunk) /\ UNCHANGED inbox
    BY DEF Handle, HandleMessage, HandleMUCMessage, HandlePresence, HandleSubscription,
           TakeStanza
  <1>2. conn' \in {conn, "off", "lost"}
    BY DEF Handle, HandleMessage, HandleMUCMessage, HandlePresence, HandleSubscription,
           Execute, BfCmd, HelpCmd, EnterCmd, NickCmd, SayCmd, ExitCmd, Send
  <1>3. conn = "online" BY <1>2
  <1> DEFINE msg == Head(chunk)
  <1>4. msg \in Incoming
    BY <1>1, Queues, HeadTailProperties
  <1>5. /\ msg.body \in Body /\ msg.from \in Address /\ msg.res \in Texts
    BY <1>4 DEF Incoming
  <1>6. /\ BotTypeOK /\ Plain(NoText) \in Body
    BY PlainType, TextsAssumption DEF TypeOK
  <1>7. CASE HandlePresence BY <1>1, <1>3, <1>7 DEF HandlePresence, TakeStanza
  <1>8. ASSUME NEW level, NEW back \in Outgoing, back.kind # "presence",
               Execute(msg.body, level, back)
        PROVE  \E s \in Seq(Outgoing) : outbox' = outbox \o s /\ Effect(s)
    BY <1>3, <1>5, <1>6, <1>8, ExecuteEffect
  <1>9. ASSUME rooms' = rooms, outbox' = outbox
        PROVE  \E s \in Seq(Outgoing) : outbox' = outbox \o s /\ Effect(s)
    <2>1. outbox \o <<>> = outbox BY Queues
    <2>2. <<>> \in Seq(Outgoing) /\ AsksNothing(<<>>) BY DEF AsksNothing
    <2> QED BY <1>9, <2>1, <2>2 DEF Effect
  <1>10. CASE HandleMessage
    <2> DEFINE back == MessageTo("chat", msg.from, msg.res, Plain(NoText))
    <2>1. back \in Outgoing BY <1>5, <1>6, StanzaTypes
    <2>2. back.kind # "presence" BY DEF MessageTo
    <2>3. Execute(msg.body, AccessLevel(msg.from), back) /\ msg.kind = "message"
      BY <1>10 DEF HandleMessage, TakeStanza
    <2> QED BY <1>1, <1>3, <1>8, <2>1, <2>2, <2>3
  <1>11. CASE HandleMUCMessage
    <2> DEFINE room == rooms[SessionFor(msg)]
               back == MessageTo("groupchat", room.addr, NoText, Plain(NoText))
    <2>1. room.addr \in Address
      <3>1. room \in Room
        BY <1>6, <1>11, SessionForType DEF HandleMUCMessage, BotTypeOK
      <3> QED BY <3>1 DEF Room
    <2>2. back \in Outgoing BY <1>6, <2>1, StanzaTypes, TextsAssumption
    <2>3. back.kind # "presence" BY DEF MessageTo
    <2>4. msg.kind = "message" BY <1>11 DEF HandleMUCMessage, TakeStanza
    <2>5. Execute(msg.body, 0, back) \/ (sameRooms /\ UNCHANGED <<conn, outbox>>)
      BY <1>11 DEF HandleMUCMessage
    <2> QED BY <1>1, <1>3, <1>8, <1>9, <2>2, <2>3, <2>4, <2>5 DEF sameRooms
  <1>12. CASE HandleSubscription
    <2> DEFINE answer(kind) == MessageTo(kind, msg.from, msg.res, Plain(NoText))
    <2>1. /\ answer("subscribed") \in Outgoing /\ answer("unsubscribed") \in Outgoing
          /\ answer("subscribed").kind # "presence"
          /\ answer("unsubscribed").kind # "presence"
      <3>1. answer("subscribed") \in Outgoing /\ answer("unsubscribed") \in Outgoing
        BY <1>5, <1>6, StanzaTypes
      <3> QED BY <3>1 DEF MessageTo
    <2>2. /\ msg.kind = "subscribe" /\ rooms' = rooms
          /\ Send(IF AccessLevel(msg.from) >= 100
                    THEN <<answer("subscribed"), answer("subscribed")>>
                    ELSE <<answer("unsubscribed")>>)
      BY <1>12 DEF HandleSubscription, TakeStanza, sameRooms
    <2> HIDE DEF answer
    <2>3. \/ outbox' = outbox \o <<answer("subscribed"), answer("subscribed")>>
          \/ outbox' = outbox \o <<answer("unsubscribed")>>
      BY <1>3, <2>2 DEF Send
    <2>4. /\ <<answer("subscribed"), answer("subscribed")>> \in Seq(Outgoing)
          /\ AsksNothing(<<answer("subscribed"), answer("subscribed")>>)
          /\ <<answer("unsubscribed")>> \in Seq(Outgoing)
          /\ AsksNothing(<<answer("unsubscribed")>>)
      BY <2>1, ShortQueues
    <2>5. \E s \in Seq(Outgoing) : outbox' = outbox \o s /\ AsksNothing(s)
      BY <2>3, <2>4
    <2> QED BY <1>1, <1>3, <2>2, <2>5 DEF Effect
  <1> QED BY <1>7, <1>10, <1>11, <1>12 DEF Handle

\* A presence is handled by the room it comes from, and settles its record.
LEMMA PresencePlaces ==
    ASSUME TypeOK, RegistriesMatch, BotStep, HandlePresence,
           NEW room \in Address, Placed(room)
    PROVE  Placed(room)'
  <1> DEFINE pres == Head(chunk)
  <1>1. /\ chunk # <<>> /\ chunk' = Tail(chunk) /\ pres.kind = "presence"
        /\ UNCHANGED <<inbox, outbox, occ>> /\ DOMAIN rooms' = DOMAIN rooms
        /\ \A i \in DOMAIN rooms :
              rooms'[i] = IF i \in Matched(pres) THEN AfterPresence(rooms[i], pres)
                                                 ELSE rooms[i]
    BY WalkCallsAll DEF HandlePresence, TakeStanza, BotStep, TypeOK
  <1>2. pres \in Incoming BY <1>1, Queues, HeadTailProperties
  <1>3. OneUnderWay(room) BY DEF Placed
  <1>4. outbox' = outbox \o <<>> /\ <<>> \in Seq(Outgoing) /\ None(<<>>, Asks(room))
        /\ Range(<<>>) = {}
    BY <1>1, Queues DEF None, Range
  <1> HIDE DEF pres
  <1>5. /\ OneUnderWay(room)' /\ Asked(room)' = Asked(room)
        /\ pres \in Answers(room) =>
              pres \in Answered(room) /\ Asked(room) = {} /\ Answered(room)' = {}
        /\ pres \notin Answers(room) => Answered(room)' = Answered(room)
    <2>1. Asked(room)' = Asked(room) BY <1>1 DEF Asked
    <2> QED BY <1>1, <1>3, <1>4, <2>1, HandlerQueues DEF pres
  <1>6. ASSUME NEW i \in DOMAIN rooms PROVE rooms[i] \in Room /\ rooms'[i].addr = rooms[i].addr
    <2>1. rooms[i] \in Room BY DEF TypeOK, BotTypeOK
    <2>2. AfterPresence(rooms[i], pres).addr = rooms[i].addr
      BY <2>1 DEF AfterPresence, AfterError, AfterNews, Room
    <2> QED BY <1>1, <2>1, <2>2
  <1>7. CASE pres.from = room
    <2>1. pres \in Answers(room) BY <1>1, <1>2, <1>7 DEF Answers, AnswerFrom, pres
    <2>2. ASSUME NEW i \in DOMAIN rooms, rooms[i].addr = room
          PROVE  Agree(rooms'[i], occ[room])
      <3>1. Settles(rooms[i], pres, occ[room]) BY <1>5, <2>1, <2>2 DEF Placed
      <3>2. i \in Matched(pres)
        BY <1>7, <2>2, <3>1 DEF Matched, Settles, RegistriesMatch
      <3> QED BY <1>1, <3>1, <3>2 DEF Settles
    <2>3. ~Quiet(room) BY <1>5, <2>1 DEF Quiet
    <2> QED BY <1>1, <1>5, <1>6, <2>1, <2>2, <2>3 DEF Placed
  <1>8. CASE pres.from # room
    <2>1. pres \notin Answers(room) BY <1>8 DEF Answers, AnswerFrom
    <2>2. Quiet(room)' = Quiet(room) BY <1>5, <2>1 DEF Quiet
    <2>3. ASSUME NEW i \in DOMAIN rooms, rooms[i].addr = room
          PROVE  rooms'[i] = rooms[i]
      BY <1>1, <1>8, <2>3 DEF Matched
    <2> QED BY <1>1, <1>5, <1>6, <2>1, <2>2, <2>3 DEF Placed
  <1> QED BY <1>7, <1>8

(***************************************************************************)
(* Every step of the service and of the world keeps a sound room placed.   *)
(***************************************************************************)
LEMMA AnswersIn ==
    ASSUME NEW x \in Incoming, NEW y \in Incoming, y.kind # "presence", NEW room
    PROVE  /\ \A t \in {<<x>>, <<x, y>>} :
                 /\ t \in Seq(Incoming) /\ Single(t, Answers(room))
                 /\ Range(t) \cap Answers(room) = {x} \cap Answers(room)
  <1>1. y \notin Answers(room) BY DEF Answers, AnswerFrom
  <1>2. DOMAIN <<x, y>> = {1, 2} /\ <<x, y>>[1] = x /\ <<x, y>>[2] = y OBVIOUS
  <1>3. DOMAIN <<x>> = {1} /\ <<x>>[1] = x OBVIOUS
  <1> QED BY <1>1, <1>2, <1>3 DEF Single, Range

\* The answer to a request, whatever it is, settles the record.
LEMMA AnswerPlaces ==
    ASSUME TypeOK, Take("presence"), serverUnchanged,
           NEW answer \in Incoming, NEW other \in Incoming, other.kind # "presence",
           NEW t \in {<<answer>>, <<answer, other>>}, Arrive(t),
           answer.kind = "presence", answer.from = Canon[Head(outbox).to],
           \A a \in Address \ {answer.from} : occ'[a] = occ[a],
           \A rec \in Room : Fits(rec, Head(outbox), occ[answer.from]) =>
                                Settles(rec, answer, occ'[answer.from]),
           NEW room \in Address, Placed(room)
    PROVE  Placed(room)'
  <1> DEFINE asked == Head(outbox)
  <1>1. UNCHANGED <<chunk, rooms>> /\ OneUnderWay(room) BY DEF serverUnchanged, Placed
  <1>2. asked \in Outgoing /\ asked.kind = "presence" BY TakeType
  <1>3. /\ t \in Seq(Incoming) /\ Single(t, Answers(room))
        /\ Range(t) \cap Answers(room) = {answer} \cap Answers(room)
    <2>1. \A u \in {<<answer>>, <<answer, other>>} :
             /\ u \in Seq(Incoming) /\ Single(u, Answers(room))
             /\ Range(u) \cap Answers(room) = {answer} \cap Answers(room)
      BY AnswersIn, ZenonT(60)
    <2> QED BY <2>1
  <1>4. answer \in Answers(room) <=> answer.from = room BY DEF Answers, AnswerFrom
  <1>5. asked \in Asks(room) <=> answer.from = room BY <1>2 DEF Asks
  <1>6. asked \notin Asks(room) => None(t, Answers(room))
    BY <1>3, <1>4, <1>5 DEF None
  <1>7. /\ OneUnderWay(room)'
        /\ asked \in Asks(room) =>
              /\ asked \in Asked(room) /\ Asked(room)' = {}
              /\ Answered(room)' = Range(t) \cap Answers(room)
        /\ asked \notin Asks(room) =>
              Asked(room)' = Asked(room) /\ Answered(room)' = Answered(room)
    BY <1>1, <1>3, <1>6, ServiceQueues
  <1> HIDE DEF asked
  <1>8. CASE answer.from = room
    <2>1. /\ asked \in Asked(room) /\ Asked(room)' = {} /\ Answered(room)' = {answer}
      BY <1>3, <1>4, <1>5, <1>7, <1>8
    <2>2. ~Quiet(room) /\ ~Quiet(room)' BY <2>1 DEF Quiet
    <2>3. ASSUME NEW i \in DOMAIN rooms, rooms[i].addr = room
          PROVE  Settles(rooms[i], answer, occ'[room])
      <3>1. Fits(rooms[i], asked, occ[room]) BY <2>1, <2>3 DEF Placed
      <3>2. rooms[i] \in Room BY DEF TypeOK, BotTypeOK
      <3> QED BY <1>8, <3>1, <3>2 DEF asked
    <2> QED BY <1>1, <1>7, <2>1, <2>2, <2>3 DEF Placed
  <1>9. CASE answer.from # room
    <2>1. Asked(room)' = Asked(room) /\ Answered(room)' = Answered(room)
          /\ occ'[room] = occ[room]
      BY <1>5, <1>7, <1>9
    <2> QED BY <1>1, <1>7, <2>1 DEF Placed, Quiet
  <1> QED BY <1>8, <1>9

\* What answers nothing leaves a room as it is.
LEMMA StaysPlaced ==
    ASSUME UNCHANGED rooms, NEW room, Placed(room), OneUnderWay(room)',
           occ'[room] = occ[room],
           Asked(room)' = Asked(room), Answered(room)' = Answered(room)
    PROVE  Placed(room)'
  BY DEF Placed, Quiet

LEMMA ServicePlaces ==
    ASSUME TypeOK, Service, NEW room \in Address, Placed(room)
    PROVE  Placed(room)'
  <1> DEFINE asked == Head(outbox)
             r == Canon[asked.to]
  <1>1. ASSUME NEW kind, Take(kind)
        PROVE  /\ asked \in Outgoing /\ asked.kind = kind
               /\ r \in Address /\ asked.to \in Address /\ asked.res \in Texts
               /\ asked.body \in Body
    BY <1>1, TakeType
  <1>2. NoText \in Texts /\ \A a \in Address : occ[a] \in Texts
    BY TextsAssumption DEF TypeOK
  <1>3. CASE Refuse
    <2> DEFINE no == Presence("error", r, asked.res, {}, NoText)
               other == Message("error", r, NoText, asked.body, 0)
    <2>1. /\ Take("presence") /\ Arrive(<<no>>) /\ serverUnchanged /\ occ' = occ
      BY <1>3 DEF Refuse, worldVars
    <2>2. no \in Incoming /\ other \in Incoming
      BY <1>1, <1>2, <2>1, PresenceType, MessageType
    <2>3. no.kind = "presence" /\ no.from = r /\ other.kind # "presence"
      BY DEF Presence, Message
    <2>4. \A rec \in Room : Fits(rec, asked, occ[r]) => Settles(rec, no, occ[r])
      BY RefusalSettles
    <2> HIDE DEF no, other, r, asked
    <2>5. /\ no.from = Canon[Head(outbox).to] /\ <<no>> \in {<<no>>, <<no, other>>}
          /\ \A a \in Address \ {no.from} : occ'[a] = occ[a]
          /\ \A rec \in Room : Fits(rec, Head(outbox), occ[no.from]) =>
                                  Settles(rec, no, occ'[no.from])
      BY <2>1, <2>3, <2>4 DEF r, asked
    <2> QED BY <2>1, <2>2, <2>3, <2>5, AnswerPlaces
  <1>4. CASE Admit
    <2> DEFINE flags(nick) == IF nick = asked.res THEN {"self"} ELSE {"self", "assigned"}
               entered(nick) == Presence("available", r, nick, flags(nick), NoText)
               old(nick, body) ==
                 [Message("groupchat", r, nick, body, 0) EXCEPT !.delayed = TRUE]
    <2>1. PICK nick \in {asked.res} \cup Assigned, body \in UserBodies,
               replay \in BOOLEAN :
             /\ nick # NoText /\ occ' = [occ EXCEPT ![r] = nick]
             /\ Arrive(IF replay THEN <<entered(nick), old(nick, body)>>
                                 ELSE <<entered(nick)>>)
      BY <1>4 DEF Admit
    <2>2. Take("presence") /\ serverUnchanged /\ occ[r] = NoText
      BY <1>4 DEF Admit
    <2>3. /\ nick \in Texts /\ body \in Body /\ r \in Address
          /\ flags(nick) \in SUBSET PresenceFlags
      BY <1>1, <2>2, SessionAssumption DEF PresenceFlags
    <2>4. entered(nick) \in Incoming /\ entered(nick).kind = "presence"
          /\ entered(nick).from = r
      BY <1>2, <2>3, PresenceType DEF Presence
    <2>5. old(nick, body) \in Incoming /\ old(nick, body).kind # "presence"
      <3>1. Message("groupchat", r, nick, body, 0) \in Incoming
        BY <2>3, MessageType
      <3>2. Message("groupchat", r, nick, body, 0).kind = "message" BY DEF Message
      <3> QED BY <3>1, <3>2 DEF Incoming
    <2>6. \A rec \in Room : Fits(rec, asked, occ[r]) => Settles(rec, entered(nick), nick)
      BY <2>1, <2>2, <2>3, EntrySettles
    <2>7. occ'[r] = nick /\ \A a \in Address \ {r} : occ'[a] = occ[a]
      BY <2>1, <2>3 DEF TypeOK
    <2> DEFINE t == IF replay THEN <<entered(nick), old(nick, body)>>
                              ELSE <<entered(nick)>>
    <2>8. t \in {<<entered(nick)>>, <<entered(nick), old(nick, body)>>} /\ Arrive(t)
      BY <2>1
    <2> HIDE DEF entered, old, t
    <2>9. \A rec \in Room : Fits(rec, Head(outbox), occ[entered(nick).from]) =>
                               Settles(rec, entered(nick), occ'[entered(nick).from])
      BY <2>4, <2>6, <2>7
    <2> QED BY <2>2, <2>4, <2>5, <2>7, <2>8, <2>9, AnswerPlaces
  <1>5. CASE Rename
    <2> DEFINE granted(flags) ==
                 IF asked.res = occ[r]
                   THEN Presence("available", r, asked.res, {"self"}, NoText)
                   ELSE Presence("available", r, occ[r], flags, asked.res)
               other == Message("error", r, NoText, asked.body, 0)
    <2>1. PICK flags \in {{"changed"}, {"changed", "self"}} : Arrive(<<granted(flags)>>)
      BY <1>5 DEF Rename
    <2>2. /\ Take("presence") /\ serverUnchanged /\ occ[r] # NoText
          /\ occ' = [occ EXCEPT ![r] = asked.res]
      BY <1>5 DEF Rename
    <2>3. r \in Address /\ asked.res \in Texts /\ asked.body \in Body BY <1>1, <2>2
    <2>4. granted(flags) \in Incoming
      <3>1. Presence("available", r, asked.res, {"self"}, NoText) \in Incoming
        BY <1>2, <2>3, PresenceType DEF PresenceFlags
      <3>2. flags \in SUBSET PresenceFlags BY DEF PresenceFlags
      <3>3. Presence("available", r, occ[r], flags, asked.res) \in Incoming
        BY <1>2, <2>3, <3>2, PresenceType
      <3> QED BY <3>1, <3>3
    <2>5. granted(flags).kind = "presence" /\ granted(flags).from = r
      BY DEF Presence
    <2>6. other \in Incoming /\ other.kind # "presence"
      BY <1>2, <2>3, MessageType DEF Message
    <2>7. \A rec \in Room : Fits(rec, asked, occ[r]) => Settles(rec, granted(flags), asked.res)
      BY <1>2, <2>2, <2>3, RenamingSettles
    <2>8. occ'[r] = asked.res /\ \A a \in Address \ {r} : occ'[a] = occ[a]
      BY <2>2, <2>3 DEF TypeOK
    <2> HIDE DEF granted, other
    <2>9. /\ <<granted(flags)>> \in {<<granted(flags)>>, <<granted(flags), other>>}
          /\ \A rec \in Room : Fits(rec, Head(outbox), occ[granted(flags).from]) =>
                                  Settles(rec, granted(flags), occ'[granted(flags).from])
      BY <2>5, <2>7, <2>8
    <2> QED BY <2>1, <2>2, <2>4, <2>5, <2>6, <2>8, <2>9, AnswerPlaces
  <1>6. ASSUME NEW kind, kind # "presence", Take(kind), serverUnchanged, occ' = occ,
               NEW t \in Seq(Incoming), None(t, Answers(room)), Arrive(t)
        PROVE  Placed(room)'
    <2>1. asked \notin Asks(room) BY <1>1, <1>6 DEF Asks
    <2>2. OneUnderWay(room) /\ UNCHANGED <<rooms, chunk>> BY <1>6 DEF Placed, serverUnchanged
    <2>3. OneUnderWay(room)' /\ Asked(room)' = Asked(room) /\ Answered(room)' = Answered(room)
      BY <1>6, <2>1, <2>2, ServiceQueues
    <2> QED BY <1>6, <2>2, <2>3, StaysPlaced
  <1>7. ASSUME NEW x \in Incoming, x.kind # "presence"
        PROVE  <<x>> \in Seq(Incoming) /\ None(<<x>>, Answers(room))
    <2>1. x \notin Answers(room) BY <1>7 DEF Answers, AnswerFrom
    <2>2. Range(<<x>>) \cap Answers(room) = {x} \cap Answers(room) /\ <<x>> \in Seq(Incoming)
      BY <1>7, AnswersIn
    <2> QED BY <2>1, <2>2 DEF None
  <1>8. UNCHANGED inbox => \E t \in Seq(Incoming) : None(t, Answers(room)) /\ Arrive(t)
    <2>1. inbox \o <<>> = inbox BY Queues
    <2>2. <<>> \in Seq(Incoming) /\ None(<<>>, Answers(room)) BY DEF None, Range
    <2> QED BY <2>1, <2>2 DEF Arrive
  <1>9. CASE Broadcast
    <2> DEFINE id == LineId(~Empty(asked.body))
    <2>2. id \in Nat BY LineIdType
    <2> HIDE DEF id
    <2> DEFINE echo == Message("groupchat", r, occ[r], asked.body, id)
               error == Message("error", r, NoText, asked.body, 0)
    <2>1. Take("groupchat") /\ serverUnchanged /\ occ' = occ BY <1>9 DEF Broadcast
    <2>3. r \in Address /\ occ[r] \in Texts /\ asked.body \in Body BY <1>1, <1>2, <2>1
    <2>4. echo \in Incoming /\ error \in Incoming
      <3>1. echo \in Incoming BY <2>2, <2>3, MessageType
      <3>2. error \in Incoming BY <1>2, <2>3, MessageType
      <3> QED BY <3>1, <3>2
    <2>5. echo.kind # "presence" /\ error.kind # "presence" BY DEF Message
    <2>6. Arrive(<<echo>>) \/ Arrive(<<error>>) BY <1>9 DEF Broadcast, id
    <2> HIDE DEF echo, error
    <2>7. \E t \in Seq(Incoming) : None(t, Answers(room)) /\ Arrive(t)
      BY <1>7, <2>4, <2>5, <2>6
    <2> QED BY <1>6, <2>1, <2>7
  <1>10. CASE Deliver
    <2> DEFINE bounce == Message("error", asked.to, asked.res, asked.body, 0)
    <2>1. Take("chat") /\ serverUnchanged /\ occ' = occ BY <1>10 DEF Deliver
    <2>2. bounce \in Incoming BY <1>1, <2>1, MessageType
    <2>3. bounce.kind # "presence" BY DEF Message
    <2>4. UNCHANGED inbox \/ Arrive(<<bounce>>) BY <1>10 DEF Deliver
    <2> HIDE DEF bounce
    <2>5. \E t \in Seq(Incoming) : None(t, Answers(room)) /\ Arrive(t)
      BY <1>7, <1>8, <2>2, <2>3, <2>4
    <2> QED BY <1>6, <2>1, <2>5
  <1>11. CASE AnswerSubscription
    <2>1. serverUnchanged /\ occ' = occ /\ UNCHANGED inbox
      BY <1>11 DEF AnswerSubscription, worldVars
    <2>2. PICK t \in Seq(Incoming) : None(t, Answers(room)) /\ Arrive(t) BY <1>8, <2>1
    <2>3. Take("subscribed") \/ Take("unsubscribed") BY <1>11 DEF AnswerSubscription
    <2> QED BY <1>6, <2>1, <2>2, <2>3
  <1> QED BY <1>3, <1>4, <1>5, <1>9, <1>10, <1>11 DEF Service

LEMMA WorldPlaces ==
    ASSUME TypeOK, World, NEW room \in Address, room \notin disturbed', Placed(room)
    PROVE  Placed(room)'
  <1>1. UNCHANGED <<outbox, rooms, chunk>> /\ OneUnderWay(room)
    BY DEF World, Direct, Speak, Whisper, Expel, Subscribe, Stimulus, serverUnchanged, Placed
  <1>2. ASSUME NEW x, x.kind # "presence" \/ x.from # room, inbox' \in Seq(Incoming),
               Arrive(<<x>>), occ'[room] = occ[room]
        PROVE  Placed(room)'
    <2>1. DOMAIN <<x>> = {1} /\ <<x>>[1] = x OBVIOUS
    <2>2. x \notin Answers(room) BY <1>2 DEF Answers, AnswerFrom
    <2>3. None(<<x>>, Answers(room)) BY <2>1, <2>2 DEF None, Range
    <2>4. x \in Incoming
      <3>1. inbox \in Seq(Incoming) /\ inbox' = inbox \o <<x>>
        BY <1>2, Queues DEF Arrive
      <3>2. Len(inbox) \in Nat /\ Len(<<x>>) = 1 /\ <<x>> \in Seq({x})
        BY <3>1, LenProperties
      <3>3. inbox \in Seq(Incoming \cup {x}) /\ <<x>> \in Seq(Incoming \cup {x})
        BY <3>1, <3>2, SeqMonotonic
      <3>4. /\ Len(inbox') = Len(inbox) + 1
            /\ \A i \in 1 .. Len(inbox) + 1 :
                  inbox'[i] = IF i <= Len(inbox) THEN inbox[i] ELSE <<x>>[i - Len(inbox)]
        BY <3>1, <3>2, <3>3, ConcatProperties
      <3>5. inbox'[Len(inbox) + 1] = x BY <2>1, <3>2, <3>4
      <3>6. Len(inbox) + 1 \in 1 .. Len(inbox') BY <3>2, <3>4
      <3> QED BY <1>2, <3>5, <3>6, ElementOfSeq
    <2>5. <<x>> \in Seq(Incoming) BY <2>4
    <2>6. OneUnderWay(room)' /\ Asked(room)' = Asked(room) /\ Answered(room)' = Answered(room)
      BY <1>1, <1>2, <2>3, <2>5, ArrivalQueues
    <2> QED BY <1>1, <1>2, <2>6, StaysPlaced
  <1>3. inbox' \in Seq(Incoming) BY WorldType DEF TypeOK, BotTypeOK
  <1>4. CASE Direct
    <2>1. PICK user \in Users, body \in UserBodies :
             Arrive(<<Message("chat", user, NoText, body, 0)>>)
      BY <1>4 DEF Direct
    <2>2. occ' = occ /\ Message("chat", user, NoText, body, 0).kind # "presence"
      BY <1>4 DEF Direct, Message
    <2> QED BY <1>2, <1>3, <2>1, <2>2
  <1>5. CASE Speak
    <2>1. PICK x : x.kind # "presence" /\ Arrive(<<x>>)
      <3>1. PICK r \in Rooms, body \in UserBodies, form \in Forms :
               Arrive(<<Spoken(form, r, body)>>)
        BY <1>5 DEF Speak
      <3> QED BY <3>1, SpokenType
    <2>2. occ' = occ BY <1>5 DEF Speak
    <2> QED BY <1>2, <1>3, <2>1, <2>2
  <1>6. CASE Whisper
    <2>1. PICK r \in Rooms, body \in UserBodies :
             Arrive(<<Message("chat", r, "someone", body, 0)>>)
      BY <1>6 DEF Whisper
    <2>2. occ' = occ /\ Message("chat", r, "someone", body, 0).kind # "presence"
      BY <1>6 DEF Whisper, Message
    <2> QED BY <1>2, <1>3, <2>1, <2>2
  <1>7. CASE Expel
    <2>1. PICK r \in Rooms :
             /\ occ' = [occ EXCEPT ![r] = NoText] /\ disturbed' = disturbed \cup {r}
             /\ Arrive(<<Presence("available", r, occ[r], {"self"}, NoText)>>)
      BY <1>7 DEF Expel
    <2>2. r # room /\ Presence("available", r, occ[r], {"self"}, NoText).from = r
      BY <2>1 DEF Presence
    <2>3. occ'[room] = occ[room] BY <2>1, <2>2 DEF TypeOK
    <2> QED BY <1>2, <1>3, <2>1, <2>2, <2>3
  <1>8. CASE Subscribe
    <2> DEFINE asks(user) == [Presence("available", user, NoText, {}, NoText)
                                EXCEPT !.kind = "subscribe"]
    <2>1. PICK user \in Users : Arrive(<<asks(user)>>) BY <1>8 DEF Subscribe
    <2>2. occ' = occ BY <1>8 DEF Subscribe
    <2>3. asks(user).kind # "presence" BY DEF Presence
    <2> HIDE DEF asks
    <2> QED BY <1>2, <1>3, <2>1, <2>2, <2>3
  <1> QED BY <1>4, <1>5, <1>6, <1>7, <1>8 DEF World

(***************************************************************************)
(* The rooms of the configuration.                                         *)
(***************************************************************************)
\* Two of them under one name, or one under another spelling, disturb the room.
LEMMA ConnectRequests ==
    ASSUME TypeOK, OnConnect, BotStep, outbox = <<>>
    PROVE  /\ DOMAIN outbox' = DOMAIN AutoJoin /\ DOMAIN rooms' = DOMAIN AutoJoin
           /\ \A i \in DOMAIN AutoJoin :
                 LET addr == FinishRoomName(AutoJoin[i])
                 IN  /\ addr \in Address
                     /\ outbox'[i] = PresenceTo(addr, ConfigNick)
                     /\ rooms'[i] = JoinedRoom(addr, ConfigNick)
                     /\ Canon[addr] \notin disturbed' =>
                           /\ Canon[addr] = addr
                           /\ \A k \in DOMAIN AutoJoin :
                                 Canon[FinishRoomName(AutoJoin[k])] = addr => k = i
  <1> DEFINE addr(i) == FinishRoomName(AutoJoin[i])
  <1>1. /\ DOMAIN outbox' = DOMAIN AutoJoin /\ DOMAIN rooms' = DOMAIN AutoJoin
        /\ \A i \in DOMAIN AutoJoin : /\ outbox'[i] = PresenceTo(addr(i), ConfigNick)
                                      /\ rooms'[i] = JoinedRoom(addr(i), ConfigNick)
    BY DEF OnConnect
  <1>2. \A i \in DOMAIN AutoJoin : i \in Nat /\ i > 0 /\ addr(i) \in Address
    BY BotAssumption, NameType
  <1>3. \A i \in DOMAIN AutoJoin : outbox'[i].to = addr(i) /\ outbox'[i].kind = "presence"
    BY <1>1 DEF PresenceTo
  <1>4. NewRequests = DOMAIN AutoJoin BY <1>1, <1>2, <1>3 DEF NewRequests
  <1> HIDE DEF addr
  <1>5. ASSUME NEW i \in DOMAIN AutoJoin, Canon[addr(i)] \notin disturbed'
        PROVE  /\ addr(i) = Canon[addr(i)]
               /\ \A k \in DOMAIN AutoJoin : k < i => Canon[addr(k)] # Canon[addr(i)]
    <2>1. Canon[addr(i)] \notin NewlyDisturbed BY <1>5 DEF BotStep
    <2>2. ~(\/ outbox'[i].to # Canon[outbox'[i].to]
            \/ \E m \in NewRequests : m < i /\ Canon[outbox'[m].to] = Canon[outbox'[i].to])
      BY <1>3, <1>4, <2>1 DEF NewlyDisturbed
    <2> QED BY <1>3, <1>4, <2>2
  <1>6. ASSUME NEW i \in DOMAIN AutoJoin, Canon[addr(i)] \notin disturbed',
               NEW k \in DOMAIN AutoJoin, Canon[addr(k)] = addr(i)
        PROVE  k = i
    <2>1. Canon[addr(k)] = Canon[addr(i)] BY <1>5, <1>6
    <2>2. ~(k < i) BY <1>5, <1>6, <2>1
    <2>3. Canon[addr(k)] \notin disturbed' BY <1>6, <2>1
    <2>4. ~(i < k) BY <1>5, <2>1, <2>3
    <2> QED BY <1>2, <2>2, <2>4
  <1> QED BY <1>1, <1>2, <1>5, <1>6 DEF addr

LEMMA ConnectPlaces ==
    ASSUME TypeOK, Untouched, OnConnect, BotStep, NEW room \in Address, Sound(room)'
    PROVE  Placed(room)'
  <1> DEFINE addr(i) == FinishRoomName(AutoJoin[i])
  <1>1. /\ outbox = <<>> /\ inbox' = <<>> /\ chunk' = <<>> /\ occ'[room] = NoText
        /\ Canon[room] = room /\ room \notin disturbed'
    BY DEF Untouched, OnConnect, BotStep, Sound
  <1>2. /\ DOMAIN outbox' = DOMAIN AutoJoin /\ DOMAIN rooms' = DOMAIN AutoJoin
        /\ \A i \in DOMAIN AutoJoin :
              /\ addr(i) \in Address
              /\ outbox'[i] = PresenceTo(addr(i), ConfigNick)
              /\ rooms'[i] = JoinedRoom(addr(i), ConfigNick)
              /\ Canon[addr(i)] \notin disturbed' =>
                    /\ Canon[addr(i)] = addr(i)
                    /\ \A k \in DOMAIN AutoJoin : Canon[addr(k)] = addr(i) => k = i
    BY <1>1, ConnectRequests
  <1>3. Answered(room)' = {} /\ None(inbox', Answers(room)) /\ Single(inbox', Answers(room))
        /\ None(chunk', Answers(room)) /\ Single(chunk', Answers(room))
    BY <1>1 DEF Answered, None, Single, Range
  <1>4. outbox' \in Seq(Outgoing) BY BotStepType DEF TypeOK, BotTypeOK
  <1> HIDE DEF addr
  <1>5. ASSUME NEW i \in DOMAIN AutoJoin
        PROVE  /\ outbox'[i].kind = "presence" /\ outbox'[i].to = addr(i)
               /\ outbox'[i].res = ConfigNick /\ outbox'[i] \in Outgoing
               /\ rooms'[i].addr = addr(i) /\ rooms'[i].joined
               /\ rooms'[i].nick = ConfigNick /\ rooms'[i].newNick = NoText
    <2>1. outbox'[i] \in Outgoing BY <1>2, <1>4, InRange
    <2> QED BY <1>2, <2>1 DEF PresenceTo, JoinedRoom
  <1>6. ASSUME NEW i \in DOMAIN AutoJoin
        PROVE  outbox'[i] \in Asks(room) <=> addr(i) = room
    <2>1. outbox'[i] \in Asks(room) <=> Canon[addr(i)] = room BY <1>5 DEF Asks
    <2> QED BY <1>1, <1>2, <2>1
  <1>7. ASSUME NEW i \in DOMAIN AutoJoin, NEW k \in DOMAIN AutoJoin,
               addr(i) = room, addr(k) = room
        PROVE  i = k
    BY <1>1, <1>2, <1>7
  <1>8. Single(outbox', Asks(room)) BY <1>2, <1>6, <1>7 DEF Single
  <1>9. OneUnderWay(room)' BY <1>3, <1>8 DEF OneUnderWay
  <1>10. ASSUME NEW request \in Asked(room)'
         PROVE  /\ request.to = room /\ request.res = ConfigNick
                /\ \E i \in DOMAIN rooms' : rooms'[i].addr = room
    <2>1. PICK i \in DOMAIN AutoJoin : outbox'[i] = request
      BY <1>2, <1>4, InRange DEF Asked
    <2>2. request \in Asks(room) BY DEF Asked
    <2> QED BY <1>2, <1>5, <1>6, <2>1, <2>2
  <1>11. ASSUME NEW i \in DOMAIN rooms', rooms'[i].addr = room
         PROVE  /\ ~Quiet(room)'
                /\ \A request \in Asked(room)' : Fits(rooms'[i], request, NoText)
    <2>1. outbox'[i] \in Asked(room)'
      BY <1>2, <1>4, <1>5, <1>6, <1>11, InRange DEF Asked
    <2>2. \A request \in Asked(room)' : Fits(rooms'[i], request, NoText)
      BY <1>2, <1>5, <1>10, <1>11, BotAssumption DEF Fits
    <2> QED BY <2>1, <2>2 DEF Quiet
  <1>12. (\A i \in DOMAIN rooms' : rooms'[i].addr # room) => Quiet(room)'
    BY <1>3, <1>10 DEF Quiet
  <1> QED BY <1>1, <1>3, <1>9, <1>11, <1>12 DEF Placed

(***************************************************************************)
(* A room has one object, and its record comes out right.                  *)
(***************************************************************************)
Settled == AllPlaced /\ OneObjectPerRoom /\ Untouched

LEMMA UntouchedKept ==
    ASSUME TypeOK, Untouched, [Next]_vars
    PROVE  Untouched'
  <1>1. ASSUME UNCHANGED <<conn, chunk>>, conn # "login" PROVE Untouched'
    BY <1>1 DEF Untouched
  <1>2. CASE UNCHANGED vars BY <1>2 DEF vars, botVars, worldVars, Untouched
  <1>3. CASE Service \/ World
    <2>1. conn = "online" /\ UNCHANGED <<conn, chunk>>
      BY <1>3 DEF Service, Refuse, Admit, Rename, Broadcast, Deliver, AnswerSubscription,
                  World, Direct, Speak, Whisper, Expel, Subscribe, Stimulus, Take,
                  serverUnchanged
    <2> QED BY <1>1, <2>1
  <1>4. CASE OnConnect BY <1>4 DEF OnConnect, Untouched
  <1>5. CASE Receive BY <1>5 DEF Receive, Untouched
  <1>6. CASE ConnectionLost BY <1>6 DEF ConnectionLost, Untouched
  <1>7. CASE Handle
    <2>1. chunk # <<>> /\ conn' \in {conn, "off", "lost"}
      BY <1>7 DEF Handle, HandleMessage, HandleMUCMessage, HandlePresence,
                  HandleSubscription, TakeStanza, Send,
                  Execute, BfCmd, HelpCmd, EnterCmd, NickCmd, SayCmd, ExitCmd
    <2> QED BY <2>1 DEF Untouched
  <1> QED BY <1>2, <1>3, <1>4, <1>5, <1>6, <1>7 DEF Next, BotStep, BotNext

\* getRoom() before enterRoom(): a second object needs a second name.
LEMMA OneObjectKept ==
    ASSUME TypeOK, Untouched, OneObjectPerRoom, [Next]_vars
    PROVE  OneObjectPerRoom'
  <1>1. BotTypeOK BY DEF TypeOK
  <1>2. ASSUME UNCHANGED rooms, conn' = "online" => conn = "online",
               disturbed \subseteq disturbed'
        PROVE  OneObjectPerRoom'
    BY <1>2 DEF OneObjectPerRoom, Undisturbed
  <1>3. ASSUME conn' # "online" PROVE OneObjectPerRoom'
    BY <1>3 DEF OneObjectPerRoom, Undisturbed
  <1>4. CASE UNCHANGED vars BY <1>2, <1>4 DEF vars, botVars, worldVars
  <1>5. CASE Service \/ World
    <2>1. UNCHANGED <<conn, rooms>> /\ disturbed \subseteq disturbed'
      BY <1>5 DEF Service, Refuse, Admit, Rename, Broadcast, Deliver, AnswerSubscription,
                  World, Direct, Speak, Whisper, Expel, Subscribe, Stimulus,
                  serverUnchanged, worldVars
    <2> QED BY <1>2, <2>1
  <1>6. CASE (Receive \/ ConnectionLost) /\ BotStep
    BY <1>2, <1>6 DEF Receive, ConnectionLost, BotStep
  <1>7. CASE OnConnect /\ BotStep
    <2>1. outbox = <<>> BY <1>7 DEF Untouched, OnConnect
    <2>2. ASSUME NEW i \in DOMAIN rooms', NEW k \in DOMAIN rooms', Undisturbed(i)',
                 rooms'[i].addr = rooms'[k].addr
          PROVE  i = k
      <3>1. Canon[rooms'[i].addr] = rooms'[i].addr /\ rooms'[i].addr \notin disturbed'
        BY <2>2 DEF Undisturbed
      <3>2. /\ DOMAIN rooms' = DOMAIN AutoJoin
            /\ rooms'[i].addr = FinishRoomName(AutoJoin[i])
            /\ rooms'[k].addr = FinishRoomName(AutoJoin[k])
        BY <1>7, <2>1, <2>2, ConnectRequests DEF JoinedRoom
      <3> QED BY <1>7, <2>1, <2>2, <3>1, <3>2, ConnectRequests
    <2> QED BY <2>2 DEF OneObjectPerRoom
  <1>8. CASE Handle /\ BotStep
    <2>1. CASE conn' = "online"
      <3>1. conn = "online" /\ disturbed \subseteq disturbed'
        BY <1>8, <2>1, HandlerEffect DEF BotStep
      <3>2. ASSUME DOMAIN rooms' = DOMAIN rooms,
                   \A i \in DOMAIN rooms : rooms'[i].addr = rooms[i].addr
            PROVE  OneObjectPerRoom'
        BY <2>1, <3>1, <3>2 DEF OneObjectPerRoom, Undisturbed
      <3>3. CASE HandlePresence
        <4>1. ASSUME NEW i \in DOMAIN rooms PROVE rooms'[i].addr = rooms[i].addr
          <5>1. rooms[i] \in Room BY <1>1 DEF BotTypeOK
          <5>2. AfterPresence(rooms[i], Head(chunk)).addr = rooms[i].addr
            BY <5>1 DEF AfterPresence, AfterError, AfterNews, Room
          <5> QED BY <3>3, <5>2 DEF HandlePresence
        <4> QED BY <3>2, <3>3, <4>1 DEF HandlePresence
      <3>4. ASSUME NEW s \in Seq(Outgoing), Effect(s) PROVE OneObjectPerRoom'
        <4>1. CASE rooms' = rooms BY <3>2, <4>1
        <4>2. ASSUME NEW i \in DOMAIN rooms, NEW nick \in Texts, SetsNick(i, nick, s)
              PROVE  OneObjectPerRoom'
          BY <1>1, <3>2, <4>2, RoomsAfterNick
        <4>3. ASSUME NEW addr \in Address, Enters(addr, s) PROVE OneObjectPerRoom'
          <5>1. \A i \in DOMAIN rooms : rooms[i].addr # addr BY <4>3 DEF Enters
          <5>2. ASSUME NEW i \in DOMAIN rooms'
                PROVE  \/ i \in DOMAIN rooms /\ rooms'[i] = rooms[i]
                       \/ i = Len(rooms) + 1 /\ rooms'[i].addr = addr
            BY <1>1, <4>3, RoomsAfterEnter DEF JoinedRoom
          <5>3. ASSUME NEW i \in DOMAIN rooms', NEW k \in DOMAIN rooms', Undisturbed(i)',
                       rooms'[i].addr = rooms'[k].addr
                PROVE  i = k
            <6>1. CASE /\ i \in DOMAIN rooms /\ rooms'[i] = rooms[i]
                       /\ k \in DOMAIN rooms /\ rooms'[k] = rooms[k]
              BY <3>1, <5>3, <6>1 DEF OneObjectPerRoom, Undisturbed
            <6> QED BY <5>1, <5>2, <5>3, <6>1
          <5> QED BY <5>3 DEF OneObjectPerRoom
        <4> QED BY <3>4, <4>1, <4>2, <4>3 DEF Effect
      <3> QED BY <1>8, <2>1, <3>3, <3>4, HandlerEffect
    <2> QED BY <1>3, <2>1
  <1> QED BY <1>4, <1>5, <1>6, <1>7, <1>8 DEF Next, BotStep, BotNext

LEMMA AllPlacedKept ==
    ASSUME TypeOK, RegistriesMatch, Settled, [Next]_vars
    PROVE  AllPlaced'
  <1> SUFFICES ASSUME conn' = "online", NEW room \in Address, Sound(room)'
               PROVE  Placed(room)'
    BY DEF AllPlaced
  <1>1. Sound(room)
    <2>1. disturbed \subseteq disturbed'
      BY DEF Next, BotStep, vars, worldVars, Service, Refuse, Admit, Rename, Broadcast,
             Deliver, AnswerSubscription, World, Direct, Speak, Whisper, Expel, Subscribe
    <2> QED BY <2>1 DEF Sound
  <1>2. room \notin disturbed' BY DEF Sound
  <1>3. conn = "online" => Placed(room) BY <1>1 DEF Settled, AllPlaced
  <1>4. CASE UNCHANGED vars
    BY <1>3, <1>4 DEF vars, botVars, worldVars, Placed, OneUnderWay, Quiet, Asked, Answered
  <1>5. CASE Service \/ World
    <2>1. conn = "online"
      BY <1>5 DEF Service, Refuse, Admit, Rename, Broadcast, Deliver, AnswerSubscription,
                  World, Direct, Speak, Whisper, Expel, Subscribe, Stimulus, Take
    <2> QED BY <1>2, <1>3, <1>5, <2>1, ServicePlaces, WorldPlaces
  <1>6. CASE OnConnect /\ BotStep BY <1>6, ConnectPlaces DEF Settled
  <1>7. CASE Receive /\ BotStep
    <2>1. conn = "online" /\ UNCHANGED <<rooms, occ>> BY <1>7 DEF Receive, BotStep
    <2>2. OneUnderWay(room) BY <1>3, <2>1 DEF Placed
    <2>3. OneUnderWay(room)' /\ Asked(room)' = Asked(room) /\ Answered(room)' = Answered(room)
      BY <1>7, <2>2, ReceiveQueues
    <2> QED BY <1>3, <2>1, <2>3, StaysPlaced
  <1>8. CASE ConnectionLost BY <1>8 DEF ConnectionLost
  <1>9. CASE Handle /\ BotStep
    <2>1. /\ conn = "online" /\ chunk # <<>> /\ chunk' = Tail(chunk) /\ UNCHANGED inbox
          /\ \/ Head(chunk).kind = "presence" /\ HandlePresence
             \/ /\ Head(chunk).kind # "presence"
                /\ \E s \in Seq(Outgoing) : outbox' = outbox \o s /\ Effect(s)
      BY <1>9, HandlerEffect
    <2>2. Placed(room) BY <1>3, <2>1
    <2>3. CASE HandlePresence BY <1>9, <2>2, <2>3, PresencePlaces
    <2>4. ASSUME Head(chunk).kind # "presence", NEW s \in Seq(Outgoing),
                 outbox' = outbox \o s, Effect(s)
          PROVE  Placed(room)'
      BY <1>1, <1>2, <1>9, <2>1, <2>2, <2>4, CommandPlaces DEF Settled
    <2> QED BY <2>1, <2>3, <2>4
  <1> QED BY <1>4, <1>5, <1>6, <1>7, <1>8, <1>9 DEF Next, BotStep, BotNext

LEMMA SettledAlways == Spec => []Settled
  <1>1. Init => Settled
    BY DEF Init, BotInit, Settled, AllPlaced, OneObjectPerRoom, Undisturbed, Untouched
  <1>2. TypeOK /\ RegistriesMatch /\ Settled /\ [Next]_vars => Settled'
    BY UntouchedKept, OneObjectKept, AllPlacedKept DEF Settled
  <1> QED BY <1>1, <1>2, TypeCorrect, RegistriesCorrect, PTL DEF Spec

\* No command and no list of rooms in the configuration gives an undisturbed
\* room a second object.
THEOREM OneObject == Spec => []OneObjectPerRoom
  <1>1. Settled => OneObjectPerRoom BY DEF Settled
  <1> QED BY <1>1, SettledAlways, PTL

\* With every request answered and handled, what the library believes of its
\* place and its nick in an undisturbed room is what the service has: the
\* optimistic m_joined and the reading of refusals by m_newNick come out right
\* in every run, with any queues, rooms and answers.
THEOREM MembershipCorrect == Spec => []MembershipTrue
  <1>1. TypeOK /\ Settled => MembershipTrue
    <2> SUFFICES ASSUME TypeOK, Settled, NEW i \in DOMAIN rooms, Undisturbed(i)
                 PROVE  IF rooms[i].joined
                        THEN ~Unanswered(rooms[i].addr) =>
                                 occ[rooms[i].addr] = rooms[i].nick /\ rooms[i].nick # NoText
                        ELSE occ[rooms[i].addr] = NoText /\ ~Unanswered(rooms[i].addr)
      BY DEF MembershipTrue
    <2> DEFINE room == rooms[i].addr
    <2>1. room \in Address
      <3>1. rooms[i] \in Room BY DEF TypeOK, BotTypeOK
      <3> QED BY <3>1 DEF Room
    <2>2. Placed(room) BY <2>1 DEF Undisturbed, Settled, AllPlaced, Sound
    <2>3. Quiet(room) <=> ~Unanswered(room) BY <2>1, QuietIsAnswered
    <2>4. Quiet(room) => Agree(rooms[i], occ[room]) BY <2>2 DEF Placed
    <2>5. ~rooms[i].joined => Quiet(room) BY <2>2 DEF Placed, Quiet, Fits, Settles
    <2> QED BY <2>3, <2>4, <2>5 DEF Agree
  <1> QED BY <1>1, SettledAlways, TypeCorrect, PTL

(***************************************************************************)
(* Nothing said is lost.  The strengthening: whatever has a number is a    *)
(* plain line of a room of the service, and the bot is in that room unless *)
(* it was disturbed; so the room believes that it has joined, its session  *)
(* is registered, and the line does not fall to the handler of private     *)
(* messages, which logs nothing.                                           *)
(***************************************************************************)
Line(x) ==
    /\ x.kind = "message" /\ x.type = "groupchat" /\ ~x.threaded
    /\ ~x.subject /\ ~Empty(x.body)
    /\ x.from \in Rooms
OnItsWay == Range(chunk) \cup Range(inbox)
Lines ==
    /\ \A x \in OnItsWay :
          x.id # 0 => Line(x) /\ (x.from \notin disturbed => occ[x.from] # NoText)
    /\ \A a \in Address : occ[a] # NoText => a \in Rooms

LEMMA ComingIs ==
    ASSUME NEW room
    PROVE  /\ Coming(room) = {x.id : x \in {y \in OnItsWay : FromRoom(room, y)}} \ {0}
           /\ Coming(room)' = {x.id : x \in {y \in OnItsWay' : FromRoom(room, y)}} \ {0}
  <1>1. Coming(room) = {x.id : x \in {y \in OnItsWay : FromRoom(room, y)}} \ {0}
    BY DEF Coming, OnItsWay, Range
  <1>2. Coming(room)' = {x.id : x \in {y \in OnItsWay' : FromRoom(room, y)}} \ {0}
    BY DEF Coming, OnItsWay, Range
  <1> QED BY <1>1, <1>2

\* A plain line of a room, or stanzas without a number.
Unnumbered(t) == (\A x \in Range(t) : x.id = 0) /\ UNCHANGED said
Numbers(x, t) ==
    /\ t = <<x>> /\ Line(x) /\ x.id = Len(said) + 1
    /\ said' = Append(said, x.from)
    /\ occ[x.from] # NoText /\ UNCHANGED <<occ, disturbed>>
Arrival(t) == Arrive(t) /\ (Unnumbered(t) \/ \E x \in Incoming : Numbers(x, t))

LEMMA ShortArrivals ==
    ASSUME NEW x \in Incoming, NEW y \in Incoming, x.id = 0, y.id = 0, UNCHANGED said
    PROVE  /\ \A t \in {<<x>>, <<x, y>>} : t \in Seq(Incoming) /\ Unnumbered(t)
           /\ <<>> \in Seq(Incoming) /\ Unnumbered(<<>>)
  <1>1. DOMAIN <<x, y>> = {1, 2} /\ <<x, y>>[1] = x /\ <<x, y>>[2] = y OBVIOUS
  <1>2. DOMAIN <<x>> = {1} /\ <<x>>[1] = x OBVIOUS
  <1> QED BY <1>1, <1>2 DEF Unnumbered, Range

LEMMA Arrivals ==
    ASSUME TypeOK, Lines, Service \/ World
    PROVE  \E t \in Seq(Incoming) : Arrival(t)
  <1> DEFINE asked == Head(outbox)
             r == Canon[asked.to]
  <1>1. ASSUME NEW kind, Take(kind)
        PROVE  /\ r \in Address /\ asked.to \in Address
               /\ asked.res \in Texts /\ asked.body \in Body
    BY <1>1, TakeType
  <1>2. /\ NoText \in Texts /\ (\A a \in Address : occ[a] \in Texts)
        /\ Len(said) + 1 \in Nat
    <2>1. Len(said) \in Nat BY LenProperties DEF TypeOK
    <2>2. Len(said) + 1 \in Nat
      <3> DEFINE n == Len(said)
      <3>1. n \in Nat BY <2>1
      <3> HIDE DEF n
      <3> QED BY <3>1
    <2>3. \A a \in Address : occ[a] \in Texts BY DEF TypeOK
    <2> QED BY <2>2, <2>3, TextsAssumption
  <1>3. ASSUME NEW x \in Incoming, x.id = 0, Arrive(<<x>>), UNCHANGED said
        PROVE  \E t \in Seq(Incoming) : Arrival(t)
    BY <1>3, ShortArrivals DEF Arrival
  <1>4. ASSUME NEW x \in Incoming, Arrive(<<x>>), Numbers(x, <<x>>)
        PROVE  \E t \in Seq(Incoming) : Arrival(t)
    <2>1. <<x>> \in Seq(Incoming) OBVIOUS
    <2>2. Arrival(<<x>>) BY <1>4 DEF Arrival
    <2> QED BY <2>1, <2>2
  <1>5. ASSUME UNCHANGED <<inbox, said>> PROVE \E t \in Seq(Incoming) : Arrival(t)
    <2>1. inbox \o <<>> = inbox BY Queues
    <2>2. <<>> \in Seq(Incoming) /\ Unnumbered(<<>>) BY <1>5 DEF Unnumbered, Range
    <2> QED BY <1>5, <2>1, <2>2 DEF Arrival, Arrive
  <1>6. CASE Refuse
    <2> DEFINE no == Presence("error", r, asked.res, {}, NoText)
    <2>1. Take("presence") /\ Arrive(<<no>>) /\ said' = said BY <1>6 DEF Refuse, worldVars
    <2>2. no \in Incoming BY <1>1, <1>2, <2>1, PresenceType
    <2>3. no.id = 0 BY DEF Presence
    <2> QED BY <1>3, <2>1, <2>2, <2>3
  <1>7. CASE Admit
    <2> DEFINE flags(nick) == IF nick = asked.res THEN {"self"} ELSE {"self", "assigned"}
               entered(nick) == Presence("available", r, nick, flags(nick), NoText)
               old(nick, body) ==
                 [Message("groupchat", r, nick, body, 0) EXCEPT !.delayed = TRUE]
    <2>1. PICK nick \in {asked.res} \cup Assigned, body \in UserBodies,
               replay \in BOOLEAN :
             Arrive(IF replay THEN <<entered(nick), old(nick, body)>>
                              ELSE <<entered(nick)>>)
      BY <1>7 DEF Admit
    <2>2. Take("presence") /\ said' = said BY <1>7 DEF Admit
    <2>3. nick \in Texts /\ body \in Body /\ r \in Address
          /\ flags(nick) \in SUBSET PresenceFlags
      BY <1>1, <2>2, SessionAssumption DEF PresenceFlags
    <2>4. entered(nick) \in Incoming /\ entered(nick).id = 0
      BY <1>2, <2>3, PresenceType DEF Presence
    <2>5. old(nick, body) \in Incoming /\ old(nick, body).id = 0
      <3>1. Message("groupchat", r, nick, body, 0) \in Incoming BY <2>3, MessageType
      <3>2. Message("groupchat", r, nick, body, 0).id = 0 BY DEF Message
      <3> QED BY <3>1, <3>2 DEF Incoming
    <2>6. Arrive(<<entered(nick), old(nick, body)>>) \/ Arrive(<<entered(nick)>>)
      BY <2>1
    <2> HIDE DEF entered, old
    <2>7. /\ <<entered(nick)>> \in Seq(Incoming) /\ Unnumbered(<<entered(nick)>>)
          /\ <<entered(nick), old(nick, body)>> \in Seq(Incoming)
          /\ Unnumbered(<<entered(nick), old(nick, body)>>)
      BY <2>2, <2>4, <2>5, ShortArrivals
    <2> QED BY <2>6, <2>7 DEF Arrival
  <1>8. CASE Rename
    <2> DEFINE same == Presence("available", r, asked.res, {"self"}, NoText)
               new(flags) == Presence("available", r, occ[r], flags, asked.res)
    <2>1. PICK flags \in {{"changed"}, {"changed", "self"}} :
             Arrive(<<IF asked.res = occ[r] THEN same ELSE new(flags)>>)
      BY <1>8 DEF Rename
    <2>2. Take("presence") /\ said' = said BY <1>8 DEF Rename
    <2>3. same \in Incoming BY <1>1, <1>2, <2>2, PresenceType DEF PresenceFlags
    <2>4. new(flags) \in Incoming
      <3>1. flags \in SUBSET PresenceFlags BY DEF PresenceFlags
      <3> QED BY <1>1, <1>2, <2>2, <3>1, PresenceType
    <2>5. same.id = 0 /\ new(flags).id = 0 BY DEF Presence
    <2>6. Arrive(<<same>>) \/ Arrive(<<new(flags)>>) BY <2>1
    <2> QED BY <1>3, <2>2, <2>3, <2>4, <2>5, <2>6
  <1>9. CASE Broadcast
    <2> DEFINE line == ~Empty(asked.body)
               id == LineId(line)
    <2>7. id \in Nat BY LineIdType
    <2>8. (line => id = Len(said) + 1) /\ (~line => id = 0) BY DEF LineId
    <2> HIDE DEF id
    <2> DEFINE echo == Message("groupchat", r, occ[r], asked.body, id)
               error == Message("error", r, NoText, asked.body, 0)
    <2>1. Take("groupchat") /\ UNCHANGED <<occ, disturbed>> BY <1>9 DEF Broadcast
    <2>2. r \in Address /\ occ[r] \in Texts /\ asked.body \in Body BY <1>1, <1>2, <2>1
    <2>3. echo \in Incoming /\ error \in Incoming
      <3>1. echo \in Incoming BY <2>2, <2>7, MessageType
      <3>2. error \in Incoming BY <1>2, <2>2, MessageType
      <3> QED BY <3>1, <3>2
    <2>4. /\ error.id = 0 /\ echo.id = id /\ echo.from = r /\ echo.body = asked.body
      BY DEF Message
    <2>9. \/ occ[r] # NoText /\ SayLine(r, line) /\ Arrive(<<echo>>)
          \/ UNCHANGED said /\ Arrive(<<error>>)
      BY <1>9 DEF Broadcast, id
    <2>5. CASE line /\ occ[r] # NoText /\ SayLine(r, line) /\ Arrive(<<echo>>)
      <3>1. r \in Rooms BY <2>2, <2>5 DEF Lines
      <3>2. Line(echo) BY <2>4, <2>5, <3>1 DEF Line, Message
      <3>4. said' = Append(said, r) /\ id = Len(said) + 1 BY <2>5, <2>8 DEF SayLine
      <3> HIDE DEF echo, r
      <3>3. Numbers(echo, <<echo>>) BY <2>1, <2>4, <2>5, <3>2, <3>4 DEF Numbers
      <3> QED BY <1>4, <2>3, <2>5, <3>3
    <2>10. CASE ~line /\ SayLine(r, line) /\ Arrive(<<echo>>)
      <3>1. UNCHANGED said /\ id = 0 BY <2>8, <2>10 DEF SayLine
      <3> HIDE DEF echo
      <3> QED BY <1>3, <2>3, <2>4, <2>10, <3>1
    <2>6. CASE UNCHANGED said /\ Arrive(<<error>>) BY <1>3, <2>3, <2>4, <2>6
    <2> HIDE DEF echo, error, line, r
    <2> QED BY <2>5, <2>6, <2>9, <2>10
  <1>10. CASE Deliver
    <2> DEFINE bounce == Message("error", asked.to, asked.res, asked.body, 0)
    <2>1. Take("chat") /\ said' = said BY <1>10 DEF Deliver
    <2>2. bounce \in Incoming BY <1>1, <2>1, MessageType
    <2>3. bounce.id = 0 BY DEF Message
    <2>4. UNCHANGED inbox \/ Arrive(<<bounce>>) BY <1>10 DEF Deliver
    <2> QED BY <1>3, <1>5, <2>1, <2>2, <2>3, <2>4
  <1>11. CASE AnswerSubscription BY <1>5, <1>11 DEF AnswerSubscription, worldVars
  <1>12. CASE Direct
    <2>1. PICK user \in Users, body \in UserBodies :
             Arrive(<<Message("chat", user, NoText, body, 0)>>)
      BY <1>12 DEF Direct
    <2>2. Message("chat", user, NoText, body, 0) \in Incoming
      BY <1>2, MessageType, SessionAssumption
    <2>3. Message("chat", user, NoText, body, 0).id = 0 BY DEF Message
    <2>4. said' = said BY <1>12 DEF Direct
    <2> QED BY <1>3, <2>1, <2>2, <2>3, <2>4
  <1>13. CASE Speak
    <2>1. PICK room \in Rooms, body \in UserBodies, form \in Forms :
             /\ occ[room] # NoText
             /\ SayLine(room, IsLine(form, body))
             /\ Arrive(<<Spoken(form, room, body)>>)
      BY <1>13 DEF Speak
    <2>2. UNCHANGED <<occ, disturbed>> BY <1>13 DEF Speak
    <2> DEFINE x == Spoken(form, room, body)
    <2>3. /\ x \in Incoming /\ x.kind = "message" /\ x.from = room /\ x.body = body
          /\ x.id = LineId(IsLine(form, body))
          /\ form = "plain" => x.type = "groupchat" /\ ~x.threaded /\ ~x.subject
      BY SpokenType
    <2> HIDE DEF x
    <2>4. Arrive(<<x>>) BY <2>1 DEF x
    <2>5. CASE IsLine(form, body)
      <3>1. said' = Append(said, room) /\ x.id = Len(said) + 1
        BY <2>1, <2>3, <2>5 DEF SayLine, LineId
      <3>2. Line(x) BY <2>3, <2>5 DEF Line, IsLine
      <3>3. Numbers(x, <<x>>) BY <2>1, <2>2, <2>3, <3>1, <3>2 DEF Numbers
      <3> QED BY <1>4, <2>3, <2>4, <3>1, <3>3
    <2>6. CASE ~IsLine(form, body)
      <3>1. said' = said /\ x.id = 0 BY <2>1, <2>3, <2>6 DEF SayLine, LineId
      <3> QED BY <1>3, <2>3, <2>4, <3>1
    <2> QED BY <2>5, <2>6
  <1>14. CASE Whisper
    <2>1. PICK room \in Rooms, body \in UserBodies :
             Arrive(<<Message("chat", room, "someone", body, 0)>>)
      BY <1>14 DEF Whisper
    <2>2. Message("chat", room, "someone", body, 0) \in Incoming
      BY MessageType, SessionAssumption
    <2>3. Message("chat", room, "someone", body, 0).id = 0 BY DEF Message
    <2>4. said' = said BY <1>14 DEF Whisper
    <2> QED BY <1>3, <2>1, <2>2, <2>3, <2>4
  <1>15. CASE Expel
    <2>1. PICK room \in Rooms :
             Arrive(<<Presence("available", room, occ[room], {"self"}, NoText)>>)
      BY <1>15 DEF Expel
    <2>2. room \in Address BY SessionAssumption
    <2>3. Presence("available", room, occ[room], {"self"}, NoText) \in Incoming
      BY <1>2, <2>2, PresenceType DEF PresenceFlags
    <2>4. Presence("available", room, occ[room], {"self"}, NoText).id = 0 BY DEF Presence
    <2>5. said' = said BY <1>15 DEF Expel
    <2> QED BY <1>3, <2>1, <2>3, <2>4, <2>5
  <1>16. CASE Subscribe
    <2> DEFINE asks(user) == [Presence("available", user, NoText, {}, NoText)
                                EXCEPT !.kind = "subscribe"]
    <2>1. PICK user \in Users : Arrive(<<asks(user)>>) BY <1>16 DEF Subscribe
    <2>2. Presence("available", user, NoText, {}, NoText) \in Incoming
      BY <1>2, PresenceType, SessionAssumption
    <2>3. asks(user) \in Incoming BY <2>2 DEF Incoming
    <2>4. asks(user).id = 0 BY DEF Presence
    <2>5. said' = said BY <1>16 DEF Subscribe
    <2> HIDE DEF asks
    <2> QED BY <1>3, <2>1, <2>3, <2>4, <2>5
  <1> QED
    BY <1>6, <1>7, <1>8, <1>9, <1>10, <1>11, <1>12, <1>13, <1>14, <1>15, <1>16
       DEF Service, World

\* Where the bot is: in rooms of the service, and out of them only by Expel.
LEMMA PlacesKept ==
    ASSUME TypeOK, Lines, [Next]_vars
    PROVE  /\ disturbed \subseteq disturbed'
           /\ \A a \in Address : occ'[a] # NoText => a \in Rooms
           /\ \A a \in Address \ disturbed' : occ[a] # NoText => occ'[a] # NoText
  <1>1. \A a \in Address : occ[a] # NoText => a \in Rooms BY DEF Lines
  <1>2. CASE UNCHANGED occ
    <2>1. disturbed \subseteq disturbed'
      BY DEF Next, BotStep, vars, worldVars, Service, Refuse, Admit, Rename, Broadcast,
             Deliver, AnswerSubscription, World, Direct, Speak, Whisper, Expel, Subscribe
    <2> QED BY <1>1, <1>2, <2>1
  <1>3. CASE Admit
    <2>1. PICK nick \in {Head(outbox).res} \cup Assigned :
             nick # NoText /\ occ' = [occ EXCEPT ![Canon[Head(outbox).to]] = nick]
      BY <1>3 DEF Admit
    <2>2. Canon[Head(outbox).to] \in Rooms /\ disturbed' = disturbed BY <1>3 DEF Admit
    <2> QED BY <1>1, <2>1, <2>2 DEF TypeOK
  <1>4. CASE Rename
    <2>1. /\ occ' = [occ EXCEPT ![Canon[Head(outbox).to]] = Head(outbox).res]
          /\ Head(outbox).res # NoText /\ occ[Canon[Head(outbox).to]] # NoText
          /\ disturbed' = disturbed
      BY <1>4 DEF Rename
    <2>2. Canon[Head(outbox).to] \in Address BY <1>4, TakeType DEF Rename
    <2> QED BY <1>1, <2>1, <2>2 DEF TypeOK
  <1>5. CASE Expel
    <2>1. PICK room \in Rooms : /\ occ' = [occ EXCEPT ![room] = NoText]
                                /\ disturbed' = disturbed \cup {room}
      BY <1>5 DEF Expel
    <2> QED BY <1>1, <2>1, SessionAssumption DEF TypeOK
  <1> QED
    BY <1>2, <1>3, <1>4, <1>5
       DEF Next, BotStep, vars, worldVars, Service, Refuse, Broadcast, Deliver,
           AnswerSubscription, World, Direct, Speak, Whisper, Subscribe

LEMMA LinesKept ==
    ASSUME TypeOK, Lines, [Next]_vars
    PROVE  Lines'
  <1>1. /\ disturbed \subseteq disturbed'
        /\ \A a \in Address : occ'[a] # NoText => a \in Rooms
        /\ \A a \in Address \ disturbed' : occ[a] # NoText => occ'[a] # NoText
    BY PlacesKept
  <1>2. ASSUME NEW x \in OnItsWay, x.id # 0
        PROVE  Line(x) /\ (x.from \notin disturbed' => occ'[x.from] # NoText)
    <2>1. Line(x) /\ (x.from \notin disturbed => occ[x.from] # NoText)
      BY <1>2 DEF Lines
    <2>2. x.from \in Address BY <2>1, SessionAssumption DEF Line
    <2> QED BY <1>1, <2>1, <2>2
  <1>3. ASSUME OnItsWay' \subseteq OnItsWay PROVE Lines'
    BY <1>1, <1>2, <1>3 DEF Lines
  <1>4. CASE UNCHANGED <<chunk, inbox>> BY <1>3, <1>4 DEF OnItsWay
  <1>5. CASE Service \/ World
    <2>1. PICK t \in Seq(Incoming) : Arrival(t) BY <1>5, Arrivals
    <2>2. UNCHANGED chunk
      BY <1>5 DEF Service, Refuse, Admit, Rename, Broadcast, Deliver, AnswerSubscription,
                  World, Direct, Speak, Whisper, Expel, Subscribe, Stimulus,
                  serverUnchanged
    <2>3. Range(inbox') = Range(inbox) \cup Range(t)
      BY <2>1, Queues, ConcatQueue, ZenonT(60) DEF Arrival, Arrive
    <2>4. OnItsWay' = OnItsWay \cup Range(t) BY <2>2, <2>3 DEF OnItsWay
    <2>5. ASSUME NEW x \in Range(t), x.id # 0
          PROVE  Line(x) /\ (x.from \notin disturbed' => occ'[x.from] # NoText)
      <3>1. PICK y \in Incoming : Numbers(y, t)
        BY <2>1, <2>5 DEF Arrival, Unnumbered
      <3>2. x = y
        <4>1. t = <<y>> BY <3>1 DEF Numbers
        <4>2. DOMAIN <<y>> = {1} /\ <<y>>[1] = y OBVIOUS
        <4> QED BY <4>1, <4>2 DEF Range
      <3> QED BY <3>1, <3>2 DEF Numbers
    <2> QED BY <1>1, <1>2, <2>4, <2>5 DEF Lines
  <1>6. CASE Receive
    <2>1. PICK n \in 1 .. ChunkMax :
             /\ n <= Len(inbox)
             /\ chunk' = SubSeq(inbox, 1, n)
             /\ inbox' = SubSeq(inbox, n + 1, Len(inbox))
      BY <1>6 DEF Receive
    <2>2. n \in 1 .. Len(inbox) BY <2>1, Queues, LenProperties
    <2>3. Range(inbox) = Range(chunk') \cup Range(inbox') BY <2>1, <2>2, Queues, SplitQueue
    <2> QED BY <1>3, <2>3 DEF OnItsWay
  <1>7. CASE Handle
    <2>1. chunk # <<>> /\ chunk' = Tail(chunk) /\ UNCHANGED inbox
      BY <1>7 DEF Handle, HandleMessage, HandleMUCMessage, HandlePresence,
                  HandleSubscription, TakeStanza
    <2>2. Range(chunk) = {Head(chunk)} \cup Range(chunk') BY <2>1, Queues, TailQueue
    <2> QED BY <1>3, <2>1, <2>2 DEF OnItsWay
  <1> QED
    BY <1>4, <1>5, <1>6, <1>7
       DEF Next, BotStep, BotNext, OnConnect, ConnectionLost, vars, botVars

\* A numbered line of an undisturbed room finds a session of that room.
LEMMA LineFindsSession ==
    ASSUME TypeOK, RegistriesMatch, AllPlaced, Lines, conn = "online",
           NEW x \in OnItsWay, x.id # 0, x.from \notin disturbed
    PROVE  SessionsFor(x) # {} /\ ForTheRoom(x)
  <1> DEFINE room == x.from
  <1>1. Line(x) /\ occ[room] # NoText BY DEF Lines
  <1>2. room \in Address /\ Sound(room) BY <1>1, SessionAssumption DEF Line, Sound
  <1>3. Placed(room) BY <1>2 DEF AllPlaced
  <1>4. PICK i \in DOMAIN rooms : rooms[i].addr = room BY <1>1, <1>3 DEF Placed
  <1>5. rooms[i].joined
    BY <1>1, <1>3, <1>4 DEF Placed, Quiet, Fits, Settles, Agree
  <1>6. i \in SessionsFor(x) BY <1>1, <1>4, <1>5 DEF RegistriesMatch, SessionsFor, Line
  <1> QED BY <1>1, <1>6 DEF Line, ForTheRoom

\* What the handlers log: the first line of the chunk, or nothing.
LEMMA WhatIsLogged ==
    ASSUME TypeOK, Handle
    PROVE  \/ confLogs' = confLogs
           \/ confLogs' = Append(confLogs, [room |-> Head(chunk).from, id |-> Head(chunk).id,
                                            delayed |-> Head(chunk).delayed])
  <1>1. CASE HandleMUCMessage
    <2> DEFINE msg == Head(chunk)
    <2>1. SessionFor(msg) \in SessionsFor(msg)
      BY <1>1, SessionForType DEF HandleMUCMessage, TypeOK
    <2>2. rooms[SessionFor(msg)].addr = msg.from BY <2>1 DEF SessionsFor
    <2> QED BY <1>1, <2>2 DEF HandleMUCMessage, ConfLog, LogLine
  <1>2. CASE ~HandleMUCMessage
    BY <1>2 DEF Handle, HandleMessage, HandlePresence, HandleSubscription
  <1> QED BY <1>1, <1>2

LEMMA LoggedAfter ==
    ASSUME TypeOK, NEW line, confLogs' = Append(confLogs, line), NEW room,
           line \in [room : Address, id : Nat, delayed : BOOLEAN]
    PROVE  Logged(room)' = IF line.room = room THEN Logged(room) \cup ({line.id} \ {0})
                                               ELSE Logged(room)
  <1> DEFINE n == Len(confLogs)
  <1>1. confLogs \in Seq([room : Address, id : Nat, delayed : BOOLEAN])
    BY DEF TypeOK, BotTypeOK
  <1>2. /\ n \in Nat /\ DOMAIN confLogs = 1 .. n /\ DOMAIN confLogs' = 1 .. n + 1
        /\ confLogs'[n + 1] = line /\ \A i \in 1 .. n : confLogs'[i] = confLogs[i]
    BY <1>1, AppendProperties, LenProperties
  <1> HIDE DEF n
  <1>3. /\ \A k \in DOMAIN confLogs : k \in DOMAIN confLogs' /\ confLogs'[k] = confLogs[k]
        /\ \A k \in DOMAIN confLogs' : k \in DOMAIN confLogs \/ confLogs'[k] = line
        /\ n + 1 \in DOMAIN confLogs' /\ confLogs'[n + 1] = line
    BY <1>2
  <1>4. Logged(room) = {confLogs[k].id : k \in {l \in DOMAIN confLogs :
                                                  confLogs[l].room = room}} \ {0}
    BY DEF Logged
  <1>5. Logged(room)' = {confLogs'[k].id : k \in {l \in DOMAIN confLogs' :
                                                    confLogs'[l].room = room}} \ {0}
    BY DEF Logged
  <1>6. CASE line.room = room BY <1>3, <1>4, <1>5, <1>6
  <1>7. CASE line.room # room BY <1>3, <1>4, <1>5, <1>7
  <1> QED BY <1>6, <1>7

LEMMA LogKept ==
    ASSUME TypeOK, RegistriesMatch, Settled, Lines, LogComplete, [Next]_vars
    PROVE  LogComplete'
  <1> DEFINE Told(room) == {n \in DOMAIN said : said[n] = room}
  <1> SUFFICES ASSUME conn' = "online", NEW room \in Rooms \ disturbed'
               PROVE  Logged(room)' \cup Coming(room)' = Told(room)'
    BY DEF LogComplete
  <1>1. /\ Coming(room) = {x.id : x \in {y \in OnItsWay : FromRoom(room, y)}} \ {0}
        /\ Coming(room)' = {x.id : x \in {y \in OnItsWay' : FromRoom(room, y)}} \ {0}
    BY ComingIs
  <1>2. room \notin disturbed BY PlacesKept
  <1>3. conn = "online" => Logged(room) \cup Coming(room) = Told(room)
    BY <1>2 DEF LogComplete
  <1>4. ASSUME UNCHANGED <<confLogs, said>>, conn = "online", OnItsWay' = OnItsWay
        PROVE  Logged(room)' \cup Coming(room)' = Told(room)'
    BY <1>1, <1>3, <1>4 DEF Logged
  <1>5. CASE UNCHANGED vars
    BY <1>4, <1>5 DEF vars, botVars, worldVars, OnItsWay
  <1>6. CASE Service \/ World
    <2>1. PICK t \in Seq(Incoming) : Arrival(t) BY <1>6, Arrivals
    <2>2. UNCHANGED <<conn, chunk, confLogs>>
      BY <1>6 DEF Service, Refuse, Admit, Rename, Broadcast, Deliver, AnswerSubscription,
                  World, Direct, Speak, Whisper, Expel, Subscribe, Stimulus,
                  serverUnchanged
    <2>3. Range(inbox') = Range(inbox) \cup Range(t)
      BY <2>1, Queues, ConcatQueue DEF Arrival, Arrive
    <2>4. OnItsWay' = OnItsWay \cup Range(t) BY <2>2, <2>3 DEF OnItsWay
    <2>5. Logged(room)' = Logged(room) /\ Logged(room) \cup Coming(room) = Told(room)
      BY <1>3, <2>2 DEF Logged
    <2>6. CASE Unnumbered(t)
      <3>1. Coming(room)' = Coming(room) BY <1>1, <2>4, <2>6 DEF Unnumbered
      <3> QED BY <2>5, <2>6, <3>1 DEF Unnumbered
    <2>7. ASSUME NEW x \in Incoming, Numbers(x, t)
          PROVE  Logged(room)' \cup Coming(room)' = Told(room)'
      <3> DEFINE next == Len(said) + 1
      <3>1. /\ x.kind = "message" /\ x.id = next /\ said' = Append(said, x.from)
            /\ t = <<x>> /\ x.from \in Address
        BY <2>7, SessionAssumption DEF Numbers, Line
      <3>2. Range(t) = {x}
        <4>1. DOMAIN <<x>> = {1} /\ <<x>>[1] = x OBVIOUS
        <4> QED BY <3>1, <4>1 DEF Range
      <3>3. next # 0 /\ Len(said) \in Nat BY Numbered
      <3>4. /\ DOMAIN said = 1 .. Len(said) /\ DOMAIN said' = 1 .. next
            /\ said'[next] = x.from /\ \A k \in 1 .. Len(said) : said'[k] = said[k]
        BY <3>1, AppendProperties, LenProperties DEF TypeOK
      <3>5. /\ \A k \in DOMAIN said : k \in DOMAIN said' /\ said'[k] = said[k]
            /\ \A k \in DOMAIN said' : k \in DOMAIN said \/ k = next
            /\ next \in DOMAIN said' /\ said'[next] = x.from
        BY <3>3, <3>4
      <3> HIDE DEF next
      <3>6. Coming(room)' = IF x.from = room THEN Coming(room) \cup {next} ELSE Coming(room)
        <4>1. OnItsWay' = OnItsWay \cup {x} BY <2>4, <3>2
        <4>2. CASE x.from = room
          <5>1. FromRoom(room, x) BY <3>1, <4>2 DEF FromRoom
          <5> QED BY <1>1, <3>1, <3>3, <4>1, <4>2, <5>1
        <4>3. CASE x.from # room
          <5>1. ~FromRoom(room, x) BY <4>3 DEF FromRoom
          <5> QED BY <1>1, <4>1, <4>3, <5>1
        <4> QED BY <4>2, <4>3
      <3>7. Told(room)' = IF x.from = room THEN Told(room) \cup {next} ELSE Told(room)
        <4>1. CASE x.from = room BY <3>5, <4>1
        <4>2. CASE x.from # room BY <3>5, <4>2
        <4> QED BY <4>1, <4>2
      <3> QED BY <2>5, <3>6, <3>7
    <2> QED BY <2>1, <2>6, <2>7 DEF Arrival
  <1>7. CASE OnConnect /\ BotStep
    <2>1. /\ chunk' = <<>> /\ inbox' = <<>> /\ confLogs' = <<>> /\ said' = <<>>
      BY <1>7 DEF OnConnect, BotStep, Settled, Untouched
    <2>2. DOMAIN chunk' = {} /\ DOMAIN inbox' = {} /\ DOMAIN confLogs' = {} /\ DOMAIN said' = {}
      BY <2>1
    <2> QED BY <2>2 DEF Logged, Coming
  <1>10. CASE ConnectionLost BY <1>10 DEF ConnectionLost
  <1>8. CASE Receive /\ BotStep
    <2>1. PICK n \in 1 .. ChunkMax :
             /\ n <= Len(inbox)
             /\ chunk' = SubSeq(inbox, 1, n)
             /\ inbox' = SubSeq(inbox, n + 1, Len(inbox))
      BY <1>8 DEF Receive
    <2>2. n \in 1 .. Len(inbox) BY <2>1, Queues, LenProperties
    <2>3. Range(inbox) = Range(chunk') \cup Range(inbox') BY <2>1, <2>2, Queues, SplitQueue
    <2>4. chunk = <<>> /\ conn = "online" /\ UNCHANGED <<confLogs, said>>
      BY <1>8 DEF Receive, BotStep
    <2>5. Range(<<>>) = {} BY DEF Range
    <2>6. OnItsWay' = OnItsWay BY <2>3, <2>4, <2>5 DEF OnItsWay
    <2> QED BY <1>4, <2>4, <2>6
  <1>9. CASE Handle /\ BotStep
    <2> DEFINE x == Head(chunk)
    <2>1. /\ chunk # <<>> /\ chunk' = Tail(chunk) /\ UNCHANGED <<inbox, said>>
          /\ conn' \in {conn, "off", "lost"}
      BY <1>9 DEF Handle, HandleMessage, HandleMUCMessage, HandlePresence, BotStep,
                  HandleSubscription, TakeStanza, Send,
                  Execute, BfCmd, HelpCmd, EnterCmd, NickCmd, SayCmd, ExitCmd
    <2>2. conn = "online" BY <2>1
    <2>3. x \in Incoming /\ Range(chunk) = {x} \cup Range(chunk') /\ x \in OnItsWay
      BY <2>1, Queues, TailQueue DEF OnItsWay
    <2>4. OnItsWay = {x} \cup OnItsWay' BY <2>1, <2>3 DEF OnItsWay
    <2>5. Logged(room) \cup Coming(room) = Told(room) /\ Told(room)' = Told(room)
      BY <1>3, <2>1, <2>2
    <2> DEFINE line == [room |-> x.from, id |-> x.id, delayed |-> x.delayed]
    <2>6. line \in [room : Address, id : Nat, delayed : BOOLEAN] BY <2>3 DEF Incoming
    <2>7. confLogs' = confLogs \/ confLogs' = Append(confLogs, line)
      BY <1>9, WhatIsLogged
    <2>8. Logged(room)' = IF confLogs' # confLogs /\ x.from = room
                            THEN Logged(room) \cup ({x.id} \ {0}) ELSE Logged(room)
      <3>1. CASE confLogs' = confLogs BY <3>1 DEF Logged
      <3>2. CASE confLogs' # confLogs
        <4>1. line.room = x.from /\ line.id = x.id OBVIOUS
        <4> HIDE DEF line, x
        <4> QED BY <2>6, <2>7, <3>2, <4>1, LoggedAfter
      <3> QED BY <3>1, <3>2
    <2> HIDE DEF x, line
    <2>9. Coming(room) = Coming(room)' \cup
              (IF FromRoom(room, x) THEN {x.id} \ {0} ELSE {})
      <3>1. CASE FromRoom(room, x) BY <1>1, <2>4, <3>1
      <3>2. CASE ~FromRoom(room, x) BY <1>1, <2>4, <3>2
      <3> QED BY <3>1, <3>2
    <2>10. CASE x.id = 0 \/ x.from # room
      BY <2>5, <2>8, <2>9, <2>10 DEF FromRoom
    <2>11. CASE x.id # 0 /\ x.from = room
      <3>1. SessionsFor(x) # {} /\ ForTheRoom(x) /\ x.kind = "message"
        <4>1. SessionsFor(x) # {} /\ ForTheRoom(x)
          BY <1>2, <2>2, <2>3, <2>11, LineFindsSession DEF Settled
        <4> QED BY <2>3, <2>11, <4>1 DEF Lines, Line
      <3>2. confLogs' # confLogs
        <4>1. HandleMUCMessage
          BY <1>9, <3>1 DEF Handle, HandleMessage, HandlePresence, HandleSubscription,
                            TakeStanza, x
        <4>2. confLogs' = Append(confLogs, LogLine(rooms[SessionFor(x)], x))
          BY <3>1, <4>1 DEF HandleMUCMessage, ConfLog, x
        <4>3. Len(confLogs') # Len(confLogs)
          <5>1. confLogs' = Append(confLogs, line)
            <6>1. SessionFor(x) \in SessionsFor(x) BY <3>1, SessionForType DEF TypeOK
            <6>2. rooms[SessionFor(x)].addr = x.from BY <6>1 DEF SessionsFor
            <6> QED BY <4>2, <6>2 DEF LogLine, line
          <5>2. Len(confLogs') = Len(confLogs) + 1 /\ Len(confLogs) \in Nat
            BY <2>6, <5>1, AppendProperties, Numbered DEF TypeOK, BotTypeOK
          <5> QED BY <5>2
        <4> QED BY <4>3
      <3>3. FromRoom(room, x) BY <2>11, <3>1 DEF FromRoom
      <3> QED BY <2>5, <2>8, <2>9, <2>11, <3>2, <3>3
    <2> QED BY <2>10, <2>11
  <1> QED BY <1>5, <1>6, <1>7, <1>8, <1>9, <1>10 DEF Next, BotStep, BotNext

\* While the bot is online, what the chat logs hold of an undisturbed room, with
\* what is being handled and what is on its way, is every line with a text that
\* was said there, in every run: no read boundary, no command and no change of
\* nick between two lines makes the room deaf.
THEOREM NothingUnlogged == Spec => []LogComplete
  <1>1. Init => Lines /\ LogComplete
    <2> SUFFICES ASSUME Init PROVE Lines /\ LogComplete OBVIOUS
    <2>1. /\ chunk = <<>> /\ inbox = <<>> /\ confLogs = <<>> /\ said = <<>>
          /\ occ = [a \in Address |-> NoText]
      BY DEF Init, BotInit
    <2>2. DOMAIN chunk = {} /\ DOMAIN inbox = {} /\ DOMAIN confLogs = {} /\ DOMAIN said = {}
      BY <2>1
    <2>3. Lines BY <2>1, <2>2 DEF Lines, OnItsWay, Range
    <2>4. LogComplete BY <2>2 DEF LogComplete, Logged, Coming
    <2> QED BY <2>3, <2>4
  <1>2. /\ TypeOK /\ RegistriesMatch /\ Settled /\ Lines /\ LogComplete /\ [Next]_vars
        => (Lines /\ LogComplete)'
    BY LinesKept, LogKept
  <1> QED BY <1>1, <1>2, TypeCorrect, RegistriesCorrect, SettledAlways, PTL DEF Spec
=============================================================================
